------------------------ MODULE TranslationCacheProofs -------------------------
(***************************************************************************)
(* Theorems about TranslationCache, for every guest program, every layout   *)
(* of the memories and every size of the caches.                            *)
(***************************************************************************)
EXTENDS TranslationCache, SequenceTheorems, WellFoundedInduction, TLAPS

Phases == {"enter", "emit", "link", "failed"}
Frames == [pc : DOMAIN Program, phase : Phases, at : Nat, next : Nat \ {0}, cell : Nat]
Entry == [pc : DOMAIN Program, at : Nat]
TaggedCaches == {"ram", "bios"}
Marks == Nat \cup {GUARD}

(* What every block in a cache is. *)
BlocksOK ==
  /\ code = [p \in DOMAIN code |-> code[p]]
  /\ \A p \in DOMAIN code :
       /\ code[p] = [pc |-> code[p].pc, links |-> code[p].links]
       /\ code[p].pc \in DOMAIN Program
       /\ p[1] = CacheOf(code[p].pc)

(* The types the proofs need. *)
Shape ==
  /\ stack \in Seq(Frames)
  /\ ptr \in [Caches -> Nat]
  /\ tag \in [Tagged -> Marks]
  /\ tag_top \in [TaggedCaches -> Nat \ {0}]
  /\ rom_branch_hash \in [0 .. Buckets - 1 -> Seq(Entry)]
  /\ BlocksOK

-------------------------------------------------------------------------------
(* The stack. *)

LEMMA TopFrame ==
  ASSUME stack \in Seq(Frames), stack # <<>>
  PROVE  Top \in Frames /\ Len(stack) \in Nat \ {0} /\ Len(stack) \in 1 .. Len(stack)
<1>1. Len(stack) \in Nat \ {0}
  BY EmptySeq
<1>2. Len(stack) \in 1 .. Len(stack)
  BY <1>1
<1> QED
  BY <1>1, <1>2, ElementOfSeq DEF Top

(* Replacing the top frame. *)
LEMMA NewTop ==
  ASSUME stack \in Seq(Frames), stack # <<>>, NEW f \in Frames
  PROVE  [stack EXCEPT ![Len(stack)] = f] \in Seq(Frames)
  BY TopFrame, ExceptSeq

LEMMA BelowIsStack ==
  ASSUME stack \in Seq(Frames), stack # <<>>
  PROVE  Below \in Seq(Frames) /\ Len(Below) = Len(stack) - 1
<1>1. Len(stack) \in Nat \ {0}
  BY TopFrame
<1>2. \A i \in 1 .. Len(stack) - 1 : stack[i] \in Frames
  BY <1>1, ElementOfSeq
<1>3. Len(stack) - 1 \in Int /\ 1 \in Int
  BY <1>1
<1>4. /\ SubSeq(stack, 1, Len(stack) - 1) \in Seq(Frames)
      /\ Len(SubSeq(stack, 1, Len(stack) - 1))
           = IF 1 <= Len(stack) - 1 THEN Len(stack) - 1 - 1 + 1 ELSE 0
  BY <1>2, <1>3, SubSeqProperties
<1>5. Len(Below) = Len(stack) - 1
  <2> DEFINE n == Len(stack)
             m == Len(SubSeq(stack, 1, n - 1))
  <2>1. n \in Nat \ {0} /\ m = IF 1 <= n - 1 THEN n - 1 - 1 + 1 ELSE 0
    BY <1>1, <1>4
  <2> HIDE DEF n, m
  <2>2. m = n - 1
    BY <2>1
  <2> QED
    BY <2>2 DEF n, m, Below
<1> QED
  BY <1>4, <1>5 DEF Below

(* Replacing the frame below the top, which is popped. *)
LEMMA NewBelow ==
  ASSUME stack \in Seq(Frames), Len(stack) > 1, NEW f \in Frames
  PROVE  /\ [Below EXCEPT ![Len(Below)] = f] \in Seq(Frames)
         /\ Below[Len(Below)] \in Frames
<1>0. stack # <<>>
  BY EmptySeq
<1>1. Below \in Seq(Frames) /\ Len(Below) \in 1 .. Len(Below)
  BY <1>0, BelowIsStack, TopFrame
<1> QED
  BY <1>1, ExceptSeq, ElementOfSeq

LEMMA FailIsStack ==
  ASSUME stack \in Seq(Frames), Len(stack) > 1
  PROVE  Fail \in Seq(Frames)
<1> DEFINE b == Below[Len(Below)]
           f == [b EXCEPT !.phase = "failed"]
<1>1. b \in Frames
  <2>1. \E x : x \in Frames
    BY TopFrame, EmptySeq
  <2> QED
    BY <2>1, NewBelow
<1>2. f \in Frames
  BY <1>1 DEF Frames, Phases
<1>3. Fail = [Below EXCEPT ![Len(Below)] = f]
  BY DEF Fail
<1> QED
  BY <1>2, <1>3, NewBelow

LEMMA PhaseIsStack ==
  ASSUME stack \in Seq(Frames), stack # <<>>, NEW phase \in Phases
  PROVE  Phase(phase) \in Seq(Frames)
<1> DEFINE f == [Top EXCEPT !.phase = phase]
<1>1. f \in Frames
  BY TopFrame DEF Frames
<1>2. Phase(phase) = [stack EXCEPT ![Len(stack)] = f]
  BY DEF Phase, Top
<1> QED
  BY <1>1, <1>2, NewTop

LEMMA OneOrMore ==
  ASSUME NEW n \in Nat \ {0}
  PROVE  n = 1 \/ (n > 1 /\ n # 1)
  OBVIOUS

LEMMA BucketOf ==
  ASSUME NEW pc \in DOMAIN Program
  PROVE  Bucket(pc) \in 0 .. Buckets - 1
  BY ProgramAssumption DEF Bucket

LEMMA MissIsFrame ==
  ASSUME NEW pc \in DOMAIN Program,
         rom_branch_hash \in [0 .. Buckets - 1 -> Seq(Entry)]
  PROVE  Miss(pc) \in Frames
<1>1. rom_branch_hash[Bucket(pc)] \in Seq(Entry)
  BY BucketOf
<1>2. Len(rom_branch_hash[Bucket(pc)]) \in Nat
  BY <1>1, LenProperties
<1> QED
  BY <1>2 DEF Miss, Frames, Phases, None

-------------------------------------------------------------------------------
(* The blocks in the caches. *)

(* Patching an exit changes no block's PC. *)
LEMMA PatchedBlocks ==
  ASSUME BlocksOK, NEW p, NEW i, NEW at, code' = Patched(p, i, at)
  PROVE  /\ BlocksOK' /\ DOMAIN code' = DOMAIN code
         /\ \A q \in DOMAIN code : code'[q].pc = code[q].pc
<1>1. DOMAIN code' = DOMAIN code
  BY DEF Patched
<1>2. ASSUME NEW q \in DOMAIN code
      PROVE  /\ code'[q].pc = code[q].pc
             /\ code'[q] = [pc |-> code'[q].pc, links |-> code'[q].links]
  <2> DEFINE b == code[q]
             l == [b.links EXCEPT ![i] = at]
  <2>1. b = [pc |-> b.pc, links |-> b.links]
    BY DEF BlocksOK
  <2>2. CASE q = p
    <3>1. code'[q] = [b EXCEPT !.links = l]
      BY <2>2 DEF Patched
    <3>2. code'[q] = [pc |-> b.pc, links |-> l]
      <4> HIDE DEF b, l
      <4> QED
        BY <2>1, <3>1
    <3> QED
      BY <3>2
  <2>3. CASE q # p
    <3>1. code'[q] = b
      BY <2>3 DEF Patched
    <3> QED
      BY <2>1, <3>1
  <2> QED
    BY <2>2, <2>3
<1>3. code' = [q \in DOMAIN code' |-> code'[q]]
  BY <1>1 DEF Patched
<1> QED
  BY <1>1, <1>2, <1>3 DEF BlocksOK

(* A flush only takes blocks away. *)
LEMMA FlushedBlocks ==
  ASSUME BlocksOK, NEW caches, NEW tags, NEW min, Flush(caches, tags, min)
  PROVE  /\ BlocksOK'
         /\ \A p \in DOMAIN code' : /\ p \in DOMAIN code /\ p[1] \notin caches
                                    /\ code'[p] = code[p]
  BY DEF BlocksOK, Flush

LEMMA FlushedShape ==
  ASSUME Shape, NEW caches, NEW tags \in [Tagged -> Marks], NEW min,
         Flush(caches, tags, min)
  PROVE  /\ ptr' \in [Caches -> Nat]
         /\ tag' \in [Tagged -> Marks]
         /\ tag_top' \in [TaggedCaches -> Nat \ {0}]
         /\ rom_branch_hash' \in [0 .. Buckets - 1 -> Seq(Entry)]
         /\ BlocksOK'
<1>1. BlocksOK'
  BY FlushedBlocks DEF Shape
<1>2. rom_branch_hash' \in [0 .. Buckets - 1 -> Seq(Entry)]
  <2>1. <<>> \in Seq(Entry)
    BY EmptySeq
  <2> QED
    BY <2>1 DEF Shape, Flush
<1>3. ptr' \in [Caches -> Nat] /\ tag' \in [Tagged -> Marks]
  BY DEF Shape, Flush, CLEAR, Marks
<1>4. tag_top' \in [TaggedCaches -> Nat \ {0}]
  BY DEF Shape, Flush, TaggedCaches, FirstTag
<1> QED
  BY <1>1, <1>2, <1>3, <1>4

LEMMA GuardedTags ==
  ASSUME tag \in [Tagged -> Marks], NEW pc
  PROVE  /\ Guarded(pc) \in [Tagged -> Marks]
         /\ \A a \in Tagged : tag[a] # CLEAR => Guarded(pc)[a] # CLEAR
  BY DEF Guarded, GUARD, CLEAR, Marks

-------------------------------------------------------------------------------
(* Every action keeps the shape. *)

LEMMA LookupShape ==
  ASSUME Shape, NEW pc \in Entries, Lookup(pc)
  PROVE  Shape'
<1>1. Miss(pc) \in Frames
  BY MissIsFrame, ProgramAssumption DEF Shape
<1>2. stack' \in Seq(Frames)
  BY <1>1, EmptySeq DEF Lookup
<1> QED
  BY <1>2 DEF Lookup, Shape, BlocksOK

LEMMA GiveUpShape ==
  ASSUME Shape, GiveUp
  PROVE  Shape'
<1>1. stack \in Seq(Frames) /\ Len(stack) \in Nat \ {0}
  BY TopFrame DEF Shape, GiveUp
<1>2. stack' \in Seq(Frames)
  <2>1. CASE Len(stack) = 1
    <3>1. stack' = <<>>
      BY <2>1 DEF GiveUp
    <3> QED
      BY <3>1, EmptySeq
  <2>2. CASE Len(stack) > 1 /\ Len(stack) # 1
    <3>1. stack' = Fail
      BY <2>2 DEF GiveUp
    <3> QED
      BY <1>1, <2>2, <3>1, FailIsStack
  <2> QED
    BY <1>1, <2>1, <2>2, OneOrMore, Zenon
<1> QED
  BY <1>2 DEF GiveUp, Shape, BlocksOK

LEMMA EnterTaggedShape ==
  ASSUME Shape, EnterTagged
  PROVE  Shape'
<1> DEFINE cache == CacheOf(Top.pc)
           f == [Top EXCEPT !.phase = "emit", !.at = ptr[cache]]
<1>1. cache \in TaggedCaches /\ cache \in Caches
  BY DEF EnterTagged, CacheOf, TaggedCaches, Caches
<1>2. Top \in Frames
  BY TopFrame DEF Shape, EnterTagged
<1>3. f \in Frames
  BY <1>1, <1>2 DEF Frames, Phases, Shape
<1>4. stack' = [stack EXCEPT ![Len(stack)] = f]
  BY DEF EnterTagged, Top
<1>5. stack' \in Seq(Frames)
  BY <1>3, <1>4, NewTop DEF Shape, EnterTagged
<1>6. tag_top[cache] \in Nat \ {0} /\ tag_top[cache] + 1 \in Nat \ {0}
  BY <1>1 DEF Shape
<1>7. tag' \in [Tagged -> Marks]
  <2>1. tag' = [tag EXCEPT ![Top.pc] = tag_top[cache]]
    BY DEF EnterTagged
  <2> QED
    BY <2>1, <1>6 DEF Shape, Marks
<1>8. tag_top' \in [TaggedCaches -> Nat \ {0}]
  <2>1. tag_top' = [tag_top EXCEPT ![cache] = tag_top[cache] + 1]
    BY DEF EnterTagged
  <2> QED
    BY <2>1, <1>6 DEF Shape
<1>9. UNCHANGED <<ptr, rom_branch_hash, code>>
  BY DEF EnterTagged
<1> QED
  BY <1>5, <1>7, <1>8, <1>9 DEF Shape, BlocksOK

LEMMA LinkedChain ==
  ASSUME NEW chain \in Seq(Entry), NEW n \in Nat, NEW entry \in Entry
  PROVE  Linked(chain, n, entry) \in Seq(Entry)
<1>1. CASE n > Len(chain)
  BY <1>1 DEF Linked
<1>2. CASE ~ (n > Len(chain))
  <2>1. Len(chain) \in Nat
    BY LenProperties
  <2>2. \A i \in 1 .. n : chain[i] \in Entry
    BY <1>2, <2>1, ElementOfSeq
  <2>3. SubSeq(chain, 1, n) \in Seq(Entry)
    <3>1. 1 \in Int /\ n \in Int
      OBVIOUS
    <3> QED
      BY <2>2, <3>1, SubSeqProperties
  <2>4. Append(SubSeq(chain, 1, n), entry) \in Seq(Entry)
    BY <2>3, AppendProperties
  <2> QED
    BY <1>2, <2>4 DEF Linked
<1> QED
  BY <1>1, <1>2

LEMMA EnterRomShape ==
  ASSUME Shape, EnterRom
  PROVE  Shape'
<1> DEFINE b == Bucket(Top.pc)
           chain == rom_branch_hash[b]
           at == ptr["rom"] + Header
           cell == Cell(chain, Top.cell)
           f == [Top EXCEPT !.phase = "emit", !.at = at, !.cell = cell]
           entry == [pc |-> Top.pc, at |-> at]
<1>1. Top \in Frames /\ Top.pc \in DOMAIN Program
  BY TopFrame DEF Shape, EnterRom, Frames
<1>2. b \in 0 .. Buckets - 1 /\ chain \in Seq(Entry)
  BY <1>1, BucketOf DEF Shape
<1>3. at \in Nat
  BY ProgramAssumption DEF Shape, Caches
<1>4. cell \in Nat
  BY <1>1 DEF Frames, Cell
<1>5. f \in Frames /\ entry \in Entry
  BY <1>1, <1>3, <1>4 DEF Frames, Entry, Phases
<1>6. stack' = [stack EXCEPT ![Len(stack)] = f]
  BY DEF EnterRom, Top
<1>7. stack' \in Seq(Frames)
  BY <1>5, <1>6, NewTop DEF Shape, EnterRom
<1>8. ptr' \in [Caches -> Nat]
  <2>1. ptr' = [ptr EXCEPT !["rom"] = at]
    BY DEF EnterRom
  <2> QED
    BY <1>3, <2>1 DEF Shape
<1>9. rom_branch_hash' \in [0 .. Buckets - 1 -> Seq(Entry)]
  <2>1. rom_branch_hash' = [rom_branch_hash EXCEPT ![b] =
                              Linked(chain, cell, entry)]
    BY DEF EnterRom
  <2>2. Linked(chain, cell, entry) \in Seq(Entry)
    BY <1>2, <1>4, <1>5, LinkedChain
  <2> QED
    BY <2>1, <2>2 DEF Shape
<1>10. UNCHANGED <<tag, tag_top, code>>
  BY DEF EnterRom
<1> QED
  BY <1>7, <1>8, <1>9, <1>10 DEF Shape, BlocksOK

LEMMA OverflowShape ==
  ASSUME Shape, Overflow
  PROVE  Shape'
<1>1. stack' \in Seq(Frames)
  BY PhaseIsStack DEF Shape, Overflow, Phases
<1>2. Flush(Flushed(CacheOf(Top.pc)), Guarded(Top.pc), MinWith(Top.pc))
  BY DEF Overflow
<1>3. Guarded(Top.pc) \in [Tagged -> Marks]
  BY GuardedTags DEF Shape
<1> QED
  BY <1>1, <1>2, <1>3, FlushedShape DEF Shape

LEMMA GateOverflowShape ==
  ASSUME Shape, GateOverflow
  PROVE  Shape'
<1>1. stack' \in Seq(Frames)
  BY PhaseIsStack DEF Shape, GateOverflow, Phases
<1>2. tag' \in [Tagged -> Marks]
  BY GuardedTags DEF Shape, GateOverflow
<1> QED
  BY <1>1, <1>2 DEF Shape, GateOverflow, BlocksOK

LEMMA CommitShape ==
  ASSUME Shape, Commit
  PROVE  Shape'
<1> DEFINE cache == CacheOf(Top.pc)
           here == <<cache, Top.at>>
           block == [pc |-> Top.pc,
                     links |-> [i \in 1 .. Len(Program[Top.pc].exits) |-> None]]
<1>1. Top \in Frames /\ Top.pc \in DOMAIN Program /\ Top.at \in Nat
  BY TopFrame DEF Shape, Commit, Frames
<1>2. stack' \in Seq(Frames)
  BY PhaseIsStack DEF Shape, Commit, Phases
<1>3. tag' \in [Tagged -> Marks]
  BY GuardedTags DEF Shape, Commit
<1>4. BlockEnd \in Nat
  BY <1>1, ProgramAssumption, SMTT(30) DEF BlockEnd, BodyEnd
<1>5. ptr' \in [Caches -> Nat]
  <2>1. ptr' = [ptr EXCEPT ![cache] = BlockEnd]
    BY DEF Commit
  <2> QED
    BY <1>4, <2>1 DEF Shape
<1>6. BlocksOK'
  <2>1. code' = [p \in DOMAIN code \cup {here} |->
                   IF p = here THEN block ELSE code[p]]
    BY DEF Commit
  <2>2. block = [pc |-> block.pc, links |-> block.links] /\ block.pc = Top.pc
    OBVIOUS
  <2>3. here[1] = CacheOf(block.pc)
    BY <2>2
  <2> HIDE DEF block, here
  <2>4. ASSUME NEW p \in DOMAIN code'
        PROVE  /\ code'[p] = [pc |-> code'[p].pc, links |-> code'[p].links]
               /\ code'[p].pc \in DOMAIN Program
               /\ p[1] = CacheOf(code'[p].pc)
    <3>1. CASE p = here
      <4>1. code'[p] = block
        BY <2>1, <3>1
      <4> QED
        BY <1>1, <2>2, <2>3, <3>1, <4>1
    <3>2. CASE p # here
      <4>1. p \in DOMAIN code /\ code'[p] = code[p]
        BY <2>1, <3>2
      <4> QED
        BY <4>1 DEF Shape, BlocksOK
    <3> QED
      BY <3>1, <3>2
  <2>5. code' = [p \in DOMAIN code' |-> code'[p]]
    BY <2>1
  <2> QED
    BY <2>4, <2>5 DEF BlocksOK
<1> QED
  BY <1>2, <1>3, <1>5, <1>6 DEF Shape, Commit

LEMMA LinkShape ==
  ASSUME Shape, Link
  PROVE  Shape'
<1> DEFINE f == [Top EXCEPT !.next = Top.next + 1]
<1>1. f \in Frames
  <2>1. Top \in Frames
    BY TopFrame DEF Shape, Link
  <2>2. Top.next + 1 \in Nat \ {0}
    BY <2>1 DEF Frames
  <2> QED
    BY <2>1, <2>2 DEF Frames
<1>2. stack' = [stack EXCEPT ![Len(stack)] = f]
  BY DEF Link, Top
<1>3. stack' \in Seq(Frames)
  BY <1>1, <1>2, NewTop DEF Shape, Link
<1>4. BlocksOK'
  BY PatchedBlocks DEF Shape, Link
<1> QED
  BY <1>3, <1>4 DEF Shape, Link

LEMMA RecurseShape ==
  ASSUME Shape, Recurse
  PROVE  Shape'
<1>1. Top.pc \in DOMAIN Program /\ Top.next \in Nat \ {0}
  BY TopFrame DEF Shape, Recurse, Frames
<1>2. Target \in DOMAIN Program
  <2>1. Exits \in Seq(DOMAIN Program)
    BY <1>1, ProgramAssumption DEF Exits
  <2>2. Len(Exits) \in Nat /\ Top.next <= Len(Exits)
    BY <2>1, LenProperties DEF Recurse
  <2>3. Top.next \in 1 .. Len(Exits)
    BY <1>1, <2>2
  <2> QED
    BY <2>1, <2>3, ElementOfSeq DEF Target
<1>3. stack' \in Seq(Frames)
  BY <1>2, MissIsFrame, AppendProperties DEF Shape, Recurse
<1> QED
  BY <1>3 DEF Shape, Recurse, BlocksOK

LEMMA ReturnShape ==
  ASSUME Shape, Return
  PROVE  Shape'
<1> DEFINE b == Below[Len(Below)]
           f == [b EXCEPT !.next = b.next + 1]
<1>1. stack # <<>> /\ Top \in Frames
  BY TopFrame, EmptySeq DEF Shape, Return
<1>2. b \in Frames
  BY <1>1, NewBelow DEF Shape, Return
<1>3. f \in Frames
  BY <1>2 DEF Frames
<1>4. stack' = [Below EXCEPT ![Len(Below)] = f]
  BY DEF Return
<1>5. stack' \in Seq(Frames)
  BY <1>3, <1>4, NewBelow DEF Shape, Return
<1>6. BlocksOK'
  BY PatchedBlocks DEF Shape, Return
<1> QED
  BY <1>5, <1>6 DEF Shape, Return

LEMMA UnwindShape ==
  ASSUME Shape, Unwind
  PROVE  Shape'
<1>1. stack \in Seq(Frames) /\ Len(stack) \in Nat \ {0} /\ Top \in Frames
  BY TopFrame DEF Shape, Unwind
<1>2. CASE Len(stack) = 1
  <2> DEFINE f == [Top EXCEPT !.phase = "enter", !.next = 1]
  <2>1. f \in Frames
    BY <1>1, 1 \in Nat \ {0} DEF Frames, Phases
  <2>2. stack' = [stack EXCEPT ![Len(stack)] = f]
    <3>1. stack' = [stack EXCEPT ![1].phase = "enter", ![1].next = 1]
      BY <1>2 DEF Unwind, Redo
    <3>2. stack' = [stack EXCEPT ![1] = [stack[1] EXCEPT !.phase = "enter",
                                                         !.next = 1]]
      BY <3>1
    <3> QED
      BY <1>2, <3>2 DEF Top
  <2>3. stack' \in Seq(Frames)
    BY <2>1, <2>2, NewTop DEF Shape, Unwind
  <2> QED
    BY <2>3 DEF Shape, Unwind, BlocksOK
<1>3. CASE Len(stack) > 1 /\ Len(stack) # 1
  <2>1. stack' = Fail
    BY <1>3 DEF Unwind
  <2>2. stack' \in Seq(Frames)
    BY <1>1, <1>3, <2>1, FailIsStack
  <2> QED
    BY <2>2 DEF Shape, Unwind, BlocksOK
<1> QED
  BY <1>1, <1>2, <1>3, OneOrMore, Zenon

LEMMA ShapeKept ==
  ASSUME Shape, [Next]_vars
  PROVE  Shape'
<1>1. CASE \E pc \in Entries : Lookup(pc)
  BY <1>1, LookupShape
<1>2. CASE GiveUp \/ EnterTagged \/ EnterRom
  BY <1>2, GiveUpShape, EnterTaggedShape, EnterRomShape
<1>3. CASE Overflow \/ GateOverflow \/ Commit
  BY <1>3, OverflowShape, GateOverflowShape, CommitShape
<1>4. CASE Link \/ Recurse \/ Return \/ Unwind
  BY <1>4, LinkShape, RecurseShape, ReturnShape, UnwindShape
<1>5. CASE Done
  <2>1. stack' \in Seq(Frames)
    BY <1>5, EmptySeq DEF Done
  <2> QED
    BY <1>5, <2>1 DEF Shape, Done, BlocksOK
<1>6. CASE \E address \in Ewram \cup Iwram : StoreToCode(address)
  BY <1>6, FlushedShape DEF Shape, StoreToCode
<1>7. CASE FlushAll
  BY <1>7, FlushedShape DEF Shape, FlushAll
<1>8. CASE UNCHANGED vars
  BY <1>8 DEF Shape, vars, BlocksOK
<1> QED
  BY <1>1, <1>2, <1>3, <1>4, <1>5, <1>6, <1>7, <1>8 DEF Next, Translate

LEMMA ShapeInit == Init => Shape
<1> SUFFICES ASSUME Init PROVE Shape
  OBVIOUS
<1>1. stack \in Seq(Frames)
  BY EmptySeq DEF Init
<1>2. rom_branch_hash \in [0 .. Buckets - 1 -> Seq(Entry)]
  <2>1. <<>> \in Seq(Entry)
    BY EmptySeq
  <2> QED
    BY <2>1 DEF Init
<1>3. BlocksOK
  <2>1. code = <<>> /\ DOMAIN code = {}
    BY DEF Init
  <2> QED
    BY <2>1 DEF BlocksOK
<1> QED
  BY <1>1, <1>2, <1>3 DEF Init, Shape, CLEAR, FirstTag, TaggedCaches, Marks

-------------------------------------------------------------------------------
(* Self-modifying code is noticed. *)

GuardInv == Shape /\ CodeIsGuarded

(* A block of RAM covers RAM. *)
LEMMA RamSpan ==
  ASSUME NEW pc \in DOMAIN Program, CacheOf(pc) = "ram"
  PROVE  Span(pc) \subseteq Ewram \cup Iwram
<1>1. PICK m \in Rams : pc \in Memory(m)
  BY DEF CacheOf, Rams, Memory
<1>2. pc .. Program[pc].end \subseteq Memory(m)
  BY <1>1, BlockAssumption
<1>3. pc \in Nat /\ Program[pc].end \in Nat
  BY ProgramAssumption
<1>4. Span(pc) \subseteq pc .. Program[pc].end
  BY <1>3 DEF Span
<1> QED
  BY <1>2, <1>4 DEF Memory

LEMMA RamBlock ==
  ASSUME Shape, NEW p \in DOMAIN code, p[1] = "ram"
  PROVE  Span(code[p].pc) \subseteq Ewram \cup Iwram
<1>1. code[p].pc \in DOMAIN Program /\ CacheOf(code[p].pc) = "ram"
  BY DEF Shape, BlocksOK
<1> QED
  BY <1>1, RamSpan

(* A flush that spares the RAM cache clears marks of the BIOS only.         *)
LEMMA FlushGuards ==
  ASSUME Shape, NEW caches, NEW tags \in [Tagged -> Marks], NEW min,
         Flush(caches, tags, min),
         \A a \in Tagged : tag[a] # CLEAR => tags[a] # CLEAR,
         CodeIsGuarded
  PROVE  CodeIsGuarded'
<1> SUFFICES ASSUME NEW p \in DOMAIN code', p[1] = "ram",
                    NEW a \in Span(code'[p].pc)
             PROVE  tag'[a] # CLEAR
  BY DEF CodeIsGuarded
<1>1. p \in DOMAIN code /\ "ram" \notin caches /\ code'[p] = code[p]
  BY FlushedBlocks DEF Shape
<1>2. a \in Ewram \cup Iwram /\ a \in Tagged /\ a \notin Bios
  BY <1>1, RamBlock, ProgramAssumption DEF Tagged
<1>3. tag[a] # CLEAR
  BY <1>1 DEF CodeIsGuarded
<1>4. tag'[a] = tags[a]
  BY <1>1, <1>2 DEF Flush
<1> QED
  BY <1>2, <1>3, <1>4

(* Changing no mark and no block.                                           *)
LEMMA SameGuards ==
  ASSUME CodeIsGuarded, UNCHANGED <<tag, code>>
  PROVE  CodeIsGuarded'
  BY DEF CodeIsGuarded

LEMMA PatchGuards ==
  ASSUME Shape, CodeIsGuarded, NEW p, NEW i, NEW at,
         code' = Patched(p, i, at), UNCHANGED tag
  PROVE  CodeIsGuarded'
<1>1. /\ DOMAIN code' = DOMAIN code
      /\ \A q \in DOMAIN code : code'[q].pc = code[q].pc
  BY PatchedBlocks DEF Shape
<1> QED
  BY <1>1 DEF CodeIsGuarded

LEMMA CommitGuards ==
  ASSUME Shape, CodeIsGuarded, Commit
  PROVE  CodeIsGuarded'
<1> DEFINE here == <<CacheOf(Top.pc), Top.at>>
<1> SUFFICES ASSUME NEW p \in DOMAIN code', p[1] = "ram",
                    NEW a \in Span(code'[p].pc)
             PROVE  tag'[a] # CLEAR
  BY DEF CodeIsGuarded
<1>1. tag' = Guarded(Top.pc)
  BY DEF Commit
<1>2. CASE p = here
  <2>1. code'[p].pc = Top.pc
    BY <1>2 DEF Commit
  <2>2. Top.pc \in DOMAIN Program /\ CacheOf(Top.pc) = "ram"
    <3>1. Top.pc \in DOMAIN Program
      BY TopFrame DEF Shape, Commit, Frames
    <3> QED
      BY <1>2, <3>1
  <2>3. a \in Tagged
    BY <2>1, <2>2, RamSpan DEF Tagged
  <2> QED
    BY <1>1, <2>1, <2>2, <2>3 DEF Guarded, GUARD, CLEAR
<1>3. CASE p # here
  <2>1. p \in DOMAIN code /\ code'[p] = code[p]
    BY <1>3 DEF Commit
  <2>2. a \in Tagged /\ tag[a] # CLEAR
    BY <2>1, RamBlock DEF CodeIsGuarded, Tagged
  <2> QED
    BY <1>1, <2>2, GuardedTags DEF Shape
<1> QED
  BY <1>2, <1>3

LEMMA EnterTaggedGuards ==
  ASSUME Shape, CodeIsGuarded, EnterTagged
  PROVE  CodeIsGuarded'
<1> SUFFICES ASSUME NEW p \in DOMAIN code, p[1] = "ram",
                    NEW a \in Span(code[p].pc)
             PROVE  tag'[a] # CLEAR
  BY DEF CodeIsGuarded, EnterTagged
<1>1. a \in Tagged /\ tag[a] # CLEAR
  BY RamBlock DEF CodeIsGuarded, Tagged
<1>2. tag_top[CacheOf(Top.pc)] \in Nat \ {0}
  BY DEF EnterTagged, CacheOf, TaggedCaches, Shape
<1>3. tag' = [tag EXCEPT ![Top.pc] = tag_top[CacheOf(Top.pc)]]
  BY DEF EnterTagged
<1> QED
  BY <1>1, <1>2, <1>3 DEF Shape, CLEAR

LEMMA GateOverflowGuards ==
  ASSUME Shape, CodeIsGuarded, GateOverflow
  PROVE  CodeIsGuarded'
<1> SUFFICES ASSUME NEW p \in DOMAIN code, p[1] = "ram",
                    NEW a \in Span(code[p].pc)
             PROVE  tag'[a] # CLEAR
  BY DEF CodeIsGuarded, GateOverflow
<1>1. a \in Tagged /\ tag[a] # CLEAR
  BY RamBlock DEF CodeIsGuarded, Tagged
<1> QED
  BY <1>1, GuardedTags DEF Shape, GateOverflow

(* There is a mark beside every byte of RAM that translated code was made   *)
(* from, whatever the guest program, through partial flushes, translations  *)
(* that fail at any depth and blocks that overlap: a store to the code is   *)
(* always seen by the store handlers.                                       *)
THEOREM CodeStaysGuarded == Spec => []CodeIsGuarded
<1>1. Init => GuardInv
  BY ShapeInit DEF GuardInv, Init, CodeIsGuarded
<1>2. GuardInv /\ [Next]_vars => GuardInv'
  <2> SUFFICES ASSUME Shape, CodeIsGuarded, [Next]_vars
               PROVE  CodeIsGuarded'
    BY ShapeKept DEF GuardInv
  <2>1. CASE \E pc \in Entries : Lookup(pc)
    BY <2>1, SameGuards DEF Lookup
  <2>2. CASE GiveUp \/ EnterRom \/ Recurse \/ Done \/ Unwind
    BY <2>2, SameGuards DEF GiveUp, EnterRom, Recurse, Done, Unwind
  <2>3. CASE EnterTagged
    BY <2>3, EnterTaggedGuards
  <2>4. CASE Overflow
    <3>1. Guarded(Top.pc) \in [Tagged -> Marks]
      BY GuardedTags DEF Shape
    <3> QED
      BY <2>4, <3>1, FlushGuards, GuardedTags DEF Overflow, Shape
  <2>5. CASE GateOverflow \/ Commit
    BY <2>5, GateOverflowGuards, CommitGuards
  <2>6. CASE Link \/ Return
    BY <2>6, PatchGuards DEF Link, Return
  <2>7. CASE (\E address \in Ewram \cup Iwram : StoreToCode(address)) \/ FlushAll
    BY <2>7, FlushGuards DEF StoreToCode, FlushAll, Shape
  <2>8. CASE UNCHANGED vars
    BY <2>8, SameGuards DEF vars
  <2> QED
    BY <2>1, <2>2, <2>3, <2>4, <2>5, <2>6, <2>7, <2>8 DEF Next, Translate
<1>3. GuardInv => CodeIsGuarded
  BY DEF GuardInv
<1> QED
  BY <1>1, <1>2, <1>3, PTL DEF Spec

-------------------------------------------------------------------------------
(* How the actions move the stack. *)

TopBecomes(f) ==
  /\ Len(stack) \in Nat \ {0} /\ Len(stack') = Len(stack)
  /\ stack'[Len(stack)] = f
  /\ \A i \in 1 .. Len(stack) - 1 : stack'[i] = stack[i]

Pops(f) ==
  /\ Len(stack) \in Nat \ {0, 1} /\ Len(stack') = Len(stack) - 1
  /\ stack'[Len(stack) - 1] = f
  /\ \A i \in 1 .. Len(stack) - 2 : stack'[i] = stack[i]

Pushes(f) ==
  /\ Len(stack) \in Nat /\ Len(stack') = Len(stack) + 1
  /\ stack'[Len(stack) + 1] = f
  /\ \A i \in 1 .. Len(stack) : stack'[i] = stack[i]

LEMMA ReplacesTop ==
  ASSUME stack \in Seq(Frames), stack # <<>>, NEW f,
         stack' = [stack EXCEPT ![Len(stack)] = f]
  PROVE  TopBecomes(f)
<1>1. Len(stack) \in Nat \ {0} /\ stack = [i \in 1 .. Len(stack) |-> stack[i]]
  BY TopFrame, LenProperties
<1>2. Len(stack') = Len(stack)
  <2>1. DOMAIN stack' = 1 .. Len(stack)
    BY <1>1
  <2>2. f \in Frames \cup {f}
    OBVIOUS
  <2>3. stack \in Seq(Frames \cup {f})
    BY <1>1, ElementOfSeq, IsASeq
  <2>4. Len(stack) \in 1 .. Len(stack)
    BY <1>1
  <2> QED
    BY <2>2, <2>3, <2>4, ExceptSeq
<1> QED
  BY <1>1, <1>2 DEF TopBecomes

LEMMA ReplacesBelow ==
  ASSUME stack \in Seq(Frames), Len(stack) > 1, NEW f \in Frames,
         stack' = [Below EXCEPT ![Len(Below)] = f]
  PROVE  Pops(f)
<1>1. stack # <<>>
  BY EmptySeq
<1>2. Len(stack) \in Nat \ {0, 1}
  BY <1>1, TopFrame, SMTT(30)
<1>3. /\ Below \in Seq(Frames) /\ Len(Below) = Len(stack) - 1
      /\ Len(stack) - 1 \in 1 .. Len(stack) - 1
  BY <1>1, <1>2, BelowIsStack
<1>4. \A i \in 1 .. Len(stack) - 1 : Below[i] = stack[i]
  <2>1. \A i \in 1 .. Len(stack) - 1 : stack[i] \in Frames
    BY <1>2, ElementOfSeq
  <2>2. Len(stack) - 1 \in Int /\ 1 \in Int
    BY <1>2
  <2>3. \A i \in 1 .. Len(stack) - 1 - 1 + 1 :
          SubSeq(stack, 1, Len(stack) - 1)[i] = stack[1 + i - 1]
    BY <2>1, <2>2, SubSeqProperties
  <2> QED
    BY <1>2, <2>3 DEF Below
<1>5. Len(stack') = Len(Below) /\ stack'[Len(Below)] = f
  BY <1>3, ExceptSeq
<1>6. \A i \in 1 .. Len(stack) - 2 : stack'[i] = Below[i]
  BY <1>2, <1>3, ExceptSeq
<1> QED
  BY <1>2, <1>3, <1>4, <1>5, <1>6 DEF Pops
LEMMA BelowLast ==
  ASSUME stack \in Seq(Frames), Len(stack) > 1
  PROVE  Below[Len(Below)] = stack[Len(stack) - 1]
<1>1. stack # <<>>
  BY EmptySeq
<1>2. Len(stack) \in Nat \ {0, 1} /\ Len(Below) = Len(stack) - 1
  BY <1>1, TopFrame, BelowIsStack
<1>3. \A i \in 1 .. Len(stack) - 1 : stack[i] \in Frames
  BY <1>2, ElementOfSeq
<1>4. Len(stack) - 1 \in Int /\ 1 \in Int
  BY <1>2
<1>5. \A i \in 1 .. Len(stack) - 1 - 1 + 1 :
        SubSeq(stack, 1, Len(stack) - 1)[i] = stack[1 + i - 1]
  BY <1>3, <1>4, SubSeqProperties
<1> QED
  BY <1>2, <1>5 DEF Below

LEMMA StackMoves ==
  ASSUME Shape
  PROVE  /\ EnterTagged => \E f \in Frames : /\ TopBecomes(f) /\ f.phase = "emit"
              /\ f.pc = Top.pc /\ f.at = ptr[CacheOf(Top.pc)] /\ f.next = Top.next
         /\ Overflow \/ GateOverflow =>
              \E f \in Frames : TopBecomes(f) /\ f.phase = "failed" /\ f.pc = Top.pc
                                /\ f.cell = Top.cell /\ f.at = Top.at
         /\ Commit =>
              \E f \in Frames : TopBecomes(f) /\ f = [Top EXCEPT !.phase = "link"]
         /\ Link =>
              \E f \in Frames : TopBecomes(f) /\ f = [Top EXCEPT !.next = Top.next + 1]
<1>1. ASSUME stack # <<>>
      PROVE  /\ stack \in Seq(Frames) /\ Top \in Frames /\ Top = stack[Len(stack)]
             /\ Top = [pc |-> Top.pc, phase |-> Top.phase, at |-> Top.at,
                       next |-> Top.next, cell |-> Top.cell]
  BY <1>1, TopFrame DEF Shape, Frames, Top
<1>2. ASSUME EnterTagged
      PROVE  \E f \in Frames : /\ TopBecomes(f) /\ f.phase = "emit"
               /\ f.pc = Top.pc /\ f.at = ptr[CacheOf(Top.pc)] /\ f.next = Top.next
  <2> DEFINE f == [Top EXCEPT !.phase = "emit", !.at = ptr[CacheOf(Top.pc)]]
  <2>1. Top \in Frames /\ stack # <<>> /\ stack \in Seq(Frames)
    BY <1>1, <1>2 DEF EnterTagged
  <2>2. CacheOf(Top.pc) \in Caches
    BY DEF CacheOf, Caches
  <2>3. f \in Frames
    BY <2>1, <2>2 DEF Frames, Phases, Shape
  <2>4. stack' = [stack EXCEPT ![Len(stack)] = f]
    BY <1>2 DEF EnterTagged, Top
  <2>5. f.phase = "emit" /\ f.pc = Top.pc /\ f.at = ptr[CacheOf(Top.pc)] /\ f.next = Top.next
    BY <2>1 DEF Frames
  <2> HIDE DEF f
  <2>6. TopBecomes(f)
    BY <2>1, <2>4, ReplacesTop
  <2> QED
    BY <2>3, <2>5, <2>6
<1>3. ASSUME stack # <<>>, NEW phase \in Phases, stack' = Phase(phase)
      PROVE  \E f \in Frames : TopBecomes(f) /\ f = [Top EXCEPT !.phase = phase]
  <2> DEFINE f == [Top EXCEPT !.phase = phase]
  <2>1. f \in Frames
    BY <1>1, <1>3 DEF Frames
  <2>2. stack' = [stack EXCEPT ![Len(stack)] = f]
    BY <1>3 DEF Phase, Top
  <2> HIDE DEF f
  <2>3. TopBecomes(f)
    BY <1>1, <1>3, <2>2, ReplacesTop
  <2> QED
    BY <2>1, <2>3 DEF f
<1>4. ASSUME Overflow \/ GateOverflow
      PROVE  \E f \in Frames : TopBecomes(f) /\ f.phase = "failed" /\ f.pc = Top.pc
                               /\ f.cell = Top.cell /\ f.at = Top.at
  <2>1. stack # <<>> /\ stack' = Phase("failed") /\ "failed" \in Phases
    BY <1>4 DEF Overflow, GateOverflow, Phases
  <2>2. PICK f \in Frames : TopBecomes(f) /\ f = [Top EXCEPT !.phase = "failed"]
    BY <1>3, <2>1
  <2>3. Top \in Frames
    BY <1>1, <2>1
  <2>4. f.phase = "failed" /\ f.pc = Top.pc /\ f.cell = Top.cell /\ f.at = Top.at
    BY <2>2, <2>3 DEF Frames
  <2> QED
    BY <2>2, <2>4
<1>5. ASSUME Commit
      PROVE  \E f \in Frames : TopBecomes(f) /\ f = [Top EXCEPT !.phase = "link"]
  <2>1. stack # <<>> /\ stack' = Phase("link") /\ "link" \in Phases
    BY <1>5 DEF Commit, Phases
  <2> QED
    BY <1>3, <2>1
<1>6. ASSUME Link
      PROVE  \E f \in Frames : TopBecomes(f) /\ f = [Top EXCEPT !.next = Top.next + 1]
  <2> DEFINE f == [Top EXCEPT !.next = Top.next + 1]
  <2>1. Top \in Frames /\ stack # <<>>
    BY <1>1, <1>6 DEF Link
  <2>2. Top.next + 1 \in Nat \ {0}
    BY <2>1 DEF Frames
  <2>3. f \in Frames
    BY <2>1, <2>2 DEF Frames
  <2>4. stack' = [stack EXCEPT ![Len(stack)] = f]
    BY <1>6 DEF Link, Top
  <2> HIDE DEF f
  <2>5. TopBecomes(f)
    BY <1>1, <2>1, <2>4, ReplacesTop
  <2> QED
    BY <2>3, <2>5 DEF f
<1> QED
  BY <1>2, <1>4, <1>5, <1>6

LEMMA RomMoves ==
  ASSUME Shape, EnterRom
  PROVE  \E f \in Frames :
           /\ TopBecomes(f) /\ f.phase = "emit" /\ f.pc = Top.pc
           /\ f.at = ptr["rom"] + Header /\ f.next = Top.next
           /\ f.cell = Cell(rom_branch_hash[Bucket(Top.pc)], Top.cell)
<1> DEFINE at == ptr["rom"] + Header
           cell == Cell(rom_branch_hash[Bucket(Top.pc)], Top.cell)
           f == [Top EXCEPT !.phase = "emit", !.at = at, !.cell = cell]
<1>1. stack # <<>> /\ stack \in Seq(Frames) /\ Top \in Frames
  BY TopFrame DEF Shape, EnterRom
<1>2. at \in Nat
  BY ProgramAssumption DEF Shape, Caches
<1>3. cell \in Nat
  BY <1>1 DEF Frames, Cell
<1>4. stack' = [stack EXCEPT ![Len(stack)] = f]
  BY DEF EnterRom, Top
<1> HIDE DEF at, cell
<1>5. f \in Frames
  BY <1>1, <1>2, <1>3 DEF Frames, Phases
<1>6. f.phase = "emit" /\ f.pc = Top.pc /\ f.at = at /\ f.next = Top.next /\ f.cell = cell
  BY <1>1 DEF Frames
<1> HIDE DEF f
<1>7. TopBecomes(f)
  BY <1>1, <1>4, ReplacesTop
<1> QED
  BY <1>5, <1>6, <1>7 DEF at, cell

LEMMA FailMoves ==
  ASSUME Shape, Len(stack) > 1, stack' = Fail
  PROVE  \E f \in Frames : Pops(f) /\ f = [stack[Len(stack) - 1] EXCEPT !.phase = "failed"]
<1> DEFINE b == Below[Len(Below)]
           f == [b EXCEPT !.phase = "failed"]
<1>1. stack \in Seq(Frames) /\ stack # <<>>
  BY EmptySeq DEF Shape
<1>2. Top \in Frames
  BY <1>1, TopFrame
<1>3. b \in Frames
  BY <1>1, <1>2, NewBelow
<1>4. f \in Frames
  BY <1>3 DEF Frames, Phases
<1>5. stack' = [Below EXCEPT ![Len(Below)] = f]
  BY DEF Fail
<1>6. b = stack[Len(stack) - 1]
  BY <1>1, BelowLast DEF Shape
<1> HIDE DEF f, b
<1>7. Pops(f)
  BY <1>1, <1>4, <1>5, ReplacesBelow
<1> QED
  BY <1>4, <1>6, <1>7 DEF f

LEMMA ReturnMoves ==
  ASSUME Shape, Return
  PROVE  \E f \in Frames :
           Pops(f) /\ f = [stack[Len(stack) - 1] EXCEPT
                             !.next = stack[Len(stack) - 1].next + 1]
<1> DEFINE b == Below[Len(Below)]
           f == [b EXCEPT !.next = b.next + 1]
<1>1. stack \in Seq(Frames) /\ stack # <<>> /\ Len(stack) > 1
  BY EmptySeq DEF Shape, Return
<1>2. Top \in Frames
  BY <1>1, TopFrame
<1>3. b \in Frames
  BY <1>1, <1>2, NewBelow
<1>4. f \in Frames
  BY <1>3 DEF Frames
<1>5. stack' = [Below EXCEPT ![Len(Below)] = f]
  BY DEF Return
<1>6. b = stack[Len(stack) - 1]
  BY <1>1, BelowLast
<1> HIDE DEF f, b
<1>7. Pops(f)
  BY <1>1, <1>4, <1>5, ReplacesBelow
<1> QED
  BY <1>4, <1>6, <1>7 DEF f

LEMMA RecurseMoves ==
  ASSUME Shape, Recurse
  PROVE  Target \in DOMAIN Program /\ Miss(Target) \in Frames /\ Pushes(Miss(Target))
<1>1. Top.pc \in DOMAIN Program /\ Top.next \in Nat \ {0}
  BY TopFrame DEF Shape, Recurse, Frames
<1>2. Exits \in Seq(DOMAIN Program)
  BY <1>1, ProgramAssumption DEF Exits
<1>3. Len(Exits) \in Nat /\ Top.next <= Len(Exits)
  BY <1>2, LenProperties DEF Recurse
<1>4. Top.next \in 1 .. Len(Exits)
  BY <1>1, <1>3
<1>5. Target \in DOMAIN Program
  BY <1>2, <1>4, ElementOfSeq DEF Target
<1>6. Miss(Target) \in Frames
  BY <1>5, MissIsFrame DEF Shape
<1>7. Len(stack) \in Nat
  BY LenProperties DEF Shape
<1>8. stack' = Append(stack, Miss(Target))
  BY DEF Recurse
<1> QED
  BY <1>5, <1>6, <1>7, <1>8, AppendProperties DEF Shape, Pushes
-------------------------------------------------------------------------------
(* What a lookup finds. *)

(* What lookups read. *)
Tables == [hash |-> rom_branch_hash, tag |-> tag, top |-> tag_top,
           ptrs |-> block_ptrs]

Chain(t, pc) == t.hash[Bucket(pc)]

(* Where a ROM lookup will link is inside the chain and after no entry of   *)
(* its own PC, unless a flush has emptied the chain.                        *)
CellFits(t, f) ==
  CacheOf(f.pc) = "rom" =>
    \/ Chain(t, f.pc) = <<>>
    \/ /\ f.cell <= Len(Chain(t, f.pc))
       /\ \A j \in 1 .. f.cell : Chain(t, f.pc)[j].pc # f.pc

(* The tag or the hash entry of a translation in progress is in place.      *)
Entered(t, f) ==
  IF CacheOf(f.pc) = "rom"
  THEN /\ f.cell < Len(Chain(t, f.pc))
       /\ Chain(t, f.pc)[f.cell + 1] = [pc |-> f.pc, at |-> f.at]
  ELSE /\ t.tag[f.pc] \in FirstTag .. t.top[CacheOf(f.pc)] - 1
       /\ t.ptrs[CacheOf(f.pc)][t.tag[f.pc]] = f.at

LEMMA TablesAre ==
  /\ Tables.hash = rom_branch_hash /\ Tables.tag = tag
  /\ Tables.top = tag_top /\ Tables.ptrs = block_ptrs
  BY DEF Tables

(* A non-empty set of naturals has a least element. *)
LEMMA LeastNat ==
  ASSUME NEW T \in SUBSET Nat, T # {}
  PROVE  \E x \in T : \A y \in T : x <= y
<1> DEFINE R == {ss \in Nat \X Nat : ss[1] < ss[2]}
<1>1. IsWellFoundedOn(R, Nat)
  BY NatLessThanWellFounded DEF OpToRel
<1>2. PICK x \in T : \A y \in T : ~ (<<y, x>> \in R)
  <2> HIDE DEF R
  <2> QED
    BY <1>1, WFMin
<1>3. ASSUME NEW y \in T PROVE x <= y
  <2>1. x \in Nat /\ y \in Nat
    OBVIOUS
  <2>2. ~ (<<y, x>> \in R)
    BY <1>2
  <2>3. <<y, x>> \in Nat \X Nat /\ <<y, x>>[1] = y /\ <<y, x>>[2] = x
    BY <2>1
  <2>4. ~ (y < x)
    <3> SUFFICES ASSUME y < x PROVE FALSE
      OBVIOUS
    <3>1. <<y, x>>[1] < <<y, x>>[2]
      BY <2>3
    <3> QED
      BY <2>2, <2>3, <3>1, Zenon
  <2> QED
    BY <2>1, <2>4
<1> QED
  BY <1>3

LEMMA PositionAt ==
  ASSUME NEW chain \in Seq(Entry), NEW pc, NEW n \in Nat, n < Len(chain),
         chain[n + 1].pc = pc, \A j \in 1 .. n : chain[j].pc # pc
  PROVE  Position(chain, pc) = n
<1> DEFINE First(i) == chain[i].pc = pc /\ \A j \in 1 .. i - 1 : chain[j].pc # pc
<1>1. Len(chain) \in Nat /\ n + 1 \in 1 .. Len(chain)
  BY LenProperties
<1>2. First(n + 1)
  OBVIOUS
<1>3. \A i \in 1 .. Len(chain) : First(i) => i = n + 1
  <2> SUFFICES ASSUME NEW i \in 1 .. Len(chain), First(i) PROVE i = n + 1
    OBVIOUS
  <2>1. ~ (i < n + 1)
    <3>1. i < n + 1 => i \in 1 .. n
      BY <1>1
    <3> QED
      BY <3>1
  <2>2. ~ (n + 1 < i)
    <3>1. n + 1 < i => n + 1 \in 1 .. i - 1
      BY <1>1
    <3> QED
      BY <3>1
  <2> QED
    BY <1>1, <2>1, <2>2
<1> DEFINE c == CHOOSE i \in 1 .. Len(chain) : First(i)
<1>4. c = n + 1
  <2>1. \E i \in 1 .. Len(chain) : First(i)
    BY <1>1, <1>2
  <2>2. c \in 1 .. Len(chain) /\ First(c)
    BY <2>1
  <2> HIDE DEF c, First
  <2> QED
    BY <1>3, <2>2
<1>5. \E i \in 1 .. Len(chain) : chain[i].pc = pc
  BY <1>1
<1>6. Position(chain, pc) = c - 1
  BY <1>5 DEF Position
<1> QED
  BY <1>4, <1>6

LEMMA FindsEntered ==
  ASSUME Shape, NEW f \in Frames, CellFits(Tables, f), Entered(Tables, f)
  PROVE  Found(f.pc) = f.at
<1>1. f.pc \in DOMAIN Program /\ f.cell \in Nat
  BY DEF Frames
<1>2. CASE CacheOf(f.pc) = "rom"
  <2> DEFINE chain == Chain(Tables, f.pc)
  <2>1. chain \in Seq(Entry)
    BY <1>1, BucketOf, TablesAre DEF Shape, Chain
  <2>2. f.cell < Len(chain) /\ chain[f.cell + 1] = [pc |-> f.pc, at |-> f.at]
    BY <1>2 DEF Entered
  <2>3. chain # <<>>
    BY <1>1, <2>1, <2>2, EmptySeq
  <2>4. \A j \in 1 .. f.cell : chain[j].pc # f.pc
    BY <1>2, <2>3 DEF CellFits
  <2>5. chain[f.cell + 1].pc = f.pc /\ chain[f.cell + 1].at = f.at
    BY <2>2
  <2> HIDE DEF chain
  <2>6. Position(chain, f.pc) = f.cell
    BY <1>1, <2>1, <2>2, <2>4, <2>5, PositionAt
  <2> QED
    BY <1>2, <2>2, <2>5, <2>6, TablesAre DEF Found, chain, Chain
<1>3. CASE CacheOf(f.pc) # "rom"
  <2>1. tag[f.pc] \in FirstTag .. tag_top[CacheOf(f.pc)] - 1
        /\ block_ptrs[CacheOf(f.pc)][tag[f.pc]] = f.at
    BY <1>3, TablesAre DEF Entered
  <2>2. tag[f.pc] \notin {CLEAR, GUARD}
    BY <2>1 DEF FirstTag, CLEAR, GUARD
  <2> QED
    BY <1>3, <2>1, <2>2 DEF Found
<1> QED
  BY <1>2, <1>3

(* An entry for a PC is found, or one before it.                            *)
LEMMA PositionIn ==
  ASSUME NEW chain \in Seq(Entry), NEW pc, NEW i \in 1 .. Len(chain),
         chain[i].pc = pc
  PROVE  /\ Position(chain, pc) \in 0 .. Len(chain) - 1
         /\ chain[Position(chain, pc) + 1].pc = pc
<1> DEFINE C(k) == chain[k].pc = pc /\ \A j \in 1 .. k - 1 : chain[j].pc # pc
           n == Position(chain, pc)
           S == {k \in 1 .. Len(chain) : chain[k].pc = pc}
<1>1. Len(chain) \in Nat
  BY LenProperties
<1>2. PICK k \in S : \A j \in S : k <= j
  <2>1. S \subseteq Nat /\ S # {}
    BY <1>1
  <2> QED
    BY <2>1, LeastNat
<1>3. C(k)
  <2> SUFFICES ASSUME NEW j \in 1 .. k - 1, chain[j].pc = pc PROVE FALSE
    BY <1>2
  <2>1. j \in S
    BY <1>1, <1>2
  <2> QED
    BY <1>2, <2>1
<1> DEFINE c == CHOOSE l \in 1 .. Len(chain) : C(l)
<1>4. c \in 1 .. Len(chain) /\ C(c)
  <2>1. \E l \in 1 .. Len(chain) : C(l)
    BY <1>2, <1>3
  <2> QED
    BY <2>1
<1>5. n = c - 1
  BY DEF Position
<1> HIDE DEF c, n
<1>6. n + 1 = c /\ n \in 0 .. Len(chain) - 1
  BY <1>1, <1>4, <1>5
<1> QED
  BY <1>4, <1>6 DEF n

(* What is not found is not in its chain.                                   *)
LEMMA NotInChain ==
  ASSUME Shape, NEW pc \in DOMAIN Program, CacheOf(pc) = "rom", Found(pc) = None,
         \A i \in 1 .. Len(Chain(Tables, pc)) : Chain(Tables, pc)[i].at < None
  PROVE  \A i \in 1 .. Len(Chain(Tables, pc)) : Chain(Tables, pc)[i].pc # pc
<1> DEFINE chain == Chain(Tables, pc)
           n == Position(chain, pc)
<1>1. chain \in Seq(Entry) /\ Len(chain) \in Nat
  BY BucketOf, LenProperties, TablesAre DEF Shape, Chain
<1> SUFFICES ASSUME NEW i \in 1 .. Len(chain), chain[i].pc = pc
             PROVE  FALSE
  OBVIOUS
<1>2. n < Len(chain) => chain[n + 1].at = None
  BY TablesAre DEF Found, Chain
<1>3. n \in 0 .. Len(chain) - 1
  <2> HIDE DEF chain
  <2> QED
    BY <1>1, PositionIn
<1> HIDE DEF n
<1>4. n + 1 \in 1 .. Len(chain) /\ n < Len(chain)
  BY <1>1, <1>3
<1>5. chain[n + 1].at < None /\ chain[n + 1].at = None
  BY <1>2, <1>4
<1> QED
  BY <1>5 DEF None

-------------------------------------------------------------------------------
(* The invariant behind the lookups. *)

Emitting == stack # <<>> /\ Top.phase = "emit"

PtrTable ==
  /\ block_ptrs \in [TaggedCaches -> Seq(Nat)]
  /\ \A c \in TaggedCaches : tag_top[c] - 1 <= Len(block_ptrs[c])

(* A cache is over its limit only while a block is being emitted into it.   *)
PtrFits ==
  \A c \in Caches : ~ (Emitting /\ CacheOf(Top.pc) = c) => ptr[c] <= Capacity[c]

EmitAt == Emitting => Top.at = ptr[CacheOf(Top.pc)]

ChainsFit ==
  \A b \in 0 .. Buckets - 1 : \A i \in 1 .. Len(rom_branch_hash[b]) :
    rom_branch_hash[b][i].at < None /\ Bucket(rom_branch_hash[b][i].pc) = b

(* Only the innermost translation is not waiting for another. *)
Nested == \A i \in 1 .. Len(stack) - 1 : stack[i].phase = "link"

Cells == \A i \in 1 .. Len(stack) : CellFits(Tables, stack[i])

LinkFits ==
  \A i \in 1 .. Len(stack) :
    stack[i].phase = "link" => stack[i].at <= Capacity[CacheOf(stack[i].pc)]

(* Unless the innermost translation has failed, lookups would find every    *)
(* translation in progress: only an overflow takes tags and entries away,   *)
(* and it fails all of them.                                                *)
Held ==
  stack # <<>> /\ Top.phase # "failed" =>
    \A i \in 1 .. Len(stack) :
      stack[i].phase \in {"emit", "link"} => Entered(Tables, stack[i])

(* A nested lookup that is about to tag or link its PC has just missed it.  *)
Missed(t, f) == CacheOf(f.pc) = "rom" => f.cell = Len(Chain(t, f.pc))

Fresh ==
  Len(stack) > 1 /\ Top.phase = "enter" =>
    /\ Missed(Tables, Top)
    /\ \A i \in 1 .. Len(stack) - 1 : stack[i].pc # Top.pc

Places == Nested /\ Cells /\ LinkFits /\ Held /\ Fresh

FindInv == Shape /\ PtrTable /\ PtrFits /\ EmitAt /\ ChainsFit /\ Places

LEMMA NoPlaces ==
  ASSUME stack' = <<>>
  PROVE  Places' /\ ~ Emitting'
<1>1. Len(stack') = 0
  BY EmptySeq
<1> QED
  BY <1>1 DEF Places, Nested, Cells, LinkFits, Held, Fresh, Emitting

MovesTo(n, f) ==
  /\ n \in Nat \ {0} /\ Len(stack') = n /\ stack'[n] = f
  /\ \A i \in 1 .. n - 1 : stack'[i] = stack[i] /\ stack[i].phase = "link"

LEMMA NewPlaces ==
  ASSUME NEW n, NEW f \in Frames, MovesTo(n, f),
         \A i \in 1 .. n - 1 :
           /\ CellFits(Tables', stack[i])
           /\ stack[i].at <= Capacity[CacheOf(stack[i].pc)]
           /\ f.phase # "failed" => Entered(Tables', stack[i]),
         CellFits(Tables', f),
         f.phase \in {"emit", "link"} => Entered(Tables', f),
         f.phase = "link" => f.at <= Capacity[CacheOf(f.pc)],
         n > 1 /\ f.phase = "enter" =>
           Missed(Tables', f) /\ \A i \in 1 .. n - 1 : stack[i].pc # f.pc
  PROVE  Places' /\ stack' # <<>> /\ Top' = f
<1>1. n \in Nat \ {0} /\ Len(stack') = n /\ stack'[n] = f
  BY DEF MovesTo
<1>2. Top' = f
  BY <1>1 DEF Top
<1>3. \A i \in 1 .. n - 1 : stack'[i] = stack[i] /\ stack[i].phase = "link"
  BY DEF MovesTo
<1>4. \A i \in 1 .. n : i = n \/ i \in 1 .. n - 1
  BY <1>1
<1>5. stack' # <<>>
  BY <1>1, EmptySeq
<1>6. Nested'
  BY <1>1, <1>3 DEF Nested
<1>7. Cells'
  BY <1>1, <1>3, <1>4 DEF Cells
<1>8. LinkFits'
  BY <1>1, <1>3, <1>4 DEF LinkFits
<1>9. Held'
  <2> SUFFICES ASSUME f.phase # "failed", NEW i \in 1 .. n,
                      stack'[i].phase \in {"emit", "link"}
               PROVE  Entered(Tables', stack'[i])
    BY <1>1, <1>2 DEF Held
  <2>1. CASE i = n
    BY <1>1, <2>1
  <2>2. CASE i \in 1 .. n - 1
    BY <1>3, <2>2
  <2> QED
    BY <1>4, <2>1, <2>2
<1>10. Fresh'
  <2> SUFFICES ASSUME n > 1, f.phase = "enter"
               PROVE  Missed(Tables', f) /\ \A i \in 1 .. n - 1 : stack'[i].pc # f.pc
    BY <1>1, <1>2 DEF Fresh
  <2> QED
    BY <1>3
<1> QED
  BY <1>2, <1>5, <1>6, <1>7, <1>8, <1>9, <1>10 DEF Places

(* Moves of the three kinds. *)
LEMMA TopMove ==
  ASSUME Nested, NEW f, TopBecomes(f)
  PROVE  MovesTo(Len(stack), f)
  BY DEF Nested, TopBecomes, MovesTo

LEMMA PopMove ==
  ASSUME Nested, NEW f, Pops(f)
  PROVE  MovesTo(Len(stack) - 1, f)
  BY SMTT(30) DEF Nested, Pops, MovesTo

LEMMA PushMove ==
  ASSUME Shape, Nested, stack # <<>>, Top.phase = "link", NEW f, Pushes(f)
  PROVE  MovesTo(Len(stack) + 1, f)
<1>1. Len(stack) \in Nat \ {0} /\ Top = stack[Len(stack)]
  BY TopFrame DEF Shape, Top
<1>2. \A i \in 1 .. Len(stack) : i = Len(stack) \/ i \in 1 .. Len(stack) - 1
  BY <1>1
<1>3. \A i \in 1 .. Len(stack) : stack[i].phase = "link"
  BY <1>1, <1>2 DEF Nested
<1> QED
  BY <1>1, <1>3 DEF Pushes, MovesTo

(* What the invariant says of the frames of the stack. *)
LEMMA FramesAre ==
  ASSUME FindInv, NEW i \in 1 .. Len(stack)
  PROVE  /\ stack # <<>> /\ Len(stack) \in Nat \ {0}
         /\ stack[i] \in Frames /\ CellFits(Tables, stack[i])
         /\ stack[i].phase = "link" => stack[i].at <= Capacity[CacheOf(stack[i].pc)]
         /\ i # Len(stack) => stack[i].phase = "link"
         /\ Top.phase # "failed" /\ stack[i].phase \in {"emit", "link"} =>
              Entered(Tables, stack[i])
         /\ i = Len(stack) => stack[i] = Top
<1>1. stack \in Seq(Frames) /\ Len(stack) \in Nat
  BY LenProperties DEF FindInv, Shape
<1>2. stack # <<>>
  BY <1>1, EmptySeq
<1>3. stack[i] \in Frames
  BY <1>1, ElementOfSeq
<1>4. i # Len(stack) => stack[i].phase = "link"
  BY <1>1 DEF FindInv, Places, Nested
<1> QED
  BY <1>1, <1>2, <1>3, <1>4 DEF FindInv, Places, Cells, LinkFits, Held, Top
-------------------------------------------------------------------------------
(* The steps that leave the tables alone. *)

LEMMA QuietStep ==
  ASSUME FindInv, Shape', ~ Emitting, ~ Emitting', Places',
         UNCHANGED <<ptr, tag, tag_top, block_ptrs, rom_branch_hash>>
  PROVE  FindInv'
<1>1. PtrTable' /\ ChainsFit'
  BY DEF FindInv, PtrTable, ChainsFit
<1>2. PtrFits'
  BY DEF FindInv, PtrFits
<1>3. EmitAt'
  BY DEF EmitAt
<1> QED
  BY <1>1, <1>2, <1>3 DEF FindInv

LEMMA SameTables ==
  ASSUME UNCHANGED <<tag, tag_top, block_ptrs, rom_branch_hash>>
  PROVE  Tables' = Tables
  BY DEF Tables

LEMMA Caching == \A pc : CacheOf(pc) \in Caches
  BY DEF CacheOf, Caches

LEMMA MissFits ==
  ASSUME FindInv, NEW pc \in DOMAIN Program, Found(pc) = None
  PROVE  /\ Miss(pc) \in Frames /\ Miss(pc).phase = "enter" /\ Miss(pc).pc = pc
         /\ CellFits(Tables, Miss(pc)) /\ Missed(Tables, Miss(pc))
<1>1. Miss(pc) \in Frames
  BY MissIsFrame DEF FindInv, Shape
<1>2. Miss(pc).phase = "enter" /\ Miss(pc).pc = pc
      /\ Miss(pc).cell = Len(Chain(Tables, pc))
  BY TablesAre DEF Miss, Chain
<1>3. CacheOf(pc) = "rom" =>
        /\ Len(Chain(Tables, pc)) \in Nat
        /\ \A i \in 1 .. Len(Chain(Tables, pc)) : Chain(Tables, pc)[i].pc # pc
  <2> SUFFICES ASSUME CacheOf(pc) = "rom"
               PROVE  /\ Len(Chain(Tables, pc)) \in Nat
                      /\ \A i \in 1 .. Len(Chain(Tables, pc)) :
                           Chain(Tables, pc)[i].pc # pc
    OBVIOUS
  <2>1. Bucket(pc) \in 0 .. Buckets - 1
    BY BucketOf
  <2>2. Chain(Tables, pc) \in Seq(Entry)
    BY <2>1, TablesAre DEF FindInv, Shape, Chain
  <2>3. \A i \in 1 .. Len(Chain(Tables, pc)) : Chain(Tables, pc)[i].at < None
    BY <2>1, TablesAre DEF FindInv, ChainsFit, Chain
  <2>4. Shape
    BY DEF FindInv
  <2> QED
    BY <2>2, <2>3, <2>4, NotInChain, LenProperties
<1>4. CellFits(Tables, Miss(pc))
  BY <1>2, <1>3 DEF CellFits
<1> QED
  BY <1>1, <1>2, <1>4 DEF Missed

LEMMA LookupFinds ==
  ASSUME FindInv, Shape', NEW pc \in Entries, Lookup(pc)
  PROVE  FindInv'
<1>1. pc \in DOMAIN Program
  BY ProgramAssumption
<1>2. ~ Emitting /\ UNCHANGED <<ptr, tag, tag_top, block_ptrs, rom_branch_hash>>
  BY DEF Lookup, Emitting
<1>3. CASE stack' = <<>>
  <2>1. Places' /\ ~ Emitting'
    BY <1>3, NoPlaces
  <2> QED
    BY <1>2, <2>1, QuietStep
<1>4. CASE stack' # <<>>
  <2>1. Found(pc) = None /\ stack' = <<Miss(pc)>>
    BY <1>4 DEF Lookup
  <2>2. /\ Miss(pc) \in Frames /\ Miss(pc).phase = "enter"
        /\ CellFits(Tables, Miss(pc))
    BY <1>1, <2>1, MissFits
  <2>3. MovesTo(1, Miss(pc))
    BY <2>1 DEF MovesTo
  <2>4. Tables' = Tables
    BY <1>2, SameTables
  <2>5. Places' /\ Top' = Miss(pc)
    BY <2>2, <2>3, <2>4, NewPlaces
  <2>6. ~ Emitting'
    BY <2>2, <2>5 DEF Emitting
  <2> QED
    BY <1>2, <2>5, <2>6, QuietStep
<1> QED
  BY <1>3, <1>4

(* A nested translation that fails takes its caller with it.                *)
LEMMA FailFinds ==
  ASSUME FindInv, Shape', Len(stack) > 1, stack' = Fail,
         Top.phase \in {"enter", "failed"},
         UNCHANGED <<ptr, tag, tag_top, block_ptrs, rom_branch_hash>>
  PROVE  FindInv'
<1>1. Tables' = Tables
  BY SameTables
<1>2. PICK f \in Frames :
        Pops(f) /\ f = [stack[Len(stack) - 1] EXCEPT !.phase = "failed"]
  BY FailMoves DEF FindInv
<1>3. Len(stack) \in Nat \ {0, 1} /\ Len(stack) - 1 \in 1 .. Len(stack)
  BY <1>2 DEF Pops
<1> DEFINE n == Len(stack) - 1
           b == stack[n]
<1>4. b \in Frames /\ CellFits(Tables, b)
  BY <1>3, FramesAre
<1>5. f.pc = b.pc /\ f.cell = b.cell /\ f.phase = "failed"
  BY <1>2, <1>4 DEF Frames
<1>6. CellFits(Tables', f)
  BY <1>1, <1>4, <1>5 DEF CellFits
<1>7. \A i \in 1 .. n - 1 :
        /\ CellFits(Tables', stack[i])
        /\ stack[i].at <= Capacity[CacheOf(stack[i].pc)]
  <2> TAKE i \in 1 .. n - 1
  <2>1. i \in 1 .. Len(stack) /\ i # Len(stack)
    BY <1>3
  <2> QED
    BY <1>1, <2>1, FramesAre
<1>8. MovesTo(n, f)
  BY <1>2, PopMove DEF FindInv, Places
<1> HIDE DEF n
<1>9. Places' /\ Top' = f
  BY <1>5, <1>6, <1>7, <1>8, NewPlaces
<1>10. ~ Emitting'
  BY <1>5, <1>9 DEF Emitting
<1>11. ~ Emitting
  BY DEF Emitting
<1> QED
  BY <1>9, <1>10, <1>11, QuietStep

LEMMA NoFrames ==
  ASSUME FindInv, Shape', stack' = <<>>, ~ Emitting,
         UNCHANGED <<ptr, tag, tag_top, block_ptrs, rom_branch_hash>>
  PROVE  FindInv'
<1>1. Places' /\ ~ Emitting'
  BY NoPlaces
<1> QED
  BY <1>1, QuietStep

LEMMA GiveUpFinds ==
  ASSUME FindInv, Shape', GiveUp
  PROVE  FindInv'
<1>1. stack # <<>> /\ Top.phase = "enter"
      /\ UNCHANGED <<ptr, tag, tag_top, block_ptrs, rom_branch_hash>>
  BY DEF GiveUp
<1>2. Len(stack) \in Nat \ {0}
  BY <1>1, TopFrame DEF FindInv, Shape
<1>3. CASE Len(stack) = 1
  <2>1. stack' = <<>> /\ ~ Emitting
    BY <1>1, <1>3 DEF GiveUp, Emitting
  <2> QED
    BY <1>1, <2>1, NoFrames
<1>4. CASE Len(stack) > 1 /\ Len(stack) # 1
  <2>1. stack' = Fail
    BY <1>4 DEF GiveUp
  <2> QED
    BY <1>1, <1>4, <2>1, FailFinds
<1> QED
  BY <1>2, <1>3, <1>4, OneOrMore, Zenon

LEMMA UnwindFinds ==
  ASSUME FindInv, Shape', Unwind
  PROVE  FindInv'
<1>1. stack # <<>> /\ Top.phase = "failed"
      /\ UNCHANGED <<ptr, tag, tag_top, block_ptrs, rom_branch_hash>>
  BY DEF Unwind
<1>2. Len(stack) \in Nat \ {0} /\ stack \in Seq(Frames) /\ Top \in Frames
  BY <1>1, TopFrame DEF FindInv, Shape
<1>3. CASE Len(stack) = 1
  <2> DEFINE f == [Top EXCEPT !.phase = "enter", !.next = 1]
  <2>1. f \in Frames /\ f.phase = "enter" /\ f.pc = Top.pc /\ f.cell = Top.cell
    BY <1>2, 1 \in Nat \ {0} DEF Frames, Phases
  <2>2. stack' = [stack EXCEPT ![Len(stack)] = f]
    <3>1. stack' = [stack EXCEPT ![1].phase = "enter", ![1].next = 1]
      BY <1>3 DEF Unwind, Redo
    <3>2. stack' = [stack EXCEPT ![1] = [stack[1] EXCEPT !.phase = "enter",
                                                         !.next = 1]]
      BY <3>1
    <3> QED
      BY <1>3, <3>2 DEF Top
  <2> HIDE DEF f
  <2>3. TopBecomes(f)
    BY <1>1, <1>2, <2>2, ReplacesTop
  <2>4. MovesTo(1, f)
    BY <1>3, <2>3, TopMove DEF FindInv, Places
  <2>5. Tables' = Tables
    BY <1>1, SameTables
  <2>6. CellFits(Tables, Top)
    BY <1>2, <1>3, FramesAre
  <2>7. CellFits(Tables', f)
    BY <2>1, <2>5, <2>6 DEF CellFits
  <2>8. Places' /\ Top' = f
    BY <2>1, <2>4, <2>7, NewPlaces
  <2>9. ~ Emitting /\ ~ Emitting'
    BY <1>1, <2>1, <2>8 DEF Emitting
  <2> QED
    BY <1>1, <2>8, <2>9, QuietStep
<1>4. CASE Len(stack) > 1 /\ Len(stack) # 1
  <2>1. stack' = Fail
    BY <1>4 DEF Unwind
  <2> QED
    BY <1>1, <1>4, <2>1, FailFinds
<1> QED
  BY <1>2, <1>3, <1>4, OneOrMore, Zenon

LEMMA LinkFinds ==
  ASSUME FindInv, Shape', Link
  PROVE  FindInv'
<1>1. stack # <<>> /\ Top.phase = "link"
      /\ UNCHANGED <<ptr, tag, tag_top, block_ptrs, rom_branch_hash>>
  BY DEF Link
<1>2. PICK f \in Frames : TopBecomes(f) /\ f = [Top EXCEPT !.next = Top.next + 1]
  BY StackMoves DEF FindInv
<1> DEFINE n == Len(stack)
<1>3. n \in Nat \ {0} /\ n \in 1 .. n /\ Top \in Frames
  BY <1>1, TopFrame DEF FindInv, Shape
<1>4. /\ CellFits(Tables, Top) /\ Entered(Tables, Top)
      /\ Top.at <= Capacity[CacheOf(Top.pc)]
  BY <1>1, <1>3, FramesAre
<1>5. f.pc = Top.pc /\ f.cell = Top.cell /\ f.phase = "link" /\ f.at = Top.at
  BY <1>1, <1>2, <1>3 DEF Frames
<1>6. Tables' = Tables
  BY <1>1, SameTables
<1>7. CellFits(Tables', f) /\ Entered(Tables', f)
  BY <1>4, <1>5, <1>6 DEF CellFits, Entered
<1>8. \A i \in 1 .. n - 1 :
        /\ CellFits(Tables', stack[i])
        /\ stack[i].at <= Capacity[CacheOf(stack[i].pc)]
        /\ Entered(Tables', stack[i])
  <2> TAKE i \in 1 .. n - 1
  <2>1. i \in 1 .. Len(stack) /\ i # Len(stack)
    BY <1>3
  <2>2. stack[i].phase = "link" /\ Top.phase # "failed"
    BY <1>1, <2>1, FramesAre
  <2> QED
    BY <1>6, <2>1, <2>2, FramesAre
<1>9. MovesTo(n, f)
  BY <1>2, TopMove DEF FindInv, Places
<1> HIDE DEF n
<1>10. f.at <= Capacity[CacheOf(f.pc)]
  BY <1>4, <1>5
<1>11. Places' /\ Top' = f
  BY <1>5, <1>7, <1>8, <1>9, <1>10, NewPlaces
<1>12. ~ Emitting /\ ~ Emitting'
  BY <1>1, <1>5, <1>11 DEF Emitting
<1> QED
  BY <1>1, <1>11, <1>12, QuietStep
LEMMA ReturnFinds ==
  ASSUME FindInv, Shape', Return
  PROVE  FindInv'
<1>1. Len(stack) > 1 /\ Top.phase = "link"
      /\ UNCHANGED <<ptr, tag, tag_top, block_ptrs, rom_branch_hash>>
  BY DEF Return
<1>2. PICK f \in Frames :
        Pops(f) /\ f = [stack[Len(stack) - 1] EXCEPT
                          !.next = stack[Len(stack) - 1].next + 1]
  BY ReturnMoves DEF FindInv
<1>3. Len(stack) \in Nat \ {0, 1} /\ Len(stack) - 1 \in 1 .. Len(stack)
      /\ Len(stack) - 1 # Len(stack)
  BY <1>2 DEF Pops
<1> DEFINE n == Len(stack) - 1
           b == stack[n]
<1>4. /\ b \in Frames /\ CellFits(Tables, b) /\ b.phase = "link"
      /\ Entered(Tables, b) /\ b.at <= Capacity[CacheOf(b.pc)]
  BY <1>1, <1>3, FramesAre
<1>5. f.pc = b.pc /\ f.cell = b.cell /\ f.phase = "link" /\ f.at = b.at
  BY <1>2, <1>4 DEF Frames
<1>6. Tables' = Tables
  BY <1>1, SameTables
<1>7. CellFits(Tables', f) /\ Entered(Tables', f)
  BY <1>4, <1>5, <1>6 DEF CellFits, Entered
<1>8. \A i \in 1 .. n - 1 :
        /\ CellFits(Tables', stack[i])
        /\ stack[i].at <= Capacity[CacheOf(stack[i].pc)]
        /\ Entered(Tables', stack[i])
  <2> TAKE i \in 1 .. n - 1
  <2>1. i \in 1 .. Len(stack) /\ i # Len(stack)
    BY <1>3
  <2>2. stack[i].phase = "link" /\ Top.phase # "failed"
    BY <1>1, <2>1, FramesAre
  <2> QED
    BY <1>6, <2>1, <2>2, FramesAre
<1>9. MovesTo(n, f)
  BY <1>2, PopMove DEF FindInv, Places
<1>10. f.at <= Capacity[CacheOf(f.pc)]
  BY <1>4, <1>5
<1> HIDE DEF n
<1>11. Places' /\ Top' = f
  BY <1>5, <1>7, <1>8, <1>9, <1>10, NewPlaces
<1>12. ~ Emitting /\ ~ Emitting'
  BY <1>1, <1>5, <1>11 DEF Emitting
<1> QED
  BY <1>1, <1>11, <1>12, QuietStep

(* Every translation in progress is found, so that an exit that is not      *)
(* found leads to none of them.                                             *)
LEMMA FramesFound ==
  ASSUME FindInv, NEW i \in 1 .. Len(stack), stack[i].phase = "link",
         Top.phase # "failed"
  PROVE  Found(stack[i].pc) = stack[i].at /\ stack[i].at < None
<1>1. /\ stack[i] \in Frames /\ CellFits(Tables, stack[i])
      /\ Entered(Tables, stack[i])
      /\ stack[i].at <= Capacity[CacheOf(stack[i].pc)]
  BY FramesAre
<1>2. Found(stack[i].pc) = stack[i].at
  BY <1>1, FindsEntered DEF FindInv
<1>3. stack[i].at \in Nat
  BY <1>1 DEF Frames
<1>4. CacheOf(stack[i].pc) \in Caches
  BY Caching
<1>5. stack[i].at < None
  <2>1. ASSUME NEW c \in Caches, NEW a \in Nat, a <= Capacity[c]
        PROVE  a < None
    BY <2>1, ProgramAssumption DEF None
  <2> QED
    BY <1>1, <1>3, <1>4, <2>1
<1> QED
  BY <1>2, <1>5

LEMMA RecurseFinds ==
  ASSUME FindInv, Shape', Recurse
  PROVE  FindInv'
<1>1. stack # <<>> /\ Top.phase = "link" /\ Found(Target) = None
      /\ UNCHANGED <<ptr, tag, tag_top, block_ptrs, rom_branch_hash>>
  BY DEF Recurse
<1>2. Target \in DOMAIN Program /\ Pushes(Miss(Target))
  BY RecurseMoves DEF FindInv
<1>3. PICK f \in Frames : f = Miss(Target)
  BY <1>2, MissIsFrame DEF FindInv, Shape
<1>4. /\ f.phase = "enter" /\ f.pc = Target
      /\ CellFits(Tables, f) /\ Missed(Tables, f)
  BY <1>1, <1>2, <1>3, MissFits
<1>5. Tables' = Tables
  BY <1>1, SameTables
<1>6. Len(stack) \in Nat \ {0}
  BY <1>1, TopFrame DEF FindInv, Shape
<1> DEFINE n == Len(stack) + 1
<1>7. MovesTo(n, f)
  BY <1>1, <1>2, <1>3, PushMove DEF FindInv, Places
<1>8. \A i \in 1 .. n - 1 :
        /\ CellFits(Tables', stack[i])
        /\ stack[i].at <= Capacity[CacheOf(stack[i].pc)]
        /\ Entered(Tables', stack[i])
        /\ stack[i].pc # f.pc
  <2> TAKE i \in 1 .. n - 1
  <2>1. i \in 1 .. Len(stack)
    BY <1>6
  <2>2. stack[i].phase = "link" /\ Top.phase # "failed"
    BY <1>1, <2>1, FramesAre
  <2>3. Found(stack[i].pc) < None /\ Found(stack[i].pc) = stack[i].at
    BY <2>1, <2>2, FramesFound
  <2>4. stack[i].pc # f.pc
    BY <1>1, <1>4, <2>3 DEF None
  <2> QED
    BY <1>5, <2>1, <2>2, <2>4, FramesAre
<1> HIDE DEF n
<1>9. Places' /\ Top' = f
  BY <1>4, <1>5, <1>7, <1>8, NewPlaces
<1>10. ~ Emitting /\ ~ Emitting'
  BY <1>1, <1>4, <1>9 DEF Emitting
<1> QED
  BY <1>1, <1>9, <1>10, QuietStep

-------------------------------------------------------------------------------
(* The steps that change the tables. *)

LEMMA EnterTaggedFinds ==
  ASSUME FindInv, Shape', EnterTagged
  PROVE  FindInv'
<1> DEFINE cache == CacheOf(Top.pc)
           t == tag_top[cache]
           n == Len(stack)
           old == block_ptrs[cache]
           m == IF Len(old) < t THEN t ELSE Len(old)
<1>1. /\ stack # <<>> /\ Top.phase = "enter" /\ cache # "rom"
      /\ tag' = [tag EXCEPT ![Top.pc] = t]
      /\ tag_top' = [tag_top EXCEPT ![cache] = t + 1]
      /\ block_ptrs' = [block_ptrs EXCEPT ![cache] =
           [i \in 1 .. m |-> IF i = t THEN ptr[cache] ELSE old[i]]]
      /\ UNCHANGED <<ptr, rom_branch_hash>>
  BY DEF EnterTagged
<1>2. PICK f \in Frames : /\ TopBecomes(f) /\ f.phase = "emit" /\ f.pc = Top.pc
                          /\ f.at = ptr[CacheOf(Top.pc)] /\ f.next = Top.next
  BY StackMoves DEF FindInv
<1>3. n \in Nat \ {0} /\ Top \in Frames /\ Top.pc \in DOMAIN Program
  BY <1>1, TopFrame DEF FindInv, Shape, Frames
<1>4. cache \in TaggedCaches /\ cache \in Caches /\ Top.pc \in Tagged
  BY <1>1 DEF CacheOf, TaggedCaches, Caches, Tagged
<1>5. t \in Nat \ {0} /\ ptr[cache] \in Nat /\ old \in Seq(Nat) /\ Len(old) \in Nat
      /\ t - 1 <= Len(old)
  BY <1>4, LenProperties DEF FindInv, Shape, PtrTable
<1>6. m \in Nat \ {0} /\ t \in 1 .. m /\ Len(old) <= m
      /\ \A i \in 1 .. m : i # t => i \in 1 .. Len(old)
  BY <1>5
<1>7. \A i \in 1 .. Len(old) : old[i] \in Nat
  BY <1>5, ElementOfSeq
<1> DEFINE new == [i \in 1 .. m |-> IF i = t THEN ptr[cache] ELSE old[i]]
<1>8. new \in Seq(Nat) /\ Len(new) = m
  <2> HIDE DEF m, t, old, cache
  <2>1. \A i \in 1 .. m : (IF i = t THEN ptr[cache] ELSE old[i]) \in Nat
    BY <1>5, <1>6, <1>7
  <2> QED
    BY <1>6, <2>1, IsASeq
<1>9. PtrTable'
  <2> HIDE DEF new, m, t, old
  <2>1. block_ptrs' = [block_ptrs EXCEPT ![cache] = new]
    BY <1>1 DEF new
  <2>2. tag_top'[cache] = t + 1 /\ \A c \in TaggedCaches : c # cache => tag_top'[c] = tag_top[c]
    BY <1>1, <1>4 DEF FindInv, Shape
  <2>3. block_ptrs' \in [TaggedCaches -> Seq(Nat)]
    BY <1>8, <2>1 DEF FindInv, PtrTable
  <2>4. ASSUME NEW c \in TaggedCaches PROVE tag_top'[c] - 1 <= Len(block_ptrs'[c])
    <3>1. CASE c = cache
      <4>1. block_ptrs'[c] = new
        BY <1>4, <2>1, <3>1 DEF FindInv, PtrTable
      <4>2. t \in Nat /\ m \in Nat /\ t <= m
        BY <1>5, <1>6
      <4> QED
        BY <1>5, <1>6, <1>8, <2>2, <3>1, <4>1, <4>2
    <3>2. CASE c # cache
      <4>1. block_ptrs'[c] = block_ptrs[c] /\ tag_top'[c] = tag_top[c]
        BY <2>1, <2>2, <3>2 DEF FindInv, PtrTable
      <4> QED
        BY <4>1 DEF FindInv, PtrTable
    <3> QED
      BY <3>1, <3>2
  <2> QED
    BY <2>3, <2>4 DEF PtrTable
<1>10. ~ Emitting
  BY <1>1 DEF Emitting
<1>11. ChainsFit'
  BY <1>1 DEF FindInv, ChainsFit
<1>12. PtrFits'
  BY <1>1, <1>10 DEF FindInv, PtrFits
<1>13. \A g : CellFits(Tables, g) => CellFits(Tables', g)
  BY <1>1 DEF CellFits, Tables, Chain
<1>14. CellFits(Tables', f)
  BY <1>1, <1>2 DEF CellFits
<1>15. Entered(Tables', f)
  <2>1. tag'[f.pc] = t
    BY <1>1, <1>2, <1>4 DEF FindInv, Shape
  <2>2. tag_top'[cache] = t + 1
    BY <1>1, <1>4 DEF FindInv, Shape
  <2>3. block_ptrs'[cache] = new
    BY <1>1, <1>4 DEF FindInv, PtrTable
  <2>4. new[t] = ptr[cache]
    BY <1>6
  <2>5. /\ Tables'.tag = tag' /\ Tables'.top = tag_top' /\ Tables'.ptrs = block_ptrs'
    BY DEF Tables
  <2>6. t \in FirstTag .. t + 1 - 1
    BY <1>5 DEF FirstTag
  <2>7. CacheOf(f.pc) = cache /\ cache # "rom" /\ f.at = ptr[cache]
    BY <1>1, <1>2
  <2> HIDE DEF new, t, m, old, cache
  <2> QED
    BY <2>1, <2>2, <2>3, <2>4, <2>5, <2>6, <2>7 DEF Entered
<1>16. ASSUME NEW g \in Frames, Entered(Tables, g), g.pc # Top.pc
       PROVE  Entered(Tables', g)
  <2> DEFINE c == CacheOf(g.pc)
  <2>1. CASE c = "rom"
    BY <1>1, <1>16, <2>1 DEF Entered, Tables, Chain
  <2>2. CASE c # "rom"
    <3>1. c \in TaggedCaches /\ g.pc \in Tagged
      BY <2>2 DEF CacheOf, TaggedCaches, Tagged
    <3>2. tag[g.pc] \in FirstTag .. tag_top[c] - 1 /\ block_ptrs[c][tag[g.pc]] = g.at
      BY <1>16, <2>2, TablesAre DEF Entered
    <3>3. tag'[g.pc] = tag[g.pc]
      BY <1>1, <1>16, <3>1 DEF FindInv, Shape
    <3>4. tag_top[c] \in Nat
      BY <3>1 DEF FindInv, Shape
    <3>5. tag'[g.pc] \in FirstTag .. tag_top'[c] - 1
      <4>1. CASE c = cache
        <5>1. tag_top'[c] = tag_top[c] + 1
          BY <1>1, <3>1, <4>1 DEF FindInv, Shape
        <5> QED
          BY <3>2, <3>3, <3>4, <5>1 DEF FirstTag
      <4>2. CASE c # cache
        BY <1>1, <3>1, <3>2, <3>3, <4>2 DEF FindInv, Shape
      <4> QED
        BY <4>1, <4>2
    <3>6. block_ptrs'[c][tag'[g.pc]] = g.at
      <4>1. CASE c = cache
        <5>1. block_ptrs'[c] = new
          BY <1>1, <3>1, <4>1 DEF FindInv, PtrTable
        <5>2. tag[g.pc] \in 1 .. t - 1
          BY <3>2, <4>1 DEF FirstTag
        <5>3. tag[g.pc] \in 1 .. m /\ tag[g.pc] # t
          BY <1>5, <1>6, <5>2
        <5>4. new[tag[g.pc]] = old[tag[g.pc]]
          BY <5>3
        <5> QED
          BY <3>2, <3>3, <4>1, <5>1, <5>4
      <4>2. CASE c # cache
        BY <1>1, <3>1, <3>2, <3>3, <4>2 DEF FindInv, PtrTable
      <4> QED
        BY <4>1, <4>2
    <3>7. /\ Tables'.tag = tag' /\ Tables'.top = tag_top' /\ Tables'.ptrs = block_ptrs'
      BY DEF Tables
    <3> QED
      BY <2>2, <3>5, <3>6, <3>7 DEF Entered
  <2> QED
    BY <2>1, <2>2
<1>17. \A i \in 1 .. n - 1 :
        /\ CellFits(Tables', stack[i])
        /\ stack[i].at <= Capacity[CacheOf(stack[i].pc)]
        /\ Entered(Tables', stack[i])
  <2> TAKE i \in 1 .. n - 1
  <2>1. i \in 1 .. Len(stack) /\ i # Len(stack) /\ Len(stack) > 1
    BY <1>3
  <2>2. /\ stack[i].phase = "link" /\ Top.phase # "failed"
        /\ stack[i] \in Frames /\ CellFits(Tables, stack[i])
    BY <1>1, <2>1, FramesAre
  <2>3. Entered(Tables, stack[i]) /\ stack[i].at <= Capacity[CacheOf(stack[i].pc)]
    BY <2>1, <2>2, FramesAre
  <2>4. stack[i].pc # Top.pc
    BY <1>1, <2>1 DEF FindInv, Places, Fresh
  <2> QED
    BY <1>13, <1>16, <2>2, <2>3, <2>4
<1>18. MovesTo(n, f)
  BY <1>2, TopMove DEF FindInv, Places
<1> HIDE DEF n
<1>19. Places' /\ Top' = f
  BY <1>2, <1>14, <1>15, <1>17, <1>18, NewPlaces
<1>20. EmitAt'
  BY <1>1, <1>2, <1>19 DEF EmitAt
<1> QED
  BY <1>9, <1>11, <1>12, <1>19, <1>20 DEF FindInv
LEMMA LinkedAt ==
  ASSUME NEW chain \in Seq(Entry), NEW n \in Nat, n <= Len(chain), NEW entry \in Entry
  PROVE  /\ Linked(chain, n, entry) \in Seq(Entry)
         /\ Len(Linked(chain, n, entry)) = n + 1
         /\ Linked(chain, n, entry)[n + 1] = entry
         /\ \A j \in 1 .. n : Linked(chain, n, entry)[j] = chain[j]
<1> DEFINE s == SubSeq(chain, 1, n)
<1>1. Len(chain) \in Nat
  BY LenProperties
<1>2. \A j \in 1 .. n : chain[j] \in Entry
  BY <1>1, ElementOfSeq
<1>3. 1 \in Int /\ n \in Int
  OBVIOUS
<1>4. /\ s \in Seq(Entry) /\ Len(s) = (IF 1 <= n THEN n - 1 + 1 ELSE 0)
      /\ \A j \in 1 .. n - 1 + 1 : s[j] = chain[1 + j - 1]
  BY <1>2, <1>3, SubSeqProperties
<1> HIDE DEF s
<1>5. Len(s) = n /\ \A j \in 1 .. n : s[j] = chain[j]
  BY <1>4
<1>6. Linked(chain, n, entry) = Append(s, entry)
  BY <1>1 DEF Linked, s
<1> QED
  BY <1>4, <1>5, <1>6, AppendProperties

(* Where a ROM lookup links its block, and what its chain then is. *)
RomChain == rom_branch_hash[Bucket(Top.pc)]
RomAt == ptr["rom"] + Header
RomCell == Cell(RomChain, Top.cell)

LEMMA RomEntered ==
  ASSUME FindInv, EnterRom
  PROVE  LET b   == Bucket(Top.pc)
             new == rom_branch_hash'[b]
         IN /\ b \in 0 .. Buckets - 1
            /\ RomChain \in Seq(Entry) /\ Len(RomChain) \in Nat
            /\ RomAt \in Nat /\ RomAt < None
            /\ RomCell \in Nat /\ RomCell <= Len(RomChain)
            /\ \A j \in 1 .. RomCell : RomChain[j].pc # Top.pc
            /\ Len(new) = RomCell + 1
            /\ new[RomCell + 1] = [pc |-> Top.pc, at |-> RomAt]
            /\ \A j \in 1 .. RomCell : new[j] = RomChain[j]
            /\ \A c \in 0 .. Buckets - 1 :
                 c # b => rom_branch_hash'[c] = rom_branch_hash[c]
<1> DEFINE b == Bucket(Top.pc)
           entry == [pc |-> Top.pc, at |-> RomAt]
           new == Linked(RomChain, RomCell, entry)
           n == Len(stack)
<1>1. /\ stack # <<>> /\ Top.phase = "enter" /\ CacheOf(Top.pc) = "rom"
      /\ rom_branch_hash' = [rom_branch_hash EXCEPT ![b] = new]
  BY DEF EnterRom, RomChain, RomAt, RomCell
<1>2. n \in Nat \ {0} /\ n \in 1 .. n /\ Top \in Frames /\ Top.pc \in DOMAIN Program
  BY <1>1, TopFrame DEF FindInv, Shape, Frames
<1>3. b \in 0 .. Buckets - 1 /\ RomChain \in Seq(Entry) /\ Len(RomChain) \in Nat
  BY <1>2, BucketOf, LenProperties DEF FindInv, Shape, RomChain
<1>4. RomAt \in Nat /\ RomAt < None
  <2>1. "rom" \in Caches /\ ~ Emitting
    BY <1>1 DEF Caches, Emitting
  <2>2. ptr["rom"] \in Nat /\ ptr["rom"] <= Capacity["rom"]
    BY <2>1 DEF FindInv, Shape, PtrFits
  <2>3. Header \in Nat /\ Capacity["rom"] \in Nat /\ Capacity["rom"] + Header < None
    BY <2>1, ProgramAssumption
  <2> QED
    BY <2>2, <2>3 DEF None, RomAt
<1>5. RomCell \in Nat /\ RomCell <= Len(RomChain)
      /\ \A j \in 1 .. RomCell : RomChain[j].pc # Top.pc
  <2>1. CellFits(Tables, Top)
    BY <1>2, FramesAre
  <2>2. RomChain = Chain(Tables, Top.pc)
    BY TablesAre DEF Chain, RomChain
  <2>3. \/ RomChain = <<>>
        \/ Top.cell <= Len(RomChain) /\ \A j \in 1 .. Top.cell : RomChain[j].pc # Top.pc
    BY <1>1, <2>1, <2>2 DEF CellFits
  <2>4. Top.cell \in Nat
    BY <1>2 DEF Frames
  <2> QED
    BY <1>3, <2>3, <2>4, EmptySeq DEF Cell, RomCell
<1>6. entry \in Entry
  BY <1>2, <1>4 DEF Entry
<1>7. /\ Len(new) = RomCell + 1 /\ new[RomCell + 1] = entry
      /\ \A j \in 1 .. RomCell : new[j] = RomChain[j]
  <2> HIDE DEF entry
  <2> QED
    BY <1>3, <1>5, <1>6, LinkedAt
<1>8. rom_branch_hash'[b] = new
      /\ \A c \in 0 .. Buckets - 1 : c # b => rom_branch_hash'[c] = rom_branch_hash[c]
  BY <1>1, <1>3 DEF FindInv, Shape
<1> HIDE DEF new
<1> QED
  BY <1>3, <1>4, <1>5, <1>7, <1>8

LEMMA EnterRomFinds ==
  ASSUME FindInv, Shape', EnterRom
  PROVE  FindInv'
<1> DEFINE b == Bucket(Top.pc)
           chain == RomChain
           at == RomAt
           cell == RomCell
           entry == [pc |-> Top.pc, at |-> at]
           new == rom_branch_hash'[b]
           n == Len(stack)
<1>1. /\ stack # <<>> /\ Top.phase = "enter" /\ CacheOf(Top.pc) = "rom"
      /\ ptr' = [ptr EXCEPT !["rom"] = at]
      /\ UNCHANGED <<tag, tag_top, block_ptrs>>
  BY DEF EnterRom, RomAt
<1>2. PICK f \in Frames :
        /\ TopBecomes(f) /\ f.phase = "emit" /\ f.pc = Top.pc
        /\ f.at = at /\ f.next = Top.next /\ f.cell = cell
  BY RomMoves DEF FindInv, RomAt, RomCell, RomChain
<1>3. n \in Nat \ {0} /\ n \in 1 .. n /\ Top \in Frames /\ Top.pc \in DOMAIN Program
  BY <1>1, TopFrame DEF FindInv, Shape, Frames
<1>4. b \in 0 .. Buckets - 1 /\ chain \in Seq(Entry) /\ Len(chain) \in Nat
  BY RomEntered
<1>5. ~ Emitting
  BY <1>1 DEF Emitting
<1>6. at \in Nat /\ at < None /\ "rom" \in Caches
  BY RomEntered DEF Caches
<1>7. cell \in Nat /\ cell <= Len(chain) /\ \A j \in 1 .. cell : chain[j].pc # Top.pc
  BY RomEntered
<1>9. /\ Len(new) = cell + 1 /\ new[cell + 1] = entry
      /\ \A j \in 1 .. cell : new[j] = chain[j]
  BY RomEntered
<1>10. rom_branch_hash'[b] = new
       /\ \A c \in 0 .. Buckets - 1 : c # b => rom_branch_hash'[c] = rom_branch_hash[c]
  BY RomEntered
<1>11. PtrTable'
  BY <1>1 DEF FindInv, PtrTable
<1>12. ChainsFit'
  <2> SUFFICES ASSUME NEW c \in 0 .. Buckets - 1,
                      NEW i \in 1 .. Len(rom_branch_hash'[c])
               PROVE  rom_branch_hash'[c][i].at < None
                      /\ Bucket(rom_branch_hash'[c][i].pc) = c
    BY DEF ChainsFit
  <2>1. CASE c = b
    <3>1. rom_branch_hash'[c] = new /\ i \in 1 .. cell + 1
      BY <1>9, <1>10, <2>1
    <3>2. CASE i = cell + 1
      BY <1>6, <1>9, <2>1, <3>1, <3>2
    <3>3. CASE i # cell + 1
      <4> HIDE DEF cell, chain, new
      <4>1. i \in 1 .. cell /\ i \in 1 .. Len(chain)
        BY <1>4, <1>7, <3>1, <3>3
      <4>2. chain[i].at < None /\ Bucket(chain[i].pc) = b
        BY <1>4, <4>1 DEF FindInv, ChainsFit, chain, RomChain
      <4> QED
        BY <1>9, <2>1, <3>1, <4>1, <4>2
    <3> QED
      BY <3>2, <3>3
  <2>2. CASE c # b
    BY <1>10, <2>2 DEF FindInv, ChainsFit
  <2> QED
    BY <2>1, <2>2
<1>13. Chain(Tables', Top.pc) = new
       /\ \A g : Bucket(g.pc) = b => Chain(Tables', g.pc) = new
  BY <1>10 DEF Tables, Chain
<1>14. CellFits(Tables', f)
  <2> HIDE DEF cell, chain, new, entry
  <2>1. Chain(Tables', f.pc) = new
    BY <1>2, <1>13
  <2> QED
    BY <1>2, <1>7, <1>9, <2>1 DEF CellFits
<1>15. Entered(Tables', f)
  <2> HIDE DEF cell, chain, new
  <2>1. Chain(Tables', f.pc) = new
    BY <1>2, <1>13
  <2>2. cell < cell + 1
    BY <1>7
  <2>3. entry = [pc |-> f.pc, at |-> f.at]
    BY <1>2
  <2> QED
    BY <1>1, <1>2, <1>9, <2>1, <2>2, <2>3 DEF Entered
<1>16. ASSUME NEW g \in Frames, CellFits(Tables, g), Entered(Tables, g),
              cell = Len(chain)
       PROVE  CellFits(Tables', g) /\ Entered(Tables', g)
  <2>1. CASE CacheOf(g.pc) # "rom"
    BY <1>1, <1>16, <2>1 DEF CellFits, Entered, Tables
  <2>2. CASE CacheOf(g.pc) = "rom" /\ Bucket(g.pc) # b
    <3>1. Bucket(g.pc) \in 0 .. Buckets - 1
      BY BucketOf DEF Frames
    <3>2. Chain(Tables', g.pc) = Chain(Tables, g.pc)
      BY <1>10, <2>2, <3>1 DEF Tables, Chain
    <3> QED
      BY <1>16, <2>2, <3>2 DEF CellFits, Entered
  <2>3. CASE CacheOf(g.pc) = "rom" /\ Bucket(g.pc) = b
    <3>1. Chain(Tables', g.pc) = new /\ Chain(Tables, g.pc) = chain
      BY <1>13, <2>3, TablesAre DEF Chain, RomChain
    <3>2. g.cell < Len(chain) /\ chain[g.cell + 1] = [pc |-> g.pc, at |-> g.at]
          /\ g.cell \in Nat
      BY <1>16, <2>3, <3>1 DEF Entered, Frames
    <3> HIDE DEF chain, new, cell
    <3>3. chain # <<>>
      BY <3>2, EmptySeq
    <3>4. g.cell <= Len(chain) /\ \A j \in 1 .. g.cell : chain[j].pc # g.pc
      BY <1>16, <2>3, <3>1, <3>3 DEF CellFits
    <3>5. \A j \in 1 .. Len(chain) : new[j] = chain[j]
      BY <1>9, <1>16
    <3>6. g.cell + 1 \in 1 .. Len(chain) /\ \A j \in 1 .. g.cell : j \in 1 .. Len(chain)
      BY <1>4, <3>2
    <3>7. Len(new) = Len(chain) + 1
      BY <1>9, <1>16
    <3>8. CellFits(Tables', g)
      <4>1. g.cell <= Len(new)
        BY <1>4, <3>2, <3>4, <3>7
      <4>2. \A j \in 1 .. g.cell : new[j].pc # g.pc
        BY <3>4, <3>5, <3>6
      <4> QED
        BY <3>1, <4>1, <4>2 DEF CellFits
    <3>9. Entered(Tables', g)
      BY <1>4, <2>3, <3>1, <3>2, <3>5, <3>6, <3>7 DEF Entered
    <3> QED
      BY <3>8, <3>9
  <2> QED
    BY <2>1, <2>2, <2>3
<1>17. \A i \in 1 .. n - 1 :
        /\ CellFits(Tables', stack[i])
        /\ stack[i].at <= Capacity[CacheOf(stack[i].pc)]
        /\ Entered(Tables', stack[i])
  <2> TAKE i \in 1 .. n - 1
  <2>1. i \in 1 .. Len(stack) /\ i # Len(stack) /\ Len(stack) > 1
    BY <1>3
  <2>2. /\ stack[i].phase = "link" /\ Top.phase # "failed"
        /\ stack[i] \in Frames /\ CellFits(Tables, stack[i])
    BY <1>1, <2>1, FramesAre
  <2>3. Entered(Tables, stack[i]) /\ stack[i].at <= Capacity[CacheOf(stack[i].pc)]
    BY <2>1, <2>2, FramesAre
  <2>4. cell = Len(chain)
    <3>1. Top.cell = Len(Chain(Tables, Top.pc))
      BY <1>1, <2>1 DEF FindInv, Places, Fresh, Missed
    <3>2. Chain(Tables, Top.pc) = chain
      BY TablesAre DEF Chain, RomChain
    <3> QED
      BY <3>1, <3>2, EmptySeq DEF Cell, RomCell
  <2> HIDE DEF cell, chain
  <2> QED
    BY <1>16, <2>2, <2>3, <2>4
<1>18. MovesTo(n, f)
  BY <1>2, TopMove DEF FindInv, Places
<1> HIDE DEF n
<1>19. Places' /\ Top' = f
  BY <1>2, <1>14, <1>15, <1>17, <1>18, NewPlaces
<1> HIDE DEF at, cell, new
<1>20. stack' # <<>>
  BY <1>2, <1>14, <1>15, <1>17, <1>18, NewPlaces
<1>21. PtrFits'
  <2> SUFFICES ASSUME NEW c \in Caches, ~ (Emitting' /\ CacheOf(Top'.pc) = c)
               PROVE  ptr'[c] <= Capacity[c]
    BY DEF PtrFits
  <2>1. c # "rom"
    BY <1>1, <1>2, <1>19, <1>20 DEF Emitting
  <2>2. ptr'[c] = ptr[c]
    BY <1>1, <2>1 DEF FindInv, Shape
  <2> QED
    BY <1>5, <2>2 DEF FindInv, PtrFits
<1>22. EmitAt'
  BY <1>1, <1>2, <1>6, <1>19 DEF EmitAt, FindInv, Shape
<1> QED
  BY <1>11, <1>12, <1>19, <1>21, <1>22 DEF FindInv
(* Guards are put only where there is no mark. *)
LEMMA GuardKeepsTags ==
  ASSUME Shape, NEW pc, tag' = Guarded(pc), NEW a \in Tagged, tag[a] # CLEAR
  PROVE  tag'[a] = tag[a]
  BY DEF Guarded, Shape

LEMMA GuardKeepsEntered ==
  ASSUME Shape, NEW pc, tag' = Guarded(pc), NEW g \in Frames, Entered(Tables, g),
         UNCHANGED <<tag_top, block_ptrs, rom_branch_hash>>
  PROVE  Entered(Tables', g)
<1>1. CASE CacheOf(g.pc) = "rom"
  BY <1>1 DEF Entered, Tables, Chain
<1>2. CASE CacheOf(g.pc) # "rom"
  <2>1. g.pc \in Tagged
    BY <1>2 DEF CacheOf, Tagged
  <2>2. tag[g.pc] \in FirstTag .. tag_top[CacheOf(g.pc)] - 1
    BY <1>2, TablesAre DEF Entered
  <2>3. tag[g.pc] # CLEAR
    BY <2>2 DEF FirstTag, CLEAR
  <2>4. tag'[g.pc] = tag[g.pc]
    BY <2>1, <2>3, GuardKeepsTags
  <2>5. /\ Tables'.tag = tag' /\ Tables'.top = tag_top' /\ Tables'.ptrs = block_ptrs'
    BY DEF Tables
  <2> QED
    BY <1>2, <2>4, <2>5, TablesAre DEF Entered
<1> QED
  BY <1>1, <1>2

LEMMA CommitFinds ==
  ASSUME FindInv, Shape', Commit
  PROVE  FindInv'
<1> DEFINE cache == CacheOf(Top.pc)
           n == Len(stack)
<1>1. /\ stack # <<>> /\ Top.phase = "emit" /\ Fits(cache, BlockEnd)
      /\ tag' = Guarded(Top.pc) /\ ptr' = [ptr EXCEPT ![cache] = BlockEnd]
      /\ UNCHANGED <<tag_top, block_ptrs, rom_branch_hash>>
  BY DEF Commit
<1>2. PICK f \in Frames : TopBecomes(f) /\ f = [Top EXCEPT !.phase = "link"]
  BY StackMoves DEF FindInv
<1>3. n \in Nat \ {0} /\ n \in 1 .. n /\ Top \in Frames
  BY <1>1, TopFrame DEF FindInv, Shape
<1>4. CellFits(Tables, Top) /\ Entered(Tables, Top)
  BY <1>1, <1>3, FramesAre
<1>5. f.pc = Top.pc /\ f.cell = Top.cell /\ f.phase = "link" /\ f.at = Top.at
  BY <1>2, <1>3 DEF Frames
<1>6. \A g \in Frames : CellFits(Tables, g) => CellFits(Tables', g)
  BY <1>1 DEF CellFits, Tables, Chain
<1>7. \A g \in Frames : Entered(Tables, g) => Entered(Tables', g)
  BY <1>1, GuardKeepsEntered DEF FindInv
<1>8. CellFits(Tables', f) /\ Entered(Tables', f)
  <2>1. CellFits(Tables', Top) /\ Entered(Tables', Top)
    BY <1>3, <1>4, <1>6, <1>7
  <2> QED
    BY <1>5, <2>1 DEF CellFits, Entered
<1>9. cache \in Caches /\ BlockEnd \in Nat /\ Top.at <= BlockEnd /\ Top.at \in Nat
      /\ BlockEnd <= Capacity[cache] /\ Capacity[cache] \in Nat
  <2>1. Top.pc \in DOMAIN Program /\ Top.at \in Nat
    BY <1>3 DEF Frames
  <2>2. Program[Top.pc].body \in Nat /\ Program[Top.pc].gate \in Nat
    BY <2>1, ProgramAssumption
  <2>3. cache \in Caches /\ Capacity[cache] \in Nat
    BY Caching, ProgramAssumption
  <2> QED
    BY <1>1, <2>1, <2>2, <2>3 DEF BlockEnd, BodyEnd, Fits
<1>10. f.at <= Capacity[CacheOf(f.pc)]
  BY <1>5, <1>9
<1>11. \A i \in 1 .. n - 1 :
        /\ CellFits(Tables', stack[i])
        /\ stack[i].at <= Capacity[CacheOf(stack[i].pc)]
        /\ Entered(Tables', stack[i])
  <2> TAKE i \in 1 .. n - 1
  <2>1. i \in 1 .. Len(stack) /\ i # Len(stack)
    BY <1>3
  <2>2. stack[i].phase = "link" /\ Top.phase # "failed" /\ stack[i] \in Frames
    BY <1>1, <2>1, FramesAre
  <2> QED
    BY <1>6, <1>7, <2>1, <2>2, FramesAre
<1>12. MovesTo(n, f)
  BY <1>2, TopMove DEF FindInv, Places
<1> HIDE DEF n
<1>13. Places' /\ Top' = f
  BY <1>5, <1>8, <1>10, <1>11, <1>12, NewPlaces
<1>14. ~ Emitting'
  BY <1>5, <1>13 DEF Emitting
<1>15. PtrFits'
  <2> SUFFICES ASSUME NEW c \in Caches PROVE ptr'[c] <= Capacity[c]
    BY DEF PtrFits
  <2>1. CASE c = cache
    BY <1>1, <1>9, <2>1 DEF FindInv, Shape
  <2>2. CASE c # cache
    <3>1. ptr'[c] = ptr[c]
      BY <1>1, <2>2 DEF FindInv, Shape
    <3> QED
      BY <2>2, <3>1 DEF FindInv, PtrFits
  <2> QED
    BY <2>1, <2>2
<1>16. PtrTable' /\ ChainsFit'
  BY <1>1 DEF FindInv, PtrTable, ChainsFit
<1>17. EmitAt'
  BY <1>14 DEF EmitAt
<1> QED
  BY <1>13, <1>15, <1>16, <1>17 DEF FindInv

(* The innermost translation fails.                                         *)
LEMMA FailedPlaces ==
  ASSUME FindInv, NEW f \in Frames, stack # <<>>, TopBecomes(f), f.phase = "failed",
         f.pc = Top.pc, f.cell = Top.cell,
         \A g \in Frames : CellFits(Tables, g) => CellFits(Tables', g)
  PROVE  Places' /\ ~ Emitting'
<1> DEFINE n == Len(stack)
<1>1. n \in Nat \ {0} /\ n \in 1 .. n /\ Top \in Frames
  BY TopFrame DEF FindInv, Shape
<1>2. CellFits(Tables, Top)
  BY <1>1, FramesAre
<1>3. CellFits(Tables', Top)
  BY <1>1, <1>2
<1>4. CellFits(Tables', f)
  BY <1>3 DEF CellFits
<1>5. \A i \in 1 .. n - 1 :
        /\ CellFits(Tables', stack[i])
        /\ stack[i].at <= Capacity[CacheOf(stack[i].pc)]
  <2> TAKE i \in 1 .. n - 1
  <2>1. i \in 1 .. Len(stack) /\ i # Len(stack)
    BY <1>1
  <2>2. stack[i].phase = "link" /\ stack[i] \in Frames
    BY <2>1, FramesAre
  <2> QED
    BY <2>1, <2>2, FramesAre
<1>6. MovesTo(n, f)
  BY TopMove DEF FindInv, Places
<1> HIDE DEF n
<1>7. Places' /\ Top' = f
  BY <1>4, <1>5, <1>6, NewPlaces
<1> QED
  BY <1>7 DEF Emitting

LEMMA GateOverflowFinds ==
  ASSUME FindInv, Shape', GateOverflow
  PROVE  FindInv'
<1> DEFINE cache == CacheOf(Top.pc)
<1>1. /\ stack # <<>> /\ Top.phase = "emit" /\ Fits(cache, BodyEnd)
      /\ UNCHANGED <<ptr, tag_top, block_ptrs, rom_branch_hash>>
  BY DEF GateOverflow
<1>2. PICK f \in Frames : TopBecomes(f) /\ f.phase = "failed" /\ f.pc = Top.pc
                          /\ f.cell = Top.cell /\ f.at = Top.at
  BY StackMoves DEF FindInv
<1>3. Top \in Frames
  BY <1>1, TopFrame DEF FindInv, Shape
<1>4. \A g \in Frames : CellFits(Tables, g) => CellFits(Tables', g)
  BY <1>1 DEF CellFits, Tables, Chain
<1>5. Places' /\ ~ Emitting'
  BY <1>1, <1>2, <1>4, FailedPlaces
<1>6. ptr[cache] <= Capacity[cache]
  <2>1. Top.at = ptr[cache]
    BY <1>1 DEF FindInv, EmitAt, Emitting
  <2>2. Top.pc \in DOMAIN Program /\ Top.at \in Nat
    BY <1>3 DEF Frames
  <2>3. Program[Top.pc].body \in Nat
    BY <2>2, ProgramAssumption
  <2>4. Capacity[cache] \in Nat
    BY Caching, ProgramAssumption
  <2>5. Top.at + Program[Top.pc].body <= Capacity[cache]
    BY <1>1 DEF Fits, BodyEnd
  <2> QED
    BY <2>1, <2>2, <2>3, <2>4, <2>5
<1>7. PtrFits'
  BY <1>1, <1>6 DEF FindInv, PtrFits
<1>8. PtrTable' /\ ChainsFit'
  BY <1>1 DEF FindInv, PtrTable, ChainsFit
<1>9. EmitAt'
  BY <1>5 DEF EmitAt
<1> QED
  BY <1>5, <1>7, <1>8, <1>9 DEF FindInv

(* A flush empties chains or leaves them, and never raises a pointer.       *)
LEMMA FlushedTables ==
  ASSUME FindInv, NEW caches, NEW tags, NEW min, Flush(caches, tags, min)
  PROVE  /\ PtrTable' /\ ChainsFit'
         /\ \A c \in Caches : ptr'[c] = IF c \in caches THEN 0 ELSE ptr[c]
         /\ \A g \in Frames : CellFits(Tables, g) => CellFits(Tables', g)
<1>1. \A b \in 0 .. Buckets - 1 :
        rom_branch_hash'[b] = <<>> \/ rom_branch_hash'[b] = rom_branch_hash[b]
  BY DEF Flush
<1>2. PtrTable'
  <2>1. block_ptrs' = block_ptrs
    BY DEF Flush
  <2>2. ASSUME NEW c \in TaggedCaches
        PROVE  tag_top'[c] = FirstTag \/ tag_top'[c] = tag_top[c]
    BY DEF Flush, TaggedCaches
  <2>3. ASSUME NEW c \in TaggedCaches PROVE tag_top'[c] - 1 <= Len(block_ptrs[c])
    <3>1. Len(block_ptrs[c]) \in Nat
      BY LenProperties DEF FindInv, PtrTable
    <3> QED
      BY <2>2, <3>1 DEF FindInv, PtrTable, FirstTag
  <2> QED
    BY <2>1, <2>3 DEF FindInv, PtrTable
<1>3. ChainsFit'
  <2> SUFFICES ASSUME NEW b \in 0 .. Buckets - 1,
                      NEW i \in 1 .. Len(rom_branch_hash'[b])
               PROVE  rom_branch_hash'[b][i].at < None
                      /\ Bucket(rom_branch_hash'[b][i].pc) = b
    BY DEF ChainsFit
  <2>1. rom_branch_hash'[b] # <<>>
    BY EmptySeq
  <2> QED
    BY <1>1, <2>1 DEF FindInv, ChainsFit
<1>4. \A c \in Caches : ptr'[c] = IF c \in caches THEN 0 ELSE ptr[c]
  BY DEF Flush
<1>5. ASSUME NEW g \in Frames, CellFits(Tables, g) PROVE CellFits(Tables', g)
  <2>1. Bucket(g.pc) \in 0 .. Buckets - 1
    BY BucketOf DEF Frames
  <2>2. Chain(Tables', g.pc) = <<>> \/ Chain(Tables', g.pc) = Chain(Tables, g.pc)
    BY <1>1, <2>1 DEF Chain, Tables
  <2> QED
    BY <1>5, <2>2 DEF CellFits
<1> QED
  BY <1>2, <1>3, <1>4, <1>5

LEMMA OverflowFinds ==
  ASSUME FindInv, Shape', Overflow
  PROVE  FindInv'
<1> DEFINE cache == CacheOf(Top.pc)
<1>1. /\ stack # <<>> /\ Top.phase = "emit"
      /\ Flush(Flushed(cache), Guarded(Top.pc), MinWith(Top.pc))
  BY DEF Overflow
<1>2. PICK f \in Frames : TopBecomes(f) /\ f.phase = "failed" /\ f.pc = Top.pc
                          /\ f.cell = Top.cell /\ f.at = Top.at
  BY StackMoves DEF FindInv
<1>3. /\ PtrTable' /\ ChainsFit'
      /\ \A c \in Caches : ptr'[c] = IF c \in Flushed(cache) THEN 0 ELSE ptr[c]
      /\ \A g \in Frames : CellFits(Tables, g) => CellFits(Tables', g)
  BY <1>1, FlushedTables
<1>4. Places' /\ ~ Emitting'
  BY <1>1, <1>2, <1>3, FailedPlaces
<1>5. PtrFits'
  <2> SUFFICES ASSUME NEW c \in Caches PROVE ptr'[c] <= Capacity[c]
    BY DEF PtrFits
  <2>1. CASE c = cache
    <3>1. ptr'[c] = 0
      BY <1>3, <2>1 DEF Flushed
    <3> QED
      BY <3>1, ProgramAssumption
  <2>2. CASE c # cache
    <3>1. ptr[c] <= Capacity[c] /\ Capacity[c] \in Nat
      BY <2>2, ProgramAssumption DEF FindInv, PtrFits
    <3> QED
      BY <1>3, <3>1
  <2> QED
    BY <2>1, <2>2
<1>6. EmitAt'
  BY <1>4 DEF EmitAt
<1> QED
  BY <1>3, <1>4, <1>5, <1>6 DEF FindInv

LEMMA OutsideFlushFinds ==
  ASSUME FindInv, Shape', stack = <<>>, UNCHANGED stack,
         NEW caches, NEW tags, NEW min, Flush(caches, tags, min)
  PROVE  FindInv'
<1>1. /\ PtrTable' /\ ChainsFit'
      /\ \A c \in Caches : ptr'[c] = IF c \in caches THEN 0 ELSE ptr[c]
  BY FlushedTables
<1>2. Places' /\ ~ Emitting'
  BY NoPlaces
<1>3. PtrFits'
  <2> SUFFICES ASSUME NEW c \in Caches PROVE ptr'[c] <= Capacity[c]
    BY DEF PtrFits
  <2>1. ptr[c] <= Capacity[c] /\ Capacity[c] \in Nat
    BY ProgramAssumption DEF FindInv, PtrFits, Emitting
  <2> QED
    BY <1>1, <2>1
<1>4. EmitAt'
  BY <1>2 DEF EmitAt
<1> QED
  BY <1>1, <1>2, <1>3, <1>4 DEF FindInv

LEMMA FindInvKept ==
  ASSUME FindInv, [Next]_vars
  PROVE  FindInv'
<1>0. Shape'
  BY ShapeKept DEF FindInv
<1>1. CASE \E pc \in Entries : Lookup(pc)
  BY <1>0, <1>1, LookupFinds
<1>2. CASE GiveUp \/ EnterTagged \/ EnterRom
  BY <1>0, <1>2, GiveUpFinds, EnterTaggedFinds, EnterRomFinds
<1>3. CASE Overflow \/ GateOverflow \/ Commit
  BY <1>0, <1>3, OverflowFinds, GateOverflowFinds, CommitFinds
<1>4. CASE Link \/ Recurse \/ Return \/ Unwind
  BY <1>0, <1>4, LinkFinds, RecurseFinds, ReturnFinds, UnwindFinds
<1>5. CASE Done
  <2>1. stack' = <<>> /\ ~ Emitting
        /\ UNCHANGED <<ptr, tag, tag_top, block_ptrs, rom_branch_hash>>
    BY <1>5 DEF Done, Emitting
  <2> QED
    BY <1>0, <2>1, NoFrames
<1>6. CASE (\E address \in Ewram \cup Iwram : StoreToCode(address)) \/ FlushAll
  <2>1. stack = <<>> /\ UNCHANGED stack
        /\ \E caches : Flush(caches, tag, code_min)
    BY <1>6 DEF StoreToCode, FlushAll
  <2> QED
    BY <1>0, <2>1, OutsideFlushFinds
<1>7. CASE UNCHANGED vars
  <2>1. UNCHANGED <<stack, ptr, tag, tag_top, block_ptrs, rom_branch_hash>>
    BY <1>7 DEF vars
  <2>2. Tables' = Tables /\ Top' = Top
    BY <2>1, SameTables DEF Top
  <2>3. Emitting' = Emitting
    BY <2>1, <2>2 DEF Emitting
  <2>4. PtrTable' /\ PtrFits' /\ EmitAt' /\ ChainsFit'
    BY <2>1, <2>2, <2>3 DEF FindInv, PtrTable, PtrFits, EmitAt, ChainsFit
  <2>5. Places'
    BY <2>1, <2>2
       DEF FindInv, Places, Nested, Cells, LinkFits, Held, Fresh
  <2> QED
    BY <1>0, <2>4, <2>5 DEF FindInv
<1> QED
  BY <1>1, <1>2, <1>3, <1>4, <1>5, <1>6, <1>7 DEF Next, Translate

LEMMA FindInvInit == Init => FindInv
<1> SUFFICES ASSUME Init PROVE FindInv
  OBVIOUS
<1>1. Shape
  BY ShapeInit
<1>2. stack = <<>> /\ Len(stack) = 0
  BY EmptySeq DEF Init
<1>3. Places /\ EmitAt
  BY <1>2 DEF Places, Nested, Cells, LinkFits, Held, Fresh, EmitAt, Emitting
<1>4. PtrTable
  <2>1. <<>> \in Seq(Nat) /\ Len(<<>>) = 0
    BY EmptySeq
  <2>2. block_ptrs = [c \in TaggedCaches |-> <<>>] /\ tag_top = [c \in TaggedCaches |-> 1]
    BY DEF Init, TaggedCaches, FirstTag
  <2> QED
    BY <2>1, <2>2 DEF PtrTable
<1>5. PtrFits
  BY ProgramAssumption DEF Init, PtrFits
<1>6. ChainsFit
  <2>1. \A b \in 0 .. Buckets - 1 : Len(rom_branch_hash[b]) = 0
    BY EmptySeq DEF Init
  <2> QED
    BY <2>1 DEF ChainsFit
<1> QED
  BY <1>1, <1>3, <1>4, <1>5, <1>6 DEF FindInv

(* The block that a lookup has just translated is what the next lookup of   *)
(* the same PC finds, whatever overflowed and however often the translation *)
(* started again, for every guest program: the tag or the hash entry that   *)
(* decides was made before the block was emitted, and every flush after     *)
(* that has made the lookup start again.                                    *)
THEOREM TranslationIsFound == Spec => TranslatedIsFound
<1>1. Init => FindInv
  BY FindInvInit
<1>2. FindInv /\ [Next]_vars => FindInv'
  BY FindInvKept
<1>3. FindInv /\ [Next]_vars =>
        [\A pc \in DOMAIN Program :
           Done /\ stack[1].pc = pc => Found(pc)' = stack[1].at]_vars
  <2> SUFFICES ASSUME FindInv, NEW pc \in DOMAIN Program, Done, stack[1].pc = pc
               PROVE  Found(pc)' = stack[1].at
    OBVIOUS
  <2>1. /\ Len(stack) = 1 /\ Top.phase = "link"
        /\ UNCHANGED <<tag, block_ptrs, rom_branch_hash>>
    BY DEF Done
  <2>2. 1 \in 1 .. Len(stack) /\ stack[1] = Top
    BY <2>1 DEF Top
  <2>3. stack[1].phase = "link" /\ Top.phase # "failed"
    BY <2>1, <2>2
  <2>4. Found(pc) = stack[1].at
    BY <2>2, <2>3, FramesFound
  <2>5. Found(pc)' = Found(pc)
    BY <2>1 DEF Found
  <2> QED
    BY <2>4, <2>5
<1> QED
  BY <1>1, <1>2, <1>3, PTL DEF Spec, TranslatedIsFound
-------------------------------------------------------------------------------
(* What is found is live, but for translations left unfinished.             *)

(* A frame waits for the block that its next exit leads to.                 *)
Waits(f, callee) ==
  f.next <= Len(Program[f.pc].exits) /\ callee = Program[f.pc].exits[f.next]

Nests == \A i \in 1 .. Len(stack) - 1 : Waits(stack[i], stack[i + 1].pc)

CodeAt ==
  \A p \in DOMAIN code :
    p[1] \in Caches /\ p = <<p[1], p[2]>> /\ p[2] \in Nat /\ p[2] < ptr[p[1]]

Ranges == code_min \in [Rams -> Nat] /\ code_max \in [Rams -> Nat]

(* The code made from a RAM lies in the range that a flush will clear.      *)
CodeInRange ==
  \A p \in DOMAIN code : \A m \in Rams :
    code[p].pc \in Memory(m) =>
      /\ code_min[m] <= code[p].pc
      /\ Program[code[p].pc].end <= code_max[m] /\ code_max[m] # None

FramesLive ==
  stack # <<>> /\ Top.phase # "failed" =>
    \A i \in 1 .. Len(stack) :
      stack[i].phase = "link" => LiveIn(code, stack[i].pc, stack[i].at)

IsTag(t) == t \notin {CLEAR, GUARD}

TagsLive ==
  \A pc \in Tagged :
    LET c  == CacheOf(pc)
        at == block_ptrs[c][tag[pc]]
    IN IsTag(tag[pc]) =>
         \/ pc \in unfinished
         \/ /\ pc \in DOMAIN Program /\ tag[pc] < tag_top[c]
            /\ LiveIn(code, pc, at)

EntryLive(e) ==
  /\ CacheOf(e.pc) = "rom"
  /\ e.pc \in unfinished \/ LiveIn(code, e.pc, e.at)

HashLive ==
  \A b \in 0 .. Buckets - 1 : \A i \in 1 .. Len(rom_branch_hash[b]) :
    EntryLive(rom_branch_hash[b][i])

(* The entry of a ROM block being emitted is the last of its chain.         *)
EmitLast ==
  Emitting /\ CacheOf(Top.pc) = "rom" =>
    Len(rom_branch_hash[Bucket(Top.pc)]) = Top.cell + 1

LiveParts ==
  Nests /\ CodeAt /\ Ranges /\ CodeInRange /\ FramesLive /\ TagsLive /\ HashLive
  /\ EmitLast

LiveInv == FindInv /\ LiveParts

LEMMA DivMonotone ==
  ASSUME NEW a \in Nat, NEW b \in Nat, NEW d \in Nat \ {0}, a <= b
  PROVE  a \div d <= b \div d
  OBVIOUS

LEMMA RangeIsCleared ==
  ASSUME Ranges, NEW min \in [Rams -> Nat], NEW m \in Rams, NEW a \in Memory(m),
         min[m] <= a, a < code_max[m], a < None
  PROVE  a \in ClearedRam(min)
<1>1. min[m] # None /\ min[m] \in Nat /\ code_max[m] \in Nat
  BY ProgramAssumption DEF None, Ranges, Memory
<1>2. a \in Nat
  BY ProgramAssumption DEF Memory
<1>3. CASE m = "ewram"
  <2> DEFINE lo == min["ewram"]
             hi == code_max["ewram"]
  <2>1. a \in Ewram /\ lo <= a /\ a < hi /\ lo \in Nat /\ hi \in Nat
    BY <1>1, <1>3 DEF Memory
  <2>2. /\ lo \div Page <= a \div Page /\ a \div Page <= hi \div Page
        /\ lo \div Page \in Int /\ a \div Page \in Int /\ hi \div Page \in Int
    BY <1>2, <2>1, DivMonotone, ProgramAssumption
  <2>3. a \in ClearedEwram(lo, hi)
    BY <2>1, <2>2 DEF ClearedEwram
  <2> QED
    BY <1>1, <1>3, <2>3 DEF ClearedRam
<1>4. CASE m = "iwram"
  BY <1>1, <1>4 DEF ClearedRam, ClearedIwram, Memory
<1> QED
  BY <1>3, <1>4 DEF Rams
LEMMA CacheOfRam ==
  ASSUME NEW m \in Rams, NEW a \in Memory(m)
  PROVE  CacheOf(a) = "ram" /\ a \in Ewram \cup Iwram /\ a \notin Bios
  BY ProgramAssumption DEF Rams, Memory, CacheOf

LEMMA TaggedCache ==
  ASSUME NEW a \in Tagged
  PROVE  /\ CacheOf(a) \in TaggedCaches /\ CacheOf(a) # "rom"
         /\ CacheOf(a) = "bios" => a \in Bios
         /\ CacheOf(a) = "ram" => \E m \in Rams : a \in Memory(m)
  BY DEF Tagged, CacheOf, TaggedCaches, Rams, Memory

(* A flush clears what it must: what keeps its tag keeps its code.          *)
FlushOK(caches, min) ==
  /\ min \in [Rams -> Nat]
  /\ \A m \in Rams : min[m] <= code_min[m]

LEMMA FlushClears ==
  ASSUME FindInv, CodeAt, Ranges, CodeInRange,
         NEW caches, NEW tags, NEW min, Flush(caches, tags, min),
         FlushOK(caches, min),
         NEW pc \in Tagged, NEW at, LiveIn(code, pc, at), IsTag(tag'[pc])
  PROVE  /\ tag'[pc] = tags[pc] /\ tag_top'[CacheOf(pc)] = tag_top[CacheOf(pc)]
         /\ LiveIn(code', pc, at)
<1> DEFINE p == <<CacheOf(pc), at>>
<1>1. p \in DOMAIN code /\ code[p].pc = pc /\ p[1] = CacheOf(pc)
  BY DEF LiveIn
<1>2. pc \in DOMAIN Program /\ pc \in Nat /\ pc < None
      /\ Program[pc].end \in Nat /\ pc < Program[pc].end
  <2>1. pc \in DOMAIN Program
    BY <1>1 DEF FindInv, Shape, BlocksOK
  <2>2. /\ pc \in Nat /\ Program[pc].end \in Nat
        /\ pc < Program[pc].end /\ Program[pc].end < None
    BY <2>1, ProgramAssumption
  <2> QED
    BY <2>1, <2>2 DEF None
<1>3. CacheOf(pc) \notin caches
  <2> SUFFICES ASSUME CacheOf(pc) \in caches PROVE FALSE
    OBVIOUS
  <2>1. CASE CacheOf(pc) = "bios"
    <3>1. tag'[pc] = CLEAR
      BY <2>1, TaggedCache DEF Flush
    <3> QED
      BY <3>1 DEF IsTag
  <2>2. CASE CacheOf(pc) = "ram"
    <3>1. PICK m \in Rams : pc \in Memory(m)
      BY <2>2, TaggedCache
    <3>2. code_min[m] <= pc /\ Program[pc].end <= code_max[m]
      BY <1>1, <3>1 DEF CodeInRange
    <3>3. /\ min[m] <= code_min[m] /\ code_min[m] \in Nat /\ min[m] \in Nat
          /\ code_max[m] \in Nat /\ min \in [Rams -> Nat]
      BY DEF FlushOK, Ranges
    <3>4. min[m] <= pc /\ pc < code_max[m]
      BY <1>2, <3>2, <3>3
    <3>5. pc \in ClearedRam(min)
      BY <1>2, <3>1, <3>3, <3>4, RangeIsCleared
    <3>6. tag'[pc] = CLEAR
      BY <2>2, <3>5 DEF Flush
    <3> QED
      BY <3>6 DEF IsTag
  <2> QED
    BY <2>1, <2>2, TaggedCache DEF TaggedCaches
<1>4. tag'[pc] = tags[pc]
  BY DEF Flush, IsTag
<1>5. tag_top'[CacheOf(pc)] = tag_top[CacheOf(pc)]
  BY <1>3, TaggedCache DEF Flush, TaggedCaches
<1>6. p \in DOMAIN code' /\ code'[p] = code[p]
  BY <1>1, <1>3 DEF Flush
<1> QED
  BY <1>1, <1>4, <1>5, <1>6 DEF LiveIn

LEMMA FlushRanges ==
  ASSUME FindInv, Shape', CodeAt, Ranges, CodeInRange,
         NEW caches, NEW tags, NEW min, Flush(caches, tags, min), FlushOK(caches, min)
  PROVE  CodeAt' /\ Ranges' /\ CodeInRange'
<1>1. \A p \in DOMAIN code' : p \in DOMAIN code /\ p[1] \notin caches /\ code'[p] = code[p]
  BY FlushedBlocks DEF FindInv, Shape
<1>2. CodeAt'
  <2> SUFFICES ASSUME NEW p \in DOMAIN code'
               PROVE  p[1] \in Caches /\ p = <<p[1], p[2]>> /\ p[2] \in Nat
                      /\ p[2] < ptr'[p[1]]
    BY DEF CodeAt
  <2>1. p[1] \in Caches /\ p = <<p[1], p[2]>> /\ p[2] \in Nat /\ p[2] < ptr[p[1]]
    BY <1>1 DEF CodeAt
  <2>2. ptr'[p[1]] = ptr[p[1]]
    BY <1>1, <2>1 DEF Flush
  <2> QED
    BY <2>1, <2>2
<1>3. Ranges'
  <2>1. None \in Nat
    BY DEF None
  <2> QED
    BY <2>1 DEF Ranges, Flush, FlushOK
<1>4. CodeInRange'
  <2> SUFFICES ASSUME NEW p \in DOMAIN code', NEW m \in Rams, code'[p].pc \in Memory(m)
               PROVE  code_min'[m] <= code'[p].pc /\ code_max'[m] # None
                      /\ Program[code'[p].pc].end <= code_max'[m]
    BY DEF CodeInRange
  <2>1. p \in DOMAIN code /\ code'[p] = code[p] /\ p[1] \notin caches
    BY <1>1
  <2>2. p[1] = "ram" /\ code[p].pc \in DOMAIN Program
    BY <2>1, CacheOfRam DEF FindInv, Shape, BlocksOK
  <2>3. code_min' = min /\ code_max' = code_max
    BY <2>1, <2>2 DEF Flush
  <2>4. code_min[m] <= code[p].pc /\ Program[code[p].pc].end <= code_max[m]
        /\ code_max[m] # None
    BY <2>1 DEF CodeInRange
  <2>5. min[m] <= code_min[m] /\ min[m] \in Nat /\ code_min[m] \in Nat
    BY DEF FlushOK, Ranges
  <2>6. code[p].pc \in Nat
    BY <2>2, ProgramAssumption
  <2> QED
    BY <2>1, <2>3, <2>4, <2>5, <2>6
<1> QED
  BY <1>2, <1>3, <1>4

(* What stays in the hash after a flush was there before, with its code.    *)
LEMMA FlushHash ==
  ASSUME FindInv, NEW caches, NEW tags, NEW min, Flush(caches, tags, min),
         NEW b \in 0 .. Buckets - 1, NEW i \in 1 .. Len(rom_branch_hash'[b])
  PROVE  /\ "rom" \notin caches /\ rom_branch_hash'[b] = rom_branch_hash[b]
         /\ \A pc, at : CacheOf(pc) = "rom" /\ LiveIn(code, pc, at) =>
                          LiveIn(code', pc, at)
<1>1. rom_branch_hash'[b] # <<>>
  BY EmptySeq
<1>2. "rom" \notin caches /\ rom_branch_hash'[b] = rom_branch_hash[b]
  BY <1>1 DEF Flush
<1>3. ASSUME NEW pc, NEW at, CacheOf(pc) = "rom", LiveIn(code, pc, at)
      PROVE  LiveIn(code', pc, at)
  <2> DEFINE p == <<CacheOf(pc), at>>
  <2>1. p \in DOMAIN code /\ code[p].pc = pc /\ p[1] = "rom"
    BY <1>3 DEF LiveIn
  <2>2. p \in DOMAIN code' /\ code'[p] = code[p]
    BY <1>2, <2>1 DEF Flush
  <2> QED
    BY <2>1, <2>2 DEF LiveIn
<1> QED
  BY <1>2, <1>3

LEMMA OutsideFlushLive ==
  ASSUME FindInv, Shape', LiveParts, stack = <<>>, UNCHANGED <<stack, unfinished>>,
         NEW caches, Flush(caches, tag, code_min)
  PROVE  LiveParts'
<1>1. FlushOK(caches, code_min)
  BY DEF LiveParts, Ranges, FlushOK
<1>2. CodeAt' /\ Ranges' /\ CodeInRange'
  BY <1>1, FlushRanges DEF LiveParts
<1>3. TagsLive'
  <2> SUFFICES ASSUME NEW pc \in Tagged, IsTag(tag'[pc]), pc \notin unfinished
               PROVE  /\ pc \in DOMAIN Program /\ tag'[pc] < tag_top'[CacheOf(pc)]
                      /\ LiveIn(code', pc, block_ptrs'[CacheOf(pc)][tag'[pc]])
    BY DEF TagsLive
  <2>1. tag'[pc] = tag[pc]
    BY DEF Flush, IsTag
  <2>2. /\ pc \in DOMAIN Program /\ tag[pc] < tag_top[CacheOf(pc)]
        /\ LiveIn(code, pc, block_ptrs[CacheOf(pc)][tag[pc]])
    BY <2>1 DEF LiveParts, TagsLive
  <2>3. /\ tag_top'[CacheOf(pc)] = tag_top[CacheOf(pc)]
        /\ LiveIn(code', pc, block_ptrs[CacheOf(pc)][tag[pc]])
    BY <1>1, <2>2, FlushClears DEF LiveParts
  <2>4. block_ptrs' = block_ptrs
    BY DEF Flush
  <2> QED
    BY <2>1, <2>2, <2>3, <2>4
<1>4. HashLive'
  <2> SUFFICES ASSUME NEW b \in 0 .. Buckets - 1,
                      NEW i \in 1 .. Len(rom_branch_hash'[b])
               PROVE  EntryLive(rom_branch_hash[b][i])'
    BY FlushHash DEF HashLive, EntryLive
  <2>1. PICK e : e = rom_branch_hash[b][i]
    OBVIOUS
  <2>2. rom_branch_hash'[b] = rom_branch_hash[b]
    BY FlushHash
  <2>3. CacheOf(e.pc) = "rom" /\ (e.pc \in unfinished \/ LiveIn(code, e.pc, e.at))
    BY <2>1, <2>2 DEF LiveParts, HashLive, EntryLive
  <2>4. e.pc \in unfinished' \/ LiveIn(code', e.pc, e.at)
    BY <2>3, FlushHash
  <2> QED
    BY <2>1, <2>2, <2>3, <2>4 DEF EntryLive
<1>5. Nests' /\ FramesLive' /\ EmitLast'
  BY EmptySeq DEF Nests, FramesLive, EmitLast, Emitting
<1> QED
  BY <1>2, <1>3, <1>4, <1>5 DEF LiveParts
-------------------------------------------------------------------------------
(* The steps that leave the tables alone. *)

SameBlocks ==
  DOMAIN code' = DOMAIN code /\ \A p \in DOMAIN code : code'[p].pc = code[p].pc

LEMMA SameBlocksLive ==
  ASSUME SameBlocks, NEW pc, NEW at, LiveIn(code, pc, at)
  PROVE  LiveIn(code', pc, at)
  BY DEF SameBlocks, LiveIn

LEMMA QuietLive ==
  ASSUME LiveParts, SameBlocks, ~ Emitting', Nests', FramesLive',
         UNCHANGED <<ptr, tag, tag_top, block_ptrs, rom_branch_hash,
                     code_min, code_max, unfinished>>
  PROVE  LiveParts'
<1>1. CodeAt' /\ Ranges' /\ CodeInRange'
  BY DEF LiveParts, SameBlocks, CodeAt, Ranges, CodeInRange
<1>2. TagsLive'
  <2> SUFFICES ASSUME NEW pc \in Tagged, IsTag(tag[pc]), pc \notin unfinished
               PROVE  /\ pc \in DOMAIN Program /\ tag[pc] < tag_top[CacheOf(pc)]
                      /\ LiveIn(code', pc, block_ptrs[CacheOf(pc)][tag[pc]])
    BY DEF TagsLive
  <2>1. /\ pc \in DOMAIN Program /\ tag[pc] < tag_top[CacheOf(pc)]
        /\ LiveIn(code, pc, block_ptrs[CacheOf(pc)][tag[pc]])
    BY DEF LiveParts, TagsLive
  <2> QED
    BY <2>1, SameBlocksLive
<1>3. HashLive'
  <2> SUFFICES ASSUME NEW b \in 0 .. Buckets - 1,
                      NEW i \in 1 .. Len(rom_branch_hash[b])
               PROVE  /\ CacheOf(rom_branch_hash[b][i].pc) = "rom"
                      /\ \/ rom_branch_hash[b][i].pc \in unfinished
                         \/ LiveIn(code', rom_branch_hash[b][i].pc,
                                   rom_branch_hash[b][i].at)
    BY DEF HashLive, EntryLive
  <2>1. PICK e : e = rom_branch_hash[b][i]
    OBVIOUS
  <2>2. CacheOf(e.pc) = "rom" /\ (e.pc \in unfinished \/ LiveIn(code, e.pc, e.at))
    BY <2>1 DEF LiveParts, HashLive, EntryLive
  <2>3. e.pc \in unfinished \/ LiveIn(code', e.pc, e.at)
    BY <2>2, SameBlocksLive
  <2> QED
    BY <2>1, <2>2, <2>3
<1>4. EmitLast'
  BY DEF EmitLast
<1> QED
  BY <1>1, <1>2, <1>3, <1>4 DEF LiveParts

(* The stack keeps its chain of calls while frames change and go. *)
LEMMA NestsMove ==
  ASSUME Nests, NEW n, NEW f, MovesTo(n, f), n <= Len(stack), Len(stack) \in Nat,
         f.pc = stack[n].pc
  PROVE  Nests'
<1>1. n \in Nat \ {0} /\ Len(stack') = n /\ stack'[n] = f
      /\ \A i \in 1 .. n - 1 : stack'[i] = stack[i]
  BY DEF MovesTo
<1>2. ASSUME NEW i \in 1 .. n PROVE stack'[i].pc = stack[i].pc
  <2>1. i = n \/ i \in 1 .. n - 1
    BY <1>1
  <2> QED
    BY <1>1, <2>1
<1> SUFFICES ASSUME NEW i \in 1 .. n - 1 PROVE Waits(stack'[i], stack'[i + 1].pc)
  BY <1>1 DEF Nests
<1>3. i + 1 \in 1 .. n /\ i \in 1 .. Len(stack) - 1
  BY <1>1
<1>4. Waits(stack[i], stack[i + 1].pc)
  BY <1>3 DEF Nests
<1> QED
  BY <1>1, <1>2, <1>3, <1>4

(* A new stack has live callers when the old one has. *)
LEMMA FramesLiveMove ==
  ASSUME NEW n, NEW f, MovesTo(n, f), stack' # <<>>, Top' = f,
         f.phase # "failed" =>
           \A i \in 1 .. n - 1 : LiveIn(code', stack[i].pc, stack[i].at),
         f.phase = "link" => LiveIn(code', f.pc, f.at)
  PROVE  FramesLive'
<1>1. n \in Nat \ {0} /\ Len(stack') = n /\ stack'[n] = f
      /\ \A i \in 1 .. n - 1 : stack'[i] = stack[i]
  BY DEF MovesTo
<1> SUFFICES ASSUME f.phase # "failed", NEW i \in 1 .. n, stack'[i].phase = "link"
             PROVE  LiveIn(code', stack'[i].pc, stack'[i].at)
  BY <1>1 DEF FramesLive
<1>2. CASE i = n
  BY <1>1, <1>2
<1>3. CASE i # n
  <2>1. i \in 1 .. n - 1
    BY <1>1, <1>3
  <2> QED
    BY <1>1, <2>1
<1> QED
  BY <1>2, <1>3

(* All callers of the innermost translation are live, unless it has failed. *)
LEMMA CallersLive ==
  ASSUME FindInv, FramesLive, stack # <<>>, Top.phase # "failed",
         NEW i \in 1 .. Len(stack) - 1
  PROVE  LiveIn(code, stack[i].pc, stack[i].at)
<1>1. Len(stack) \in Nat \ {0}
  BY TopFrame DEF FindInv, Shape
<1>2. i \in 1 .. Len(stack) /\ i # Len(stack)
  BY <1>1
<1>3. stack[i].phase = "link"
  BY <1>2, FramesAre
<1> QED
  BY <1>2, <1>3 DEF FramesLive

LEMMA UnchangedBlocks ==
  ASSUME UNCHANGED code
  PROVE  SameBlocks
  BY DEF SameBlocks

LEMMA NoStackLive ==
  ASSUME LiveParts, SameBlocks, stack' = <<>>,
         UNCHANGED <<ptr, tag, tag_top, block_ptrs, rom_branch_hash,
                     code_min, code_max, unfinished>>
  PROVE  LiveParts'
<1>1. Nests' /\ FramesLive' /\ ~ Emitting'
  BY EmptySeq DEF Nests, FramesLive, Emitting
<1> QED
  BY <1>1, QuietLive

LEMMA LookupLive ==
  ASSUME LiveParts, NEW pc \in Entries, Lookup(pc)
  PROVE  LiveParts'
<1>1. /\ stack = <<>> /\ SameBlocks
      /\ UNCHANGED <<ptr, tag, tag_top, block_ptrs, rom_branch_hash,
                     code_min, code_max, unfinished>>
  BY UnchangedBlocks DEF Lookup
<1>2. CASE stack' = <<>>
  BY <1>1, <1>2, NoStackLive
<1>3. CASE stack' # <<>>
  <2>1. stack' = <<Miss(pc)>> /\ Miss(pc).phase = "enter"
    BY <1>3 DEF Lookup, Miss
  <2>2. Nests' /\ FramesLive' /\ ~ Emitting'
    BY <2>1 DEF Nests, FramesLive, Emitting, Top
  <2> QED
    BY <1>1, <2>2, QuietLive
<1> QED
  BY <1>2, <1>3

LEMMA FailLive ==
  ASSUME FindInv, LiveParts, Len(stack) > 1, stack' = Fail,
         UNCHANGED <<ptr, tag, tag_top, block_ptrs, rom_branch_hash, code,
                     code_min, code_max, unfinished>>
  PROVE  LiveParts'
<1>1. PICK f \in Frames :
        Pops(f) /\ f = [stack[Len(stack) - 1] EXCEPT !.phase = "failed"]
  BY FailMoves DEF FindInv
<1>2. Len(stack) \in Nat \ {0, 1} /\ Len(stack) - 1 \in 1 .. Len(stack)
  BY <1>1 DEF Pops
<1> DEFINE n == Len(stack) - 1
<1>3. stack[n] \in Frames
  BY <1>2, FramesAre
<1>4. f.pc = stack[n].pc /\ f.phase = "failed"
  BY <1>1, <1>3 DEF Frames
<1>5. MovesTo(n, f)
  BY <1>1, PopMove DEF FindInv, Places
<1>6. n <= Len(stack) /\ Len(stack) \in Nat /\ n \in Nat \ {0}
  BY <1>2
<1> HIDE DEF n
<1>7. Nests'
  BY <1>4, <1>5, <1>6, NestsMove DEF LiveParts
<1>8. Top' = f
  BY <1>5 DEF MovesTo, Top
<1>9. FramesLive' /\ ~ Emitting'
  BY <1>4, <1>8 DEF FramesLive, Emitting
<1>10. SameBlocks
  BY UnchangedBlocks
<1> QED
  BY <1>7, <1>9, <1>10, QuietLive

LEMMA UnwindLive ==
  ASSUME FindInv, LiveParts, Unwind
  PROVE  LiveParts'
<1>1. /\ stack # <<>> /\ Top.phase = "failed"
      /\ UNCHANGED <<ptr, tag, tag_top, block_ptrs, rom_branch_hash, code,
                     code_min, code_max, unfinished>>
  BY DEF Unwind
<1>2. Len(stack) \in Nat \ {0} /\ stack \in Seq(Frames)
  BY <1>1, TopFrame DEF FindInv, Shape
<1>3. CASE Len(stack) = 1
  <2>1. stack' = [stack EXCEPT ![1].phase = "enter", ![1].next = 1]
    BY <1>3 DEF Unwind, Redo
  <2>2. stack[1] \in Frames
    BY <1>2, <1>3, ElementOfSeq
  <2> DEFINE f == [stack[1] EXCEPT !.phase = "enter", !.next = 1]
  <2>3. f.phase = "enter" /\ f.pc = stack[1].pc
    BY <2>2 DEF Frames
  <2>4. stack' = [stack EXCEPT ![Len(stack)] = f]
    BY <1>3, <2>1
  <2> HIDE DEF f
  <2>5. TopBecomes(f)
    BY <1>1, <1>2, <2>4, ReplacesTop
  <2>6. Len(stack') = 1 /\ stack'[1] = f
    BY <1>3, <2>5 DEF TopBecomes
  <2>7. stack' # <<>> /\ Top' = f
    BY <2>6, EmptySeq DEF Top
  <2>8. Nests' /\ FramesLive' /\ ~ Emitting'
    BY <2>3, <2>6, <2>7 DEF Nests, FramesLive, Emitting
  <2> QED
    BY <1>1, <2>8, QuietLive, UnchangedBlocks
<1>4. CASE Len(stack) > 1 /\ Len(stack) # 1
  <2>1. stack' = Fail
    BY <1>4 DEF Unwind
  <2> QED
    BY <1>1, <1>4, <2>1, FailLive
<1> QED
  BY <1>2, <1>3, <1>4, OneOrMore, Zenon

LEMMA GiveUpLive ==
  ASSUME FindInv, LiveParts, GiveUp
  PROVE  LiveParts'
<1>1. /\ stack # <<>>
      /\ UNCHANGED <<ptr, tag, tag_top, block_ptrs, rom_branch_hash, code,
                     code_min, code_max, unfinished>>
  BY DEF GiveUp
<1>2. Len(stack) \in Nat \ {0}
  BY <1>1, TopFrame DEF FindInv, Shape
<1>3. CASE Len(stack) = 1
  <2>1. stack' = <<>>
    BY <1>3 DEF GiveUp
  <2> QED
    BY <1>1, <2>1, NoStackLive, UnchangedBlocks
<1>4. CASE Len(stack) > 1 /\ Len(stack) # 1
  <2>1. stack' = Fail
    BY <1>4 DEF GiveUp
  <2> QED
    BY <1>1, <1>4, <2>1, FailLive
<1> QED
  BY <1>2, <1>3, <1>4, OneOrMore, Zenon

LEMMA LinkLive ==
  ASSUME FindInv, LiveParts, Link
  PROVE  LiveParts'
<1>1. /\ stack # <<>> /\ Top.phase = "link"
      /\ UNCHANGED <<ptr, tag, tag_top, block_ptrs, rom_branch_hash,
                     code_min, code_max, unfinished>>
  BY DEF Link
<1>2. SameBlocks
  BY PatchedBlocks DEF Link, SameBlocks, FindInv, Shape
<1>3. PICK f \in Frames : TopBecomes(f) /\ f = [Top EXCEPT !.next = Top.next + 1]
  BY StackMoves DEF FindInv
<1> DEFINE n == Len(stack)
<1>4. n \in Nat \ {0} /\ n \in 1 .. n /\ Top \in Frames /\ Top = stack[n]
  BY <1>1, TopFrame DEF FindInv, Shape, Top
<1>5. f.pc = stack[n].pc /\ f.phase = "link" /\ f.at = stack[n].at
  BY <1>1, <1>3, <1>4 DEF Frames
<1>6. MovesTo(n, f)
  BY <1>3, TopMove DEF FindInv, Places
<1>7. LiveIn(code', f.pc, f.at)
  <2>1. LiveIn(code, stack[n].pc, stack[n].at)
    BY <1>1, <1>4 DEF LiveParts, FramesLive
  <2> QED
    BY <1>2, <1>5, <2>1, SameBlocksLive
<1>8. \A i \in 1 .. n - 1 : LiveIn(code', stack[i].pc, stack[i].at)
  BY <1>1, <1>2, CallersLive, SameBlocksLive DEF LiveParts
<1>9. stack' # <<>> /\ Top' = f
  BY <1>4, <1>6, EmptySeq DEF MovesTo, Top
<1>10. Nests'
  BY <1>4, <1>5, <1>6, NestsMove DEF LiveParts
<1> HIDE DEF n
<1>11. FramesLive'
  BY <1>6, <1>7, <1>8, <1>9, FramesLiveMove
<1>12. ~ Emitting'
  BY <1>5, <1>9 DEF Emitting
<1> QED
  BY <1>1, <1>2, <1>10, <1>11, <1>12, QuietLive

LEMMA ReturnLive ==
  ASSUME FindInv, LiveParts, Return
  PROVE  LiveParts'
<1>1. /\ Len(stack) > 1 /\ Top.phase = "link"
      /\ UNCHANGED <<ptr, tag, tag_top, block_ptrs, rom_branch_hash,
                     code_min, code_max, unfinished>>
  BY DEF Return
<1>2. SameBlocks
  BY PatchedBlocks DEF Return, SameBlocks, FindInv, Shape
<1>3. PICK f \in Frames :
        Pops(f) /\ f = [stack[Len(stack) - 1] EXCEPT
                          !.next = stack[Len(stack) - 1].next + 1]
  BY ReturnMoves DEF FindInv
<1> DEFINE n == Len(stack) - 1
<1>4. /\ Len(stack) \in Nat \ {0, 1} /\ n \in 1 .. Len(stack) /\ n # Len(stack)
      /\ n \in Nat \ {0} /\ n \in 1 .. n /\ n <= Len(stack) /\ stack # <<>>
  BY <1>3, EmptySeq DEF Pops
<1>5. stack[n] \in Frames /\ stack[n].phase = "link"
  BY <1>4, FramesAre
<1>6. f.pc = stack[n].pc /\ f.phase = "link" /\ f.at = stack[n].at
  BY <1>3, <1>5 DEF Frames
<1>7. MovesTo(n, f)
  BY <1>3, PopMove DEF FindInv, Places
<1>8. \A i \in 1 .. n : LiveIn(code', stack[i].pc, stack[i].at)
  BY <1>1, <1>2, <1>4, CallersLive, SameBlocksLive DEF LiveParts
<1>9. stack' # <<>> /\ Top' = f
  BY <1>4, <1>7, EmptySeq DEF MovesTo, Top
<1>10. Nests'
  BY <1>4, <1>6, <1>7, NestsMove DEF LiveParts
<1>11. LiveIn(code', f.pc, f.at) /\ \A i \in 1 .. n - 1 : i \in 1 .. n
  BY <1>4, <1>6, <1>8
<1> HIDE DEF n
<1>12. FramesLive'
  BY <1>7, <1>8, <1>9, <1>11, FramesLiveMove
<1>13. ~ Emitting'
  BY <1>6, <1>9 DEF Emitting
<1> QED
  BY <1>1, <1>2, <1>10, <1>12, <1>13, QuietLive

LEMMA RecurseLive ==
  ASSUME FindInv, LiveParts, Recurse
  PROVE  LiveParts'
<1>1. /\ stack # <<>> /\ Top.phase = "link" /\ Top.next <= Len(Exits)
      /\ UNCHANGED <<ptr, tag, tag_top, block_ptrs, rom_branch_hash, code,
                     code_min, code_max, unfinished>>
  BY DEF Recurse
<1>2. Target \in DOMAIN Program /\ Pushes(Miss(Target))
  BY RecurseMoves DEF FindInv
<1>3. PICK f \in Frames : f = Miss(Target)
  BY <1>2, MissIsFrame DEF FindInv, Shape
<1>4. f.phase = "enter" /\ f.pc = Target
  BY <1>3 DEF Miss
<1> DEFINE m == Len(stack)
           n == m + 1
<1>5. m \in Nat \ {0} /\ Top \in Frames /\ Top = stack[m]
  BY <1>1, TopFrame DEF FindInv, Shape, Top
<1>6. MovesTo(n, f)
  BY <1>1, <1>2, <1>3, PushMove DEF FindInv, Places
<1>7. /\ Len(stack') = m + 1 /\ stack'[m + 1] = f
      /\ \A i \in 1 .. m : stack'[i] = stack[i]
  BY <1>2, <1>3 DEF Pushes
<1>8. stack' # <<>> /\ Top' = f
  BY <1>5, <1>7, EmptySeq DEF Top
<1>9. Waits(Top, Target)
  BY <1>1 DEF Waits, Target, Exits
<1>10. Nests'
  <2> SUFFICES ASSUME NEW i \in 1 .. m
               PROVE  Waits(stack'[i], stack'[i + 1].pc)
    BY <1>5, <1>7 DEF Nests
  <2>1. CASE i = m
    BY <1>4, <1>5, <1>7, <1>9, <2>1
  <2>2. CASE i # m
    <3>1. i \in 1 .. m - 1 /\ i + 1 \in 1 .. m
      BY <1>5, <2>2
    <3> QED
      BY <1>7, <3>1 DEF LiveParts, Nests
  <2> QED
    BY <2>1, <2>2
<1>11. \A i \in 1 .. n - 1 : LiveIn(code', stack[i].pc, stack[i].at)
  <2> SUFFICES ASSUME NEW i \in 1 .. m PROVE LiveIn(code, stack[i].pc, stack[i].at)
    BY <1>1, <1>5
  <2>1. stack[i].phase = "link"
    BY <1>1, <1>5, FramesAre
  <2> QED
    BY <1>1, <2>1 DEF LiveParts, FramesLive
<1> HIDE DEF m, n
<1>12. FramesLive'
  BY <1>4, <1>6, <1>8, <1>11, FramesLiveMove
<1>13. ~ Emitting'
  BY <1>4, <1>8 DEF Emitting
<1> QED
  BY <1>1, <1>10, <1>12, <1>13, QuietLive, UnchangedBlocks

LEMMA DoneLive ==
  ASSUME LiveParts, Done
  PROVE  LiveParts'
<1>1. /\ stack' = <<>>
      /\ UNCHANGED <<ptr, tag, tag_top, block_ptrs, rom_branch_hash, code,
                     code_min, code_max, unfinished>>
  BY DEF Done
<1> QED
  BY <1>1, NoStackLive, UnchangedBlocks

-------------------------------------------------------------------------------
(* The steps that change the tables. *)

LEMMA EnterTaggedLive ==
  ASSUME FindInv, LiveParts, EnterTagged
  PROVE  LiveParts'
<1> DEFINE cache == CacheOf(Top.pc)
           t == tag_top[cache]
           n == Len(stack)
           old == block_ptrs[cache]
           m == IF Len(old) < t THEN t ELSE Len(old)
           new == [i \in 1 .. m |-> IF i = t THEN ptr[cache] ELSE old[i]]
<1>1. /\ stack # <<>> /\ Top.phase = "enter" /\ cache # "rom"
      /\ tag' = [tag EXCEPT ![Top.pc] = t]
      /\ tag_top' = [tag_top EXCEPT ![cache] = t + 1]
      /\ block_ptrs' = [block_ptrs EXCEPT ![cache] = new]
      /\ unfinished' = unfinished \cup {Top.pc}
      /\ UNCHANGED <<ptr, rom_branch_hash, code, code_min, code_max>>
  BY DEF EnterTagged
<1>2. PICK f \in Frames : TopBecomes(f) /\ f.phase = "emit" /\ f.pc = Top.pc
  BY StackMoves DEF FindInv
<1>3. n \in Nat \ {0} /\ n \in 1 .. n /\ Top \in Frames /\ Top = stack[n]
      /\ Top.pc \in DOMAIN Program
  BY <1>1, TopFrame DEF FindInv, Shape, Frames, Top
<1>4. cache \in TaggedCaches /\ cache \in Caches /\ Top.pc \in Tagged
  BY <1>1 DEF CacheOf, TaggedCaches, Caches, Tagged
<1>5. t \in Nat \ {0} /\ Len(old) \in Nat
  BY <1>4, LenProperties DEF FindInv, Shape, PtrTable
<1>6. MovesTo(n, f)
  BY <1>2, TopMove DEF FindInv, Places
<1>7. stack' # <<>> /\ Top' = f
  BY <1>3, <1>6, EmptySeq DEF MovesTo, Top
<1>8. Nests'
  BY <1>2, <1>3, <1>6, NestsMove DEF LiveParts
<1>9. \A i \in 1 .. n - 1 : LiveIn(code', stack[i].pc, stack[i].at)
  BY <1>1, CallersLive DEF LiveParts
<1>10. FramesLive'
  <2> HIDE DEF n
  <2> QED
    BY <1>2, <1>6, <1>7, <1>9, FramesLiveMove
<1>11. TagsLive'
  <2> SUFFICES ASSUME NEW pc \in Tagged, IsTag(tag'[pc]), pc \notin unfinished'
               PROVE  /\ pc \in DOMAIN Program /\ tag'[pc] < tag_top'[CacheOf(pc)]
                      /\ LiveIn(code', pc, block_ptrs'[CacheOf(pc)][tag'[pc]])
    BY DEF TagsLive
  <2> DEFINE c == CacheOf(pc)
  <2>1. c \in TaggedCaches /\ pc # Top.pc /\ pc \notin unfinished
    BY <1>1, TaggedCache
  <2>2. tag'[pc] = tag[pc]
    BY <1>1, <2>1 DEF FindInv, Shape
  <2>3. /\ pc \in DOMAIN Program /\ tag[pc] < tag_top[c]
        /\ LiveIn(code, pc, block_ptrs[c][tag[pc]])
    BY <2>1, <2>2 DEF LiveParts, TagsLive
  <2>4. tag[pc] \in Nat \ {0} /\ tag_top[c] \in Nat
    BY <2>1, <2>2 DEF FindInv, Shape, Marks, IsTag, CLEAR
  <2>5. tag'[pc] < tag_top'[c] /\ block_ptrs'[c][tag'[pc]] = block_ptrs[c][tag[pc]]
    <3>1. CASE c = cache
      <4>1. tag_top'[c] = t + 1 /\ block_ptrs'[c] = new
        BY <1>1, <2>1, <3>1 DEF FindInv, Shape, PtrTable
      <4>2. tag[pc] \in 1 .. m /\ tag[pc] # t
        BY <1>5, <2>3, <2>4, <3>1
      <4>3. new[tag[pc]] = old[tag[pc]]
        BY <4>2
      <4>4. tag[pc] < t + 1
        BY <1>5, <2>3, <2>4, <3>1
      <4> HIDE DEF new, t
      <4> QED
        BY <2>2, <3>1, <4>1, <4>3, <4>4
    <3>2. CASE c # cache
      <4>1. tag_top'[c] = tag_top[c] /\ block_ptrs'[c] = block_ptrs[c]
        BY <1>1, <2>1, <3>2 DEF FindInv, Shape, PtrTable
      <4> QED
        BY <2>2, <2>3, <4>1
    <3> QED
      BY <3>1, <3>2
  <2> QED
    BY <1>1, <2>3, <2>5
<1>12. HashLive'
  BY <1>1 DEF LiveParts, HashLive, EntryLive
<1>13. CodeAt' /\ Ranges' /\ CodeInRange'
  BY <1>1 DEF LiveParts, CodeAt, Ranges, CodeInRange
<1>14. EmitLast'
  BY <1>1, <1>2, <1>7 DEF EmitLast
<1> QED
  BY <1>8, <1>10, <1>11, <1>12, <1>13, <1>14 DEF LiveParts

LEMMA EnterRomLive ==
  ASSUME FindInv, LiveParts, EnterRom
  PROVE  LiveParts'
<1> DEFINE b == Bucket(Top.pc)
           n == Len(stack)
<1>1. /\ stack # <<>> /\ Top.phase = "enter" /\ CacheOf(Top.pc) = "rom"
      /\ ptr' = [ptr EXCEPT !["rom"] = RomAt]
      /\ unfinished' = unfinished \cup {Top.pc}
      /\ UNCHANGED <<tag, tag_top, block_ptrs, code, code_min, code_max>>
  BY DEF EnterRom, RomAt
<1>2. PICK f \in Frames :
        /\ TopBecomes(f) /\ f.phase = "emit" /\ f.pc = Top.pc /\ f.cell = RomCell
  BY RomMoves DEF FindInv, RomCell, RomChain
<1>3. n \in Nat \ {0} /\ n \in 1 .. n /\ Top = stack[n]
  BY <1>1, TopFrame DEF FindInv, Shape, Top
<1>4. MovesTo(n, f)
  BY <1>2, TopMove DEF FindInv, Places
<1>5. stack' # <<>> /\ Top' = f
  BY <1>3, <1>4, EmptySeq DEF MovesTo, Top
<1>6. Nests'
  BY <1>2, <1>3, <1>4, NestsMove DEF LiveParts
<1>7. \A i \in 1 .. n - 1 : LiveIn(code', stack[i].pc, stack[i].at)
  BY <1>1, CallersLive DEF LiveParts
<1>8. FramesLive'
  <2> HIDE DEF n
  <2> QED
    BY <1>2, <1>4, <1>5, <1>7, FramesLiveMove
<1>9. TagsLive'
  BY <1>1 DEF LiveParts, TagsLive
<1>10. ASSUME NEW c \in 0 .. Buckets - 1, NEW i \in 1 .. Len(rom_branch_hash[c]),
              NEW e, e = rom_branch_hash[c][i]
       PROVE  CacheOf(e.pc) = "rom" /\ (e.pc \in unfinished' \/ LiveIn(code', e.pc, e.at))
  BY <1>1, <1>10 DEF LiveParts, HashLive, EntryLive
<1>11. HashLive'
  <2> SUFFICES ASSUME NEW c \in 0 .. Buckets - 1,
                      NEW i \in 1 .. Len(rom_branch_hash'[c]),
                      NEW e, e = rom_branch_hash'[c][i]
               PROVE  /\ CacheOf(e.pc) = "rom"
                      /\ e.pc \in unfinished' \/ LiveIn(code', e.pc, e.at)
    BY DEF HashLive, EntryLive
  <2>1. CASE c # b
    <3>1. rom_branch_hash'[c] = rom_branch_hash[c]
      BY <2>1, RomEntered
    <3> QED
      BY <1>10, <3>1
  <2>2. CASE c = b
    <3>1. i \in 1 .. RomCell + 1 /\ RomCell \in Nat
      BY <2>2, RomEntered
    <3>2. CASE i = RomCell + 1
      <4>1. e = [pc |-> Top.pc, at |-> RomAt]
        BY <2>2, <3>2, RomEntered
      <4> QED
        BY <1>1, <4>1
    <3>3. CASE i # RomCell + 1
      <4>1. i \in 1 .. RomCell
        BY <3>1, <3>3
      <4>2. e = RomChain[i] /\ i \in 1 .. Len(RomChain)
        BY <2>2, <4>1, RomEntered
      <4>3. RomChain = rom_branch_hash[c]
        BY <2>2 DEF RomChain
      <4> QED
        BY <1>10, <4>2, <4>3
    <3> QED
      BY <3>2, <3>3
  <2> QED
    BY <2>1, <2>2
<1>12. CodeAt'
  <2> SUFFICES ASSUME NEW p \in DOMAIN code PROVE p[2] < ptr'[p[1]]
    BY <1>1 DEF LiveParts, CodeAt
  <2>1. p[1] \in Caches /\ p[2] \in Nat /\ p[2] < ptr[p[1]] /\ ptr[p[1]] \in Nat
    BY DEF LiveParts, CodeAt, FindInv, Shape
  <2>2. ptr["rom"] \in Nat /\ Header \in Nat
    BY ProgramAssumption DEF FindInv, Shape, Caches
  <2>3. CASE p[1] = "rom"
    <3>1. ptr'[p[1]] = ptr["rom"] + Header
      BY <1>1, <2>1, <2>3 DEF FindInv, Shape, RomAt
    <3> QED
      BY <2>1, <2>2, <2>3, <3>1
  <2>4. CASE p[1] # "rom"
    BY <1>1, <2>1, <2>4 DEF FindInv, Shape
  <2> QED
    BY <2>3, <2>4
<1>13. Ranges' /\ CodeInRange'
  BY <1>1 DEF LiveParts, Ranges, CodeInRange
<1>14. EmitLast'
  <2>1. Len(rom_branch_hash'[b]) = RomCell + 1
    BY RomEntered
  <2> QED
    BY <1>2, <1>5, <2>1 DEF EmitLast
<1> QED
  BY <1>6, <1>8, <1>9, <1>11, <1>12, <1>13, <1>14 DEF LiveParts

LEMMA MinWithOK ==
  ASSUME Ranges, NEW pc \in DOMAIN Program
  PROVE  /\ FlushOK({}, MinWith(pc)) /\ MinWith(pc) \in [Rams -> Nat]
         /\ \A m \in Rams : MinWith(pc)[m] <= code_min[m]
         /\ \A m \in Rams : pc \in Memory(m) => MinWith(pc)[m] <= pc
<1>1. pc \in Nat /\ \A m \in Rams : code_min[m] \in Nat
  BY ProgramAssumption DEF Ranges
<1>2. \A m \in Rams : MinWith(pc)[m] =
        IF pc \in Memory(m) /\ pc < code_min[m] THEN pc ELSE code_min[m]
  BY DEF MinWith
<1>3. MinWith(pc) \in [Rams -> Nat]
  BY <1>1 DEF MinWith
<1> QED
  BY <1>1, <1>2, <1>3 DEF FlushOK

LEMMA MaxWithOK ==
  ASSUME Ranges, NEW pc \in DOMAIN Program
  PROVE  /\ MaxWith(pc) \in [Rams -> Nat]
         /\ \A m \in Rams : pc \in Memory(m) =>
              Program[pc].end <= MaxWith(pc)[m] /\ MaxWith(pc)[m] # None
         /\ \A m \in Rams : code_max[m] # None =>
              code_max[m] <= MaxWith(pc)[m] /\ MaxWith(pc)[m] # None
<1>1. /\ Program[pc].end \in Nat /\ Program[pc].end < None
      /\ \A m \in Rams : code_max[m] \in Nat
  BY ProgramAssumption DEF Ranges
<1>2. \A m \in Rams : MaxWith(pc)[m] =
        IF pc \in Memory(m)
           /\ (code_max[m] = None \/ code_max[m] < Program[pc].end)
        THEN Program[pc].end ELSE code_max[m]
  BY DEF MaxWith
<1>3. MaxWith(pc) \in [Rams -> Nat]
  BY <1>1 DEF MaxWith
<1> QED
  BY <1>1, <1>2, <1>3 DEF None
(* Marking a block neither makes a tag nor changes one. *)
LEMMA GuardedTag ==
  ASSUME NEW pc, NEW a \in Tagged, IsTag(Guarded(pc)[a])
  PROVE  Guarded(pc)[a] = tag[a]
  BY DEF Guarded, IsTag

(* The block being emitted goes to the end of its cache, beyond the code    *)
(* that is there, and its tag or its one entry leads to it.                 *)
LEMMA CommitBlocks ==
  ASSUME FindInv, LiveParts, Commit
  PROVE  LET here == <<CacheOf(Top.pc), Top.at>>
         IN /\ here \notin DOMAIN code
            /\ DOMAIN code' = DOMAIN code \cup {here}
            /\ code'[here].pc = Top.pc
            /\ \A i \in DOMAIN code'[here].links : code'[here].links[i] = None
            /\ \A p \in DOMAIN code : code'[p] = code[p]
            /\ \A pc, at : LiveIn(code, pc, at) => LiveIn(code', pc, at)
            /\ LiveIn(code', Top.pc, Top.at)
<1> DEFINE cache == CacheOf(Top.pc)
           here == <<cache, Top.at>>
           links == [i \in 1 .. Len(Program[Top.pc].exits) |-> None]
           block == [pc |-> Top.pc, links |-> links]
<1>1. /\ stack # <<>> /\ Top.phase = "emit"
      /\ code' = [p \in DOMAIN code \cup {here} |-> IF p = here THEN block ELSE code[p]]
  BY DEF Commit
<1>2. block.pc = Top.pc /\ \A i \in DOMAIN block.links : block.links[i] = None
  OBVIOUS
<1> HIDE DEF block
<1>3. here \notin DOMAIN code
  <2> SUFFICES ASSUME here \in DOMAIN code PROVE FALSE
    OBVIOUS
  <2>1. here[2] < ptr[here[1]] /\ here[1] = cache /\ here[2] = Top.at
    BY DEF LiveParts, CodeAt
  <2>2. Top.at = ptr[cache] /\ ptr[cache] \in Nat
    BY <1>1, Caching DEF FindInv, EmitAt, Emitting, Shape
  <2> HIDE DEF cache, here
  <2>3. ptr[cache] < ptr[cache]
    BY <2>1, <2>2
  <2> QED
    BY <2>2, <2>3
<1> HIDE DEF here
<1>4. /\ DOMAIN code' = DOMAIN code \cup {here} /\ code'[here] = block
      /\ \A p \in DOMAIN code : code'[p] = code[p]
  BY <1>1, <1>3
<1>5. ASSUME NEW pc, NEW at, LiveIn(code, pc, at)
      PROVE  LiveIn(code', pc, at)
  BY <1>4, <1>5 DEF LiveIn
<1>6. LiveIn(code', Top.pc, Top.at)
  BY <1>2, <1>4 DEF LiveIn, here
<1> QED
  BY <1>2, <1>3, <1>4, <1>5, <1>6 DEF here

LEMMA CommitFound ==
  ASSUME FindInv, LiveParts, Commit
  PROVE  /\ Top.pc \in Tagged =>
              /\ tag[Top.pc] < tag_top[CacheOf(Top.pc)]
              /\ block_ptrs[CacheOf(Top.pc)][tag[Top.pc]] = Top.at
         /\ \A b \in 0 .. Buckets - 1 : \A i \in 1 .. Len(rom_branch_hash[b]) :
              rom_branch_hash[b][i].pc = Top.pc => rom_branch_hash[b][i].at = Top.at
<1>1. stack # <<>> /\ Top.phase = "emit" /\ Emitting
  BY DEF Commit, Emitting
<1>2. Len(stack) \in 1 .. Len(stack) /\ Top = stack[Len(stack)] /\ Top \in Frames
  BY <1>1, TopFrame DEF FindInv, Shape, Top
<1>3. CellFits(Tables, Top) /\ Entered(Tables, Top)
  BY <1>1, <1>2, FramesAre
<1>4. ASSUME Top.pc \in Tagged
      PROVE  /\ tag[Top.pc] < tag_top[CacheOf(Top.pc)]
             /\ block_ptrs[CacheOf(Top.pc)][tag[Top.pc]] = Top.at
  <2>1. CacheOf(Top.pc) # "rom" /\ CacheOf(Top.pc) \in TaggedCaches
    BY <1>4, TaggedCache
  <2>2. tag[Top.pc] \in FirstTag .. tag_top[CacheOf(Top.pc)] - 1
        /\ block_ptrs[CacheOf(Top.pc)][tag[Top.pc]] = Top.at
    BY <1>3, <2>1, TablesAre DEF Entered
  <2>3. tag_top[CacheOf(Top.pc)] \in Nat
    BY <2>1 DEF FindInv, Shape
  <2> QED
    BY <2>2, <2>3 DEF FirstTag
<1>5. ASSUME NEW b \in 0 .. Buckets - 1, NEW i \in 1 .. Len(rom_branch_hash[b]),
             rom_branch_hash[b][i].pc = Top.pc
      PROVE  rom_branch_hash[b][i].at = Top.at
  <2> DEFINE chain == rom_branch_hash[b]
  <2>1. b = Bucket(Top.pc) /\ CacheOf(Top.pc) = "rom"
    BY <1>5 DEF FindInv, ChainsFit, LiveParts, HashLive, EntryLive
  <2>2. Chain(Tables, Top.pc) = chain
    BY <2>1, TablesAre DEF Chain
  <2>3. Len(chain) = Top.cell + 1 /\ Top.cell \in Nat
    BY <1>1, <1>2, <2>1 DEF LiveParts, EmitLast, Frames
  <2>4. chain[Top.cell + 1] = [pc |-> Top.pc, at |-> Top.at]
    BY <1>3, <2>1, <2>2 DEF Entered
  <2>5. chain # <<>>
    BY <2>3, EmptySeq
  <2>6. \A j \in 1 .. Top.cell : chain[j].pc # Top.pc
    BY <1>3, <2>1, <2>2, <2>5 DEF CellFits
  <2>7. i \in 1 .. Top.cell \/ i = Top.cell + 1
    BY <2>3
  <2> QED
    BY <1>5, <2>4, <2>6, <2>7
<1> QED
  BY <1>4, <1>5

LEMMA CommitLive ==
  ASSUME FindInv, LiveParts, Commit
  PROVE  LiveParts'
<1> DEFINE cache == CacheOf(Top.pc)
           n == Len(stack)
<1>1. /\ stack # <<>> /\ Top.phase = "emit"
      /\ tag' = Guarded(Top.pc)
      /\ code_min' = MinWith(Top.pc) /\ code_max' = MaxWith(Top.pc)
      /\ ptr' = [ptr EXCEPT ![cache] = BlockEnd]
      /\ unfinished' = unfinished \ {Top.pc}
      /\ UNCHANGED <<tag_top, block_ptrs, rom_branch_hash>>
  BY DEF Commit
<1>2. PICK f \in Frames : TopBecomes(f) /\ f = [Top EXCEPT !.phase = "link"]
  BY StackMoves DEF FindInv
<1>3. n \in Nat \ {0} /\ n \in 1 .. n /\ Top \in Frames /\ Top = stack[n]
      /\ Top.pc \in DOMAIN Program /\ Top.at \in Nat
  BY <1>1, TopFrame DEF FindInv, Shape, Frames, Top
<1>4. f.pc = stack[n].pc /\ f.phase = "link" /\ f.at = stack[n].at
  BY <1>2, <1>3 DEF Frames
<1>5. MovesTo(n, f)
  BY <1>2, TopMove DEF FindInv, Places
<1>6. stack' # <<>> /\ Top' = f
  BY <1>3, <1>5, EmptySeq DEF MovesTo, Top
<1>7. Nests'
  BY <1>3, <1>4, <1>5, NestsMove DEF LiveParts
<1>8. /\ DOMAIN code' = DOMAIN code \cup {<<cache, Top.at>>}
      /\ code'[<<cache, Top.at>>].pc = Top.pc
      /\ \A p \in DOMAIN code : code'[p] = code[p]
      /\ \A pc, at : LiveIn(code, pc, at) => LiveIn(code', pc, at)
      /\ LiveIn(code', Top.pc, Top.at)
  BY CommitBlocks
<1>9. \A i \in 1 .. n - 1 : LiveIn(code', stack[i].pc, stack[i].at)
  BY <1>1, <1>8, CallersLive DEF LiveParts
<1>10. LiveIn(code', f.pc, f.at)
  BY <1>3, <1>4, <1>8
<1>11. FramesLive' /\ EmitLast'
  <2> HIDE DEF n
  <2>1. FramesLive'
    BY <1>5, <1>6, <1>9, <1>10, FramesLiveMove
  <2>2. ~ Emitting'
    BY <1>4, <1>6 DEF Emitting
  <2> QED
    BY <2>1, <2>2 DEF EmitLast
<1>12. TagsLive'
  <2> SUFFICES ASSUME NEW pc \in Tagged, IsTag(tag'[pc]), pc \notin unfinished'
               PROVE  /\ pc \in DOMAIN Program /\ tag'[pc] < tag_top[CacheOf(pc)]
                      /\ LiveIn(code', pc, block_ptrs[CacheOf(pc)][tag'[pc]])
    BY <1>1 DEF TagsLive
  <2>1. tag'[pc] = tag[pc]
    BY <1>1, GuardedTag
  <2>2. CASE pc = Top.pc
    BY <1>3, <1>8, <2>1, <2>2, CommitFound
  <2>3. CASE pc # Top.pc
    BY <1>1, <1>8, <2>1, <2>3 DEF LiveParts, TagsLive
  <2> QED
    BY <2>2, <2>3
<1>13. HashLive'
  <2> SUFFICES ASSUME NEW b \in 0 .. Buckets - 1,
                      NEW i \in 1 .. Len(rom_branch_hash[b]),
                      NEW e, e = rom_branch_hash[b][i]
               PROVE  CacheOf(e.pc) = "rom" /\ (e.pc \in unfinished' \/ LiveIn(code', e.pc, e.at))
    BY <1>1 DEF HashLive, EntryLive
  <2>1. CacheOf(e.pc) = "rom" /\ (e.pc \in unfinished \/ LiveIn(code, e.pc, e.at))
    BY DEF LiveParts, HashLive, EntryLive
  <2>2. CASE e.pc = Top.pc
    <3>1. e.at = Top.at
      BY <2>2, CommitFound
    <3> QED
      BY <1>8, <2>1, <2>2, <3>1
  <2>3. CASE e.pc # Top.pc
    BY <1>1, <1>8, <2>1, <2>3
  <2> QED
    BY <2>2, <2>3
<1>14. /\ cache \in Caches /\ ptr[cache] \in Nat /\ BlockEnd \in Nat
       /\ Top.at < BlockEnd /\ Top.at = ptr[cache]
  <2>1. Program[Top.pc].body \in Nat \ {0} /\ Program[Top.pc].gate \in Nat
    BY <1>3, ProgramAssumption
  <2>2. Top.at = ptr[cache] /\ cache \in Caches /\ ptr[cache] \in Nat
    BY <1>1, Caching DEF FindInv, EmitAt, Emitting, Shape
  <2> QED
    BY <1>3, <2>1, <2>2 DEF BlockEnd, BodyEnd
<1>15. CodeAt'
  <2> SUFFICES ASSUME NEW p \in DOMAIN code'
               PROVE  p[1] \in Caches /\ p = <<p[1], p[2]>> /\ p[2] \in Nat
                      /\ p[2] < ptr'[p[1]]
    BY DEF CodeAt
  <2>1. CASE p = <<cache, Top.at>>
    <3>1. p[1] = cache /\ p[2] = Top.at /\ p = <<p[1], p[2]>>
      BY <2>1
    <3>2. ptr'[cache] = BlockEnd
      BY <1>1, <1>14 DEF FindInv, Shape
    <3> HIDE DEF cache
    <3> QED
      BY <1>3, <1>14, <3>1, <3>2
  <2>2. CASE p \in DOMAIN code
    <3>1. p[1] \in Caches /\ p = <<p[1], p[2]>> /\ p[2] \in Nat /\ p[2] < ptr[p[1]]
      BY <2>2 DEF LiveParts, CodeAt
    <3>2. CASE p[1] = cache
      <4>1. ptr'[p[1]] = BlockEnd /\ p[2] < ptr[cache]
        BY <1>1, <1>14, <3>1, <3>2 DEF FindInv, Shape
      <4> HIDE DEF cache
      <4>2. p[2] < BlockEnd
        BY <1>3, <1>14, <3>1, <4>1
      <4> QED
        BY <3>1, <4>1, <4>2
    <3>3. CASE p[1] # cache
      BY <1>1, <3>1, <3>3 DEF FindInv, Shape
    <3> QED
      BY <3>2, <3>3
  <2> QED
    BY <1>8, <2>1, <2>2
<1>16. Ranges'
  BY <1>1, <1>3, MinWithOK, MaxWithOK DEF Ranges, LiveParts
<1>17. CodeInRange'
  <2> SUFFICES ASSUME NEW p \in DOMAIN code', NEW m \in Rams, code'[p].pc \in Memory(m)
               PROVE  code_min'[m] <= code'[p].pc /\ code_max'[m] # None
                      /\ Program[code'[p].pc].end <= code_max'[m]
    BY DEF CodeInRange
  <2>1. CASE p = <<cache, Top.at>>
    <3>1. code'[p].pc = Top.pc
      BY <1>8, <2>1
    <3> QED
      BY <1>1, <1>3, <3>1, MinWithOK, MaxWithOK DEF LiveParts
  <2>2. CASE p \in DOMAIN code
    <3>1. code'[p] = code[p] /\ code[p].pc \in DOMAIN Program
      BY <1>8, <2>2 DEF FindInv, Shape, BlocksOK
    <3>2. /\ code_min[m] <= code[p].pc /\ code_max[m] # None
          /\ Program[code[p].pc].end <= code_max[m]
      BY <2>2, <3>1 DEF LiveParts, CodeInRange
    <3>3. code_min'[m] <= code_min[m] /\ code_max[m] <= code_max'[m]
          /\ code_max'[m] # None
      BY <1>1, <1>3, <3>2, MinWithOK, MaxWithOK DEF LiveParts
    <3>4. /\ code_min[m] \in Nat /\ code_min'[m] \in Nat
          /\ code_max[m] \in Nat /\ code_max'[m] \in Nat
      BY <1>16 DEF LiveParts, Ranges
    <3>5. code[p].pc \in Nat /\ Program[code[p].pc].end \in Nat
      BY <3>1, ProgramAssumption
    <3> QED
      BY <3>1, <3>2, <3>3, <3>4, <3>5
  <2> QED
    BY <1>8, <2>1, <2>2
<1> QED
  BY <1>7, <1>11, <1>12, <1>13, <1>15, <1>16, <1>17 DEF LiveParts

(* A translation that fails leaves its frame behind, to be unwound. *)
LEMMA FailedFrame ==
  ASSUME FindInv, Nests, stack # <<>>, stack' = Phase("failed")
  PROVE  Nests' /\ FramesLive' /\ EmitLast'
<1> DEFINE n == Len(stack)
           f == [Top EXCEPT !.phase = "failed"]
<1>1. n \in Nat \ {0} /\ n \in 1 .. n /\ Top \in Frames /\ Top = stack[n]
      /\ stack \in Seq(Frames)
  BY TopFrame DEF FindInv, Shape, Top
<1>2. f.pc = stack[n].pc /\ f.phase = "failed"
  BY <1>1 DEF Frames
<1>3. stack' = [stack EXCEPT ![n] = f]
  BY DEF Phase, Top
<1> HIDE DEF f
<1>4. TopBecomes(f)
  BY <1>1, <1>3, ReplacesTop
<1>5. MovesTo(n, f)
  BY <1>4, TopMove DEF FindInv, Places
<1>6. Nests'
  BY <1>1, <1>2, <1>5, NestsMove
<1>7. Top' = f
  BY <1>5 DEF MovesTo, Top
<1> QED
  BY <1>2, <1>6, <1>7 DEF FramesLive, EmitLast, Emitting

LEMMA GateOverflowLive ==
  ASSUME FindInv, LiveParts, GateOverflow
  PROVE  LiveParts'
<1>1. /\ stack # <<>> /\ stack' = Phase("failed")
      /\ tag' = Guarded(Top.pc) /\ code_min' = MinWith(Top.pc)
      /\ UNCHANGED <<ptr, tag_top, block_ptrs, rom_branch_hash, code_max, code,
                     unfinished>>
  BY DEF GateOverflow
<1>2. Top.pc \in DOMAIN Program
  BY <1>1, TopFrame DEF FindInv, Shape, Frames
<1>3. Nests' /\ FramesLive' /\ EmitLast'
  BY <1>1, FailedFrame DEF LiveParts
<1>4. TagsLive'
  <2> SUFFICES ASSUME NEW pc \in Tagged, IsTag(tag'[pc]), pc \notin unfinished
               PROVE  /\ pc \in DOMAIN Program /\ tag'[pc] < tag_top[CacheOf(pc)]
                      /\ LiveIn(code, pc, block_ptrs[CacheOf(pc)][tag'[pc]])
    BY <1>1 DEF TagsLive
  <2>1. tag'[pc] = tag[pc]
    BY <1>1, GuardedTag
  <2> QED
    BY <2>1 DEF LiveParts, TagsLive
<1>5. HashLive' /\ CodeAt'
  BY <1>1 DEF LiveParts, HashLive, EntryLive, CodeAt
<1>6. Ranges'
  BY <1>1, <1>2, MinWithOK DEF LiveParts, Ranges
<1>7. CodeInRange'
  <2> SUFFICES ASSUME NEW p \in DOMAIN code, NEW m \in Rams, code[p].pc \in Memory(m)
               PROVE  code_min'[m] <= code[p].pc
    BY <1>1 DEF LiveParts, CodeInRange
  <2>1. code_min[m] <= code[p].pc /\ code_min'[m] <= code_min[m]
    BY <1>1, <1>2, MinWithOK DEF LiveParts, CodeInRange
  <2>2. code_min[m] \in Nat /\ code_min'[m] \in Nat
    BY <1>6 DEF LiveParts, Ranges
  <2>3. code[p].pc \in Nat
    BY ProgramAssumption DEF FindInv, Shape, BlocksOK
  <2> QED
    BY <2>1, <2>2, <2>3
<1> QED
  BY <1>3, <1>4, <1>5, <1>6, <1>7 DEF LiveParts

LEMMA OverflowLive ==
  ASSUME FindInv, Shape', LiveParts, Overflow
  PROVE  LiveParts'
<1> DEFINE caches == Flushed(CacheOf(Top.pc))
           tags == Guarded(Top.pc)
           min == MinWith(Top.pc)
<1>1. /\ stack # <<>> /\ stack' = Phase("failed")
      /\ Flush(caches, tags, min) /\ UNCHANGED unfinished
  BY DEF Overflow
<1>2. Top.pc \in DOMAIN Program
  BY <1>1, TopFrame DEF FindInv, Shape, Frames
<1>3. Nests' /\ FramesLive' /\ EmitLast'
  BY <1>1, FailedFrame DEF LiveParts
<1>4. FlushOK(caches, min)
  BY <1>2, MinWithOK DEF LiveParts, FlushOK
<1> HIDE DEF min, caches
<1>5. CodeAt' /\ Ranges' /\ CodeInRange'
  BY <1>1, <1>4, FlushRanges DEF LiveParts
<1>6. TagsLive'
  <2> SUFFICES ASSUME NEW pc \in Tagged, IsTag(tag'[pc]), pc \notin unfinished
               PROVE  /\ pc \in DOMAIN Program /\ tag'[pc] < tag_top'[CacheOf(pc)]
                      /\ LiveIn(code', pc, block_ptrs'[CacheOf(pc)][tag'[pc]])
    BY <1>1 DEF TagsLive
  <2>1. tag'[pc] = tags[pc]
    BY <1>1 DEF Flush, IsTag
  <2>2. tags[pc] = tag[pc]
    BY <2>1, GuardedTag
  <2> DEFINE at == block_ptrs[CacheOf(pc)][tag[pc]]
  <2>3. /\ pc \in DOMAIN Program /\ tag[pc] < tag_top[CacheOf(pc)]
        /\ LiveIn(code, pc, at)
    BY <2>1, <2>2 DEF LiveParts, TagsLive
  <2>4. block_ptrs' = block_ptrs
    BY <1>1 DEF Flush
  <2> HIDE DEF at, tags
  <2>5. /\ tag_top'[CacheOf(pc)] = tag_top[CacheOf(pc)]
        /\ LiveIn(code', pc, at)
    BY <1>1, <1>4, <2>3, FlushClears DEF LiveParts
  <2> QED
    BY <2>1, <2>2, <2>3, <2>4, <2>5 DEF at
<1>7. HashLive'
  <2> SUFFICES ASSUME NEW b \in 0 .. Buckets - 1,
                      NEW i \in 1 .. Len(rom_branch_hash'[b]),
                      NEW e, e = rom_branch_hash'[b][i]
               PROVE  CacheOf(e.pc) = "rom" /\ (e.pc \in unfinished \/ LiveIn(code', e.pc, e.at))
    BY <1>1 DEF HashLive, EntryLive
  <2>1. rom_branch_hash'[b] = rom_branch_hash[b]
    BY <1>1, FlushHash
  <2>2. CacheOf(e.pc) = "rom" /\ (e.pc \in unfinished \/ LiveIn(code, e.pc, e.at))
    BY <2>1 DEF LiveParts, HashLive, EntryLive
  <2> QED
    BY <1>1, <2>2, FlushHash
<1> QED
  BY <1>3, <1>5, <1>6, <1>7 DEF LiveParts

LEMMA LiveInvKept ==
  ASSUME LiveInv, [Next]_vars
  PROVE  LiveInv'
<1>1. FindInv /\ LiveParts /\ FindInv' /\ Shape'
  BY FindInvKept DEF LiveInv, FindInv
<1> SUFFICES LiveParts'
  BY <1>1 DEF LiveInv
<1>2. CASE \E pc \in Entries : Lookup(pc)
  BY <1>1, <1>2, LookupLive
<1>3. CASE GiveUp
  BY <1>1, <1>3, GiveUpLive
<1>4. CASE EnterTagged \/ EnterRom
  BY <1>1, <1>4, EnterTaggedLive, EnterRomLive
<1>5. CASE Overflow \/ GateOverflow
  BY <1>1, <1>5, OverflowLive, GateOverflowLive
<1>6. CASE Commit \/ Link
  BY <1>1, <1>6, CommitLive, LinkLive
<1>7. CASE Recurse \/ Return
  BY <1>1, <1>7, RecurseLive, ReturnLive
<1>8. CASE Done \/ Unwind
  BY <1>1, <1>8, DoneLive, UnwindLive
<1>9. CASE (\E address \in Ewram \cup Iwram : StoreToCode(address)) \/ FlushAll
  <2>1. stack = <<>> /\ UNCHANGED <<stack, unfinished>>
        /\ \E caches : Flush(caches, tag, code_min)
    BY <1>9 DEF StoreToCode, FlushAll
  <2> QED
    BY <1>1, <2>1, OutsideFlushLive
<1>10. CASE UNCHANGED vars
  <2>1. UNCHANGED <<stack, ptr, tag, tag_top, block_ptrs, rom_branch_hash,
                    code_min, code_max, code, unfinished>>
    BY <1>10 DEF vars
  <2>2. Nests' /\ CodeAt' /\ Ranges' /\ CodeInRange' /\ FramesLive' /\ EmitLast'
    BY <1>1, <2>1 DEF LiveParts, Nests, CodeAt, Ranges, CodeInRange, FramesLive,
                      EmitLast, Emitting, Top
  <2>3. TagsLive' /\ HashLive'
    BY <1>1, <2>1 DEF LiveParts, TagsLive, HashLive, EntryLive
  <2> QED
    BY <2>2, <2>3 DEF LiveParts
<1> QED
  BY <1>2, <1>3, <1>4, <1>5, <1>6, <1>7, <1>8, <1>9, <1>10 DEF Next, Translate

LEMMA LiveInvInit == Init => LiveInv
<1> SUFFICES ASSUME Init PROVE LiveInv
  OBVIOUS
<1>1. FindInv
  BY FindInvInit
<1>2. stack = <<>> /\ Len(stack) = 0
  BY EmptySeq DEF Init
<1>3. Nests /\ FramesLive /\ EmitLast
  BY <1>2 DEF Nests, FramesLive, EmitLast, Emitting
<1>4. DOMAIN code = {}
  BY DEF Init
<1>5. CodeAt /\ CodeInRange
  BY <1>4 DEF CodeAt, CodeInRange
<1>6. Ranges
  BY DEF Init, Ranges, None
<1>7. TagsLive
  BY DEF Init, TagsLive, IsTag
<1>8. HashLive
  <2>1. \A b \in 0 .. Buckets - 1 : Len(rom_branch_hash[b]) = 0
    BY EmptySeq DEF Init
  <2> QED
    BY <2>1 DEF HashLive
<1> QED
  BY <1>1, <1>3, <1>5, <1>6, <1>7, <1>8 DEF LiveInv, LiveParts

(* What a tag or a hash entry leads to. *)
LEMMA FoundIsLive ==
  ASSUME LiveInv, NEW pc \in DOMAIN Program, Found(pc) # None
  PROVE  LiveIn(code, pc, Found(pc)) \/ pc \in unfinished
<1>1. FindInv /\ LiveParts
  BY DEF LiveInv
<1>2. CASE CacheOf(pc) # "rom"
  <2>1. pc \in Tagged
    BY <1>2 DEF CacheOf, Tagged
  <2>2. IsTag(tag[pc]) /\ Found(pc) = block_ptrs[CacheOf(pc)][tag[pc]]
    BY <1>2 DEF Found, IsTag
  <2> QED
    BY <1>1, <2>1, <2>2 DEF LiveParts, TagsLive
<1>3. CASE CacheOf(pc) = "rom"
  <2> DEFINE b == Bucket(pc)
             chain == rom_branch_hash[b]
             n == Position(chain, pc)
  <2>1. b \in 0 .. Buckets - 1
    BY BucketOf
  <2>2. n < Len(chain) /\ Found(pc) = chain[n + 1].at
    BY <1>3 DEF Found
  <2>3. chain \in Seq(Entry) /\ Len(chain) \in Nat
    BY <1>1, <2>1, LenProperties DEF FindInv, Shape
  <2>4. n + 1 \in 1 .. Len(chain) /\ chain[n + 1].pc = pc
    <3>1. \E i \in 1 .. Len(chain) : chain[i].pc = pc
      <4> SUFFICES ASSUME ~ \E i \in 1 .. Len(chain) : chain[i].pc = pc PROVE FALSE
        OBVIOUS
      <4>1. n = Len(chain)
        BY DEF Position
      <4> QED
        BY <2>2, <2>3, <4>1
    <3>2. PICK i \in 1 .. Len(chain) : chain[i].pc = pc
      BY <3>1
    <3> HIDE DEF chain
    <3>3. n \in 0 .. Len(chain) - 1 /\ chain[n + 1].pc = pc
      BY <2>3, <3>2, PositionIn
    <3> HIDE DEF n
    <3> QED
      BY <2>3, <3>3
  <2>5. EntryLive(chain[n + 1])
    BY <1>1, <2>1, <2>4 DEF LiveParts, HashLive
  <2> QED
    BY <2>2, <2>4, <2>5 DEF EntryLive
<1> QED
  BY <1>2, <1>3

(* For every guest program and every size of the caches: a tag or a hash    *)
(* entry that a lookup finds leads to the live translation of its PC,       *)
(* unless the last translation of that very PC failed.  After any number of *)
(* overflows, at any depth, and of flushes by stores, nothing that was      *)
(* completed has left a tag or an entry behind.                             *)
THEOREM StaleIsUnfinished == Spec => []OnlyUnfinishedAreStale
<1>1. Init => LiveInv
  BY LiveInvInit
<1>2. LiveInv /\ [Next]_vars => LiveInv'
  BY LiveInvKept
<1>3. LiveInv => OnlyUnfinishedAreStale
  BY FoundIsLive DEF OnlyUnfinishedAreStale, Live
<1> QED
  BY <1>1, <1>2, <1>3, PTL DEF Spec
-------------------------------------------------------------------------------
(* The links between the blocks. *)

(* What LinksStayLive says of one exit, with its target and its link named. *)
LinkKept(p, i, target, at) ==
  \/ at = None \/ ~ Near(code'[p].pc, target)
  \/ LiveIn(code', target, at) \/ target \in unfinished
  \/ p \in DOMAIN code /\ code[p].links[i] = at /\ ~ LiveIn(code, target, at)

LinksKept ==
  \A p \in DOMAIN code' : \A i \in DOMAIN code'[p].links :
    LinkKept(p, i, Program[code'[p].pc].exits[i], code'[p].links[i])

(* A step that takes no code away and leaves the link alone keeps it. *)
LEMMA SameLink ==
  ASSUME NEW p \in DOMAIN code, NEW i, NEW target, NEW at, code[p].links[i] = at,
         LiveIn(code, target, at) => LiveIn(code', target, at)
  PROVE  LinkKept(p, i, target, at)
  BY DEF LinkKept

LEMMA SameLinks ==
  ASSUME UNCHANGED code
  PROVE  LinksKept
  BY SameLink DEF LinksKept

(* Patching an exit with live code for its target. *)
LEMMA PatchLinks ==
  ASSUME BlocksOK, NEW p, NEW i, NEW at, code' = Patched(p, i, at),
         p \in DOMAIN code =>
           LET target == Program[code[p].pc].exits[i]
           IN LiveIn(code, target, at) \/ target \in unfinished
  PROVE  LinksKept
<1>1. /\ DOMAIN code' = DOMAIN code
      /\ \A q \in DOMAIN code : code'[q].pc = code[q].pc
  BY PatchedBlocks
<1>2. SameBlocks
  BY <1>1 DEF SameBlocks
<1> SUFFICES ASSUME NEW q \in DOMAIN code, NEW k \in DOMAIN code'[q].links,
                    NEW target, target = Program[code[q].pc].exits[k],
                    NEW l, l = code'[q].links[k]
             PROVE  LinkKept(q, k, target, l)
  BY <1>1 DEF LinksKept
<1>3. LiveIn(code, target, l) => LiveIn(code', target, l)
  BY <1>2, SameBlocksLive
<1> DEFINE b == code[q]
           m == [b.links EXCEPT ![i] = at]
<1>4. b = [pc |-> b.pc, links |-> b.links]
  BY DEF BlocksOK
<1>5. CASE q = p
  <2>1. code'[q] = [b EXCEPT !.links = m]
    BY <1>5 DEF Patched
  <2>2. code'[q].links = m
    <3> HIDE DEF b, m
    <3> QED
      BY <1>4, <2>1
  <2>3. k \in DOMAIN b.links
    BY <2>2
  <2>4. CASE k = i
    <3>1. l = at
      BY <2>2, <2>3, <2>4
    <3>2. LiveIn(code, target, at) \/ target \in unfinished
      BY <1>5, <2>4
    <3> QED
      BY <1>3, <3>1, <3>2 DEF LinkKept
  <2>5. CASE k # i
    <3>1. l = code[q].links[k]
      BY <2>2, <2>3, <2>5
    <3> QED
      BY <1>3, <3>1, SameLink
  <2> QED
    BY <2>4, <2>5
<1>6. CASE q # p
  <2>1. l = code[q].links[k]
    BY <1>6 DEF Patched
  <2> QED
    BY <1>3, <2>1, SameLink
<1> QED
  BY <1>5, <1>6

LEMMA LinkLinks ==
  ASSUME LiveInv, Link
  PROVE  LinksKept
<1> DEFINE p == <<CacheOf(Top.pc), Top.at>>
<1>1. /\ stack # <<>> /\ Top.phase = "link" /\ Top.next <= Len(Exits)
      /\ Found(Target) # None /\ code' = Patched(p, Top.next, Found(Target))
  BY DEF Link
<1>2. FindInv /\ LiveParts /\ BlocksOK
  BY DEF LiveInv, FindInv, Shape
<1>3. /\ Len(stack) \in 1 .. Len(stack) /\ Top = stack[Len(stack)] /\ Top \in Frames
  BY <1>1, <1>2, TopFrame DEF FindInv, Shape, Top
<1>4. LiveIn(code, Top.pc, Top.at)
  BY <1>1, <1>2, <1>3 DEF LiveParts, FramesLive
<1>5. code[p].pc = Top.pc
  BY <1>4 DEF LiveIn
<1>6. Target \in DOMAIN Program
  <2>1. Top.next \in Nat \ {0} /\ Top.pc \in DOMAIN Program
    BY <1>3 DEF Frames
  <2>2. Exits \in Seq(DOMAIN Program)
    BY <2>1, ProgramAssumption DEF Exits
  <2>3. Top.next \in 1 .. Len(Exits)
    BY <1>1, <2>1, <2>2, LenProperties
  <2> QED
    BY <2>2, <2>3, ElementOfSeq DEF Target
<1>7. LiveIn(code, Target, Found(Target)) \/ Target \in unfinished
  BY <1>1, <1>6, FoundIsLive
<1>8. Target = Program[code[p].pc].exits[Top.next]
  BY <1>5 DEF Target, Exits
<1> HIDE DEF p
<1> QED
  BY <1>1, <1>2, <1>7, <1>8, PatchLinks

LEMMA ReturnLinks ==
  ASSUME LiveInv, Return
  PROVE  LinksKept
<1> DEFINE n == Len(stack) - 1
           caller == stack[n]
           p == <<CacheOf(caller.pc), caller.at>>
<1>1. Len(stack) > 1 /\ Top.phase = "link" /\ code' = Patched(p, caller.next, Top.at)
  BY DEF Return
<1>2. FindInv /\ LiveParts /\ BlocksOK
  BY DEF LiveInv, FindInv, Shape
<1>3. stack \in Seq(Frames) /\ Len(stack) \in Nat
  BY <1>2, LenProperties DEF FindInv, Shape
<1>4. /\ n \in 1 .. Len(stack) - 1 /\ n + 1 = Len(stack) /\ stack # <<>>
      /\ Len(stack) \in 1 .. Len(stack) /\ Top = stack[n + 1]
  BY <1>1, <1>3, EmptySeq DEF Top
<1>5. LiveIn(code, Top.pc, Top.at)
  BY <1>1, <1>2, <1>4 DEF LiveParts, FramesLive
<1>6. LiveIn(code, caller.pc, caller.at)
  BY <1>1, <1>2, <1>4, CallersLive DEF LiveParts
<1>7. Waits(caller, Top.pc)
  BY <1>2, <1>4 DEF LiveParts, Nests
<1>8. Top.pc = Program[code[p].pc].exits[caller.next]
  BY <1>6, <1>7 DEF LiveIn, Waits
<1> HIDE DEF p, caller
<1> QED
  BY <1>1, <1>2, <1>5, <1>8, PatchLinks

LEMMA CommitLinks ==
  ASSUME LiveInv, Commit
  PROVE  LinksKept
<1> DEFINE here == <<CacheOf(Top.pc), Top.at>>
<1>1. FindInv /\ LiveParts
  BY DEF LiveInv
<1>2. /\ DOMAIN code' = DOMAIN code \cup {here}
      /\ \A i \in DOMAIN code'[here].links : code'[here].links[i] = None
      /\ \A p \in DOMAIN code : code'[p] = code[p]
      /\ \A pc, at : LiveIn(code, pc, at) => LiveIn(code', pc, at)
  BY <1>1, CommitBlocks
<1> HIDE DEF here
<1> SUFFICES ASSUME NEW p \in DOMAIN code', NEW i \in DOMAIN code'[p].links,
                    NEW target, NEW at, at = code'[p].links[i]
             PROVE  LinkKept(p, i, target, at)
  BY DEF LinksKept
<1>3. CASE p = here
  BY <1>2, <1>3 DEF LinkKept
<1>4. CASE p \in DOMAIN code
  BY <1>2, <1>4, SameLink
<1> QED
  BY <1>2, <1>3, <1>4

(* The caches that a flush takes: with the BIOS all of them go. *)
LEMMA FlushLinks ==
  ASSUME LiveInv, NEW caches, NEW tags, NEW min, Flush(caches, tags, min),
         "bios" \in caches => caches = Caches
  PROVE  LinksKept
<1>1. BlocksOK /\ CodeAt
  BY DEF LiveInv, LiveParts, FindInv, Shape
<1> SUFFICES ASSUME NEW p \in DOMAIN code', NEW i \in DOMAIN code'[p].links,
                    NEW target, NEW at, at = code'[p].links[i]
             PROVE  LinkKept(p, i, target, at)
  BY DEF LinksKept
<1>2. p \in DOMAIN code /\ p[1] \notin caches /\ code'[p] = code[p]
  BY <1>1, FlushedBlocks
<1>3. p[1] = CacheOf(code[p].pc) /\ p[1] \in Caches
  BY <1>1, <1>2 DEF BlocksOK, CodeAt
<1>4. CASE Near(code[p].pc, target)
  <2>1. CacheOf(target) \notin caches
    BY <1>2, <1>3, <1>4 DEF Near
  <2>2. ASSUME LiveIn(code, target, at) PROVE LiveIn(code', target, at)
    BY <2>1, <2>2 DEF LiveIn, Flush
  <2> QED
    BY <1>2, <2>2, SameLink
<1>5. CASE ~ Near(code[p].pc, target)
  BY <1>2, <1>5 DEF LinkKept
<1> QED
  BY <1>4, <1>5

LEMMA LinksKeptAlways ==
  ASSUME LiveInv, [Next]_vars
  PROVE  LinksKept
<1>1. CASE \/ \E pc \in Entries : Lookup(pc)
           \/ GiveUp \/ EnterTagged \/ EnterRom \/ GateOverflow \/ Recurse
           \/ Done \/ Unwind \/ UNCHANGED vars
  <2>1. UNCHANGED code
    BY <1>1 DEF Lookup, GiveUp, EnterTagged, EnterRom, GateOverflow, Recurse,
                Done, Unwind, vars
  <2> QED
    BY <2>1, SameLinks
<1>2. CASE Link
  BY <1>2, LinkLinks
<1>3. CASE Return
  BY <1>3, ReturnLinks
<1>4. CASE Commit
  BY <1>4, CommitLinks
<1>5. CASE Overflow
  <2> DEFINE caches == Flushed(CacheOf(Top.pc))
  <2>1. Flush(caches, Guarded(Top.pc), MinWith(Top.pc))
    BY <1>5 DEF Overflow
  <2>2. "bios" \in caches => caches = Caches
    BY DEF Flushed
  <2> HIDE DEF caches
  <2> QED
    BY <2>1, <2>2, FlushLinks
<1>6. CASE (\E address \in Ewram \cup Iwram : StoreToCode(address)) \/ FlushAll
  <2>1. Flush({"ram"}, tag, code_min) \/ Flush(Caches, tag, code_min)
    BY <1>6 DEF StoreToCode, FlushAll
  <2>2. "bios" \notin {"ram"}
    OBVIOUS
  <2> QED
    BY <2>1, <2>2, FlushLinks
<1> QED
  BY <1>1, <1>2, <1>3, <1>4, <1>5, <1>6 DEF Next, Translate

(* For every guest program and every size of the caches: an exit is patched *)
(* with live code for its target, or with what an attempt that failed left  *)
(* behind, and a link to live code stays one until its own block goes.      *)
(* Links to blocks that come later or earlier, overflows at any depth,      *)
(* retries and the fatal limit are all in; only a branch beyond the reach   *)
(* of a direct one is not.                                                  *)
THEOREM LinksAreKept == Spec => LinksStayLive
<1>1. Init => LiveInv
  BY LiveInvInit
<1>2. LiveInv /\ [Next]_vars => LiveInv'
  BY LiveInvKept
<1>3. LiveInv /\ [Next]_vars =>
        [\A p \in DOMAIN code' : \A i \in DOMAIN code'[p].links :
           LET at     == code'[p].links[i]
               target == Program[code'[p].pc].exits[i]
           IN \/ at = None \/ ~ Near(code'[p].pc, target)
              \/ LiveIn(code', target, at) \/ target \in unfinished
              \/ p \in DOMAIN code /\ code[p].links[i] = at
                 /\ ~ Live(target, at)]_vars
  BY LinksKeptAlways DEF LinksKept, LinkKept, Live
<1> QED
  BY <1>1, <1>2, <1>3, PTL DEF Spec, LinksStayLive
===============================================================================
