---------------------------- MODULE TranslationCache ----------------------------
(***************************************************************************)
(* The dynamic recompiler's block cache (cpu_threaded.c): looking up the    *)
(* translation of a guest PC, translating it on a miss, linking it to the   *)
(* blocks it branches to, which translates those in turn, and throwing a    *)
(* cache away when it overflows or when translated RAM is written.          *)
(*                                                                         *)
(* Everything runs on one thread.  The difficulty is the recursion: an      *)
(* overflow deep in a chain of links discards the callers' code too, and    *)
(* only the outermost lookup starts again.  The C stack of                  *)
(* block_lookup_address / translate_block is the variable stack.            *)
(*                                                                         *)
(* A guest address is a number; what is abstracted is the instructions: a   *)
(* block has an end, exits and a native size.  BIOS and RAM translations    *)
(* are found through tags kept beside the guest memory, ROM translations    *)
(* through a hash with chains.                                              *)
(***************************************************************************)
EXTENDS Integers, Sequences, FiniteSets

CONSTANTS
  Program,       (* guest code: by PC, [end, exits, body, gate]             *)
  Entries,       (* the PCs reached by indirect branches and interrupts     *)
  Ewram, Iwram,  (* the addresses of the two RAMs                           *)
  Bios,          (* those of the BIOS; the rest is ROM                      *)
  Page,          (* guest bytes of a page of EWRAM tags (0x8000)            *)
  Buckets,       (* ROM_BRANCH_HASH_SIZE                                    *)
  Capacity,      (* by cache, the largest offset a block may end at         *)
  Header,        (* size of a ROM block's hash entry                        *)
  RetryLimit,    (* translation_redo_attempts allowed (32)                  *)
  MaxFlushes     (* bound on flushes from outside (TLC)                     *)

VARIABLES
  stack,         (* the lookups in progress, outermost first                *)
  ptr,           (* by cache, its *_translation_ptr                         *)
  tag,           (* by address, what is beside it: CLEAR, GUARD or a tag    *)
  tag_top,       (* by tagged cache, its *_block_tag_top                    *)
  block_ptrs,    (* by tagged cache and tag, the native offset              *)
  rom_branch_hash,          (* by bucket, the chain of [pc, at]             *)
  code_min, code_max,       (* by RAM, the range that holds translated code *)
  code,          (* by <<cache, offset>>, the block whose code is there     *)
  attempts,      (* translation_redo_attempts                               *)
  flushed,       (* translation_flush_count # 0                             *)
  fatal,         (* stopped with "translation retry limit"                  *)
  flushes,       (* flushes from outside so far                             *)
  unfinished     (* history: the PCs whose last translation failed or goes on *)

vars == <<stack, ptr, tag, tag_top, block_ptrs, rom_branch_hash, code_min,
          code_max, code, attempts, flushed, fatal, flushes, unfinished>>

Caches == {"ram", "rom", "bios"}
Rams   == {"ewram", "iwram"}
Tagged == Ewram \cup Iwram \cup Bios
None   == \h10000000    (* 0xFFFFFFFF: no address, no translation *)
CLEAR  == 0
GUARD  == -1            (* 0xFFFF: translated, but no block starts here *)
FirstTag == 1           (* 0x0101; nothing stops the tags at 16 bits    *)

Memory(m) == IF m = "ewram" THEN Ewram ELSE Iwram

CacheOf(pc) == IF pc \in Ewram \cup Iwram THEN "ram"
               ELSE IF pc \in Bios THEN "bios" ELSE "rom"

(* The guest addresses a block covers. *)
Span(pc) == pc .. Program[pc].end - 1

Bucket(pc) == pc % Buckets

ASSUME ProgramAssumption ==
  /\ \A pc \in DOMAIN Program :
       /\ pc \in Nat /\ Program[pc].end \in Nat
       /\ pc < Program[pc].end /\ Program[pc].end < None
       /\ Program[pc].exits \in Seq(DOMAIN Program)
       /\ Program[pc].body \in Nat \ {0} /\ Program[pc].gate \in Nat
  /\ Entries \subseteq DOMAIN Program
  /\ Ewram \subseteq Nat /\ Iwram \subseteq Nat /\ Bios \subseteq Nat
  /\ Ewram \cap Iwram = {} /\ Bios \cap (Ewram \cup Iwram) = {}
  /\ Page \in Nat \ {0} /\ Buckets \in Nat \ {0} /\ RetryLimit \in Nat
  /\ MaxFlushes \in Nat
  /\ Capacity \in [Caches -> Nat] /\ Header \in Nat
  /\ \A c \in Caches : Capacity[c] + Header < None

(* Guest code in a RAM runs in the first mirror of it and stays short of    *)
(* its last address, so that the masks of a flush change no address of a    *)
(* block.  scan_block sees to it at the end of IWRAM (0x3007FF0) only: the  *)
(* other address it tests, 0x203FFFF0, lies beyond EWRAM.                   *)
ASSUME BlockAssumption ==
  \A pc \in DOMAIN Program : \A m \in Rams :
    pc \in Memory(m) => pc .. Program[pc].end \subseteq Memory(m)

Init ==
  /\ stack = <<>>
  /\ ptr = [c \in Caches |-> 0]
  /\ tag = [a \in Tagged |-> CLEAR]
  /\ tag_top = [c \in {"ram", "bios"} |-> FirstTag]
  /\ block_ptrs = [c \in {"ram", "bios"} |-> <<>>]
  /\ rom_branch_hash = [b \in 0 .. Buckets - 1 |-> <<>>]
  /\ code_min = [m \in Rams |-> None]
  /\ code_max = [m \in Rams |-> None]
  /\ code = <<>>
  /\ attempts = 0 /\ flushed = FALSE /\ fatal = FALSE /\ flushes = 0
  /\ unfinished = {}

-------------------------------------------------------------------------------
(* Flushing.  A flush takes the tags as they are at that moment, since      *)
(* translate_block may have changed them in the same step.                  *)

(* Mutant: the first page's tail and the last page's head keep their tags,  *)
(* as in the original code.                                                 *)
ClearedEwramOnce(min, max) ==
  IF min \div Page = max \div Page THEN {a \in Ewram : min <= a /\ a < max}
  ELSE {a \in Ewram : min \div Page < a \div Page /\ a \div Page < max \div Page}

(* The EWRAM addresses whose tags flush_translation_cache_ram zeroes, from  *)
(* min on and short of max.  Both are masked first, which makes the None of *)
(* a max not yet raised the last address, where no block reaches.           *)
ClearedEwram(min, max) ==
  IF min \div Page = max \div Page
  THEN {a \in Ewram : min <= a /\ a < max}
  ELSE {a \in Ewram : a \div Page = min \div Page /\ min <= a}
       \cup {a \in Ewram : min \div Page < a \div Page
                           /\ a \div Page < max \div Page}
       \cup {a \in Ewram : a \div Page = max \div Page /\ a < max}

(* The same in IWRAM. *)
ClearedIwram(min, max) == {a \in Iwram : min <= a /\ a < max}

ClearedRam(min) ==
  (IF min["ewram"] = None THEN {}
   ELSE ClearedEwram(min["ewram"], code_max["ewram"]))
  \cup (IF min["iwram"] = None THEN {}
        ELSE ClearedIwram(min["iwram"], code_max["iwram"]))

(* Mutant: a BIOS flush leaves the blocks that link to the BIOS.            *)
FlushedBiosOnly(cache) == {cache}

(* The caches that go when one overflows. *)
Flushed(cache) == IF cache = "bios" THEN Caches ELSE {cache}

(* Throw the given caches away.  block_ptrs keeps its old entries. *)
Flush(caches, tags, min) ==
  LET cleared == (IF "ram" \in caches THEN ClearedRam(min) ELSE {})
                 \cup (IF "bios" \in caches THEN Bios ELSE {})
  IN /\ ptr' = [c \in Caches |-> IF c \in caches THEN 0 ELSE ptr[c]]
     /\ tag' = [a \in Tagged |-> IF a \in cleared THEN CLEAR ELSE tags[a]]
     /\ tag_top' = [c \in {"ram", "bios"} |->
                      IF c \in caches THEN FirstTag ELSE tag_top[c]]
     /\ rom_branch_hash' = [b \in 0 .. Buckets - 1 |->
                              IF "rom" \in caches THEN <<>>
                              ELSE rom_branch_hash[b]]
     /\ code_min' = IF "ram" \in caches THEN [m \in Rams |-> None] ELSE min
     /\ code_max' = IF "ram" \in caches THEN [m \in Rams |-> None] ELSE code_max
     /\ code' = [p \in {q \in DOMAIN code : q[1] \notin caches} |-> code[p]]
     /\ UNCHANGED block_ptrs

-------------------------------------------------------------------------------
(* Looking up. *)

(* How many entries of a chain come before the one for this PC. *)
Position(chain, pc) ==
  IF \E i \in 1 .. Len(chain) : chain[i].pc = pc
  THEN (CHOOSE i \in 1 .. Len(chain) :
          chain[i].pc = pc /\ \A j \in 1 .. i - 1 : chain[j].pc # pc) - 1
  ELSE Len(chain)

(* The native offset a lookup finds for this PC, or None. *)
Found(pc) ==
  LET cache == CacheOf(pc)
      chain == rom_branch_hash[Bucket(pc)]
      n == Position(chain, pc)
  IN IF cache = "rom" THEN IF n < Len(chain) THEN chain[n + 1].at ELSE None
     ELSE IF tag[pc] \in {CLEAR, GUARD} THEN None
     ELSE block_ptrs[cache][tag[pc]]

Top == stack[Len(stack)]
Below == SubSeq(stack, 1, Len(stack) - 1)
Phase(phase) == [stack EXCEPT ![Len(stack)].phase = phase]

(* A lookup that missed: where in the chain its block will be linked, and   *)
(* the next exit to link once it is translated.                             *)
Miss(pc) == [pc |-> pc, phase |-> "enter", at |-> None, next |-> 1,
             cell |-> Len(rom_branch_hash[Bucket(pc)])]

(* The program branches to a PC that is not linked: block_lookup_address at *)
(* recursion level 0.                                                       *)
Lookup(pc) ==
  /\ stack = <<>> /\ ~fatal
  /\ flushed' = FALSE
  /\ stack' = IF Found(pc) = None THEN <<Miss(pc)>> ELSE <<>>
  /\ UNCHANGED <<ptr, tag, tag_top, block_ptrs, rom_branch_hash, code_min,
                 code_max, code, attempts, fatal, flushes, unfinished>>

(* A nested lookup returns NULL, so the caller's translate_block fails.     *)
Fail == [Below EXCEPT ![Len(Below)].phase = "failed"]

(* Too many attempts: a nested lookup fails, the outermost one is fatal.    *)
GiveUp ==
  /\ stack # <<>> /\ Top.phase = "enter"
  /\ CacheOf(Top.pc) # "rom" /\ attempts >= RetryLimit
  /\ attempts' = attempts + 1
  /\ fatal' = (Len(stack) = 1)
  /\ stack' = IF Len(stack) = 1 THEN <<>> ELSE Fail
  /\ UNCHANGED <<ptr, tag, tag_top, block_ptrs, rom_branch_hash, code_min,
                 code_max, code, flushed, flushes, unfinished>>

(* Tag the PC before its block is translated, so that a link back to it     *)
(* finds it.  An ARM block guards the address after its tag.                *)
EnterTagged ==
  LET cache == CacheOf(Top.pc)
      t == tag_top[cache]
  IN /\ stack # <<>> /\ Top.phase = "enter"
     /\ cache # "rom" /\ attempts < RetryLimit
     /\ attempts' = attempts + 1
     /\ tag' = [tag EXCEPT ![Top.pc] = t]
     /\ tag_top' = [tag_top EXCEPT ![cache] = t + 1]
     /\ block_ptrs' = [block_ptrs EXCEPT ![cache] =
          [i \in 1 .. (IF Len(@) < t THEN t ELSE Len(@)) |->
             IF i = t THEN ptr[cache] ELSE @[i]]]
     /\ stack' = [stack EXCEPT ![Len(stack)].phase = "emit",
                               ![Len(stack)].at = ptr[cache]]
     /\ unfinished' = unfinished \cup {Top.pc}
     /\ UNCHANGED <<ptr, rom_branch_hash, code_min, code_max, code,
                    flushed, fatal, flushes>>

(* Mutant: a retry after a flush links where the first attempt did, in the  *)
(* discarded cache.                                                         *)
StaleCell(chain, cell) == cell

(* Where the block is linked: relink from the bucket if a flush emptied it. *)
Cell(chain, cell) == IF chain = <<>> THEN 0 ELSE cell

(* Writing the link after n entries drops what followed; beyond the end of  *)
(* the chain it goes into a discarded cache.                                *)
Linked(chain, n, entry) ==
  IF n > Len(chain) THEN chain ELSE Append(SubSeq(chain, 1, n), entry)

EnterRom ==
  LET chain == rom_branch_hash[Bucket(Top.pc)]
      at == ptr["rom"] + Header
      cell == Cell(chain, Top.cell)
  IN /\ stack # <<>> /\ Top.phase = "enter"
     /\ CacheOf(Top.pc) = "rom"
     /\ rom_branch_hash' = [rom_branch_hash EXCEPT ![Bucket(Top.pc)] =
                              Linked(chain, cell, [pc |-> Top.pc, at |-> at])]
     /\ ptr' = [ptr EXCEPT !["rom"] = at]
     /\ stack' = [stack EXCEPT ![Len(stack)].phase = "emit",
                               ![Len(stack)].at = at,
                               ![Len(stack)].cell = cell]
     /\ unfinished' = unfinished \cup {Top.pc}
     /\ UNCHANGED <<tag, tag_top, block_ptrs, code_min, code_max, code,
                    attempts, flushed, fatal, flushes>>

-------------------------------------------------------------------------------
(* translate_block. *)

(* Mutant: only the start of a block is marked.                             *)
NotGuarded(pc) == tag

(* scan_block marks every instruction of a RAM block.                       *)
Guarded(pc) ==
  IF CacheOf(pc) # "ram" THEN tag
  ELSE [a \in Tagged |-> IF a \in Span(pc) /\ tag[a] = CLEAR THEN GUARD
                         ELSE tag[a]]

(* code_min is lowered when a translation starts... *)
MinWith(pc) == [m \in Rams |-> IF pc \in Memory(m) /\ pc < code_min[m] THEN pc
                               ELSE code_min[m]]

(* ... but code_max is raised only when it succeeds. *)
MaxWith(pc) ==
  [m \in Rams |-> IF pc \in Memory(m)
                     /\ (code_max[m] = None \/ code_max[m] < Program[pc].end)
                  THEN Program[pc].end ELSE code_max[m]]

Fits(cache, end) == end <= Capacity[cache]

BodyEnd == Top.at + Program[Top.pc].body
BlockEnd == BodyEnd + Program[Top.pc].gate

(* The cache overflows between two instructions: flush it and fail. *)
Overflow ==
  LET cache == CacheOf(Top.pc)
  IN /\ stack # <<>> /\ Top.phase = "emit"
     /\ ~Fits(cache, BodyEnd)
     /\ flushed' = TRUE
     /\ Flush(Flushed(cache), Guarded(Top.pc), MinWith(Top.pc))
     /\ stack' = Phase("failed")
     /\ UNCHANGED <<attempts, fatal, flushes, unfinished>>

(* The translation gate at its end takes a block over the limit: it fails   *)
(* without a flush.                                                         *)
GateOverflow ==
  LET cache == CacheOf(Top.pc)
  IN /\ stack # <<>> /\ Top.phase = "emit"
     /\ Fits(cache, BodyEnd) /\ ~Fits(cache, BlockEnd)
     /\ tag' = Guarded(Top.pc)
     /\ code_min' = MinWith(Top.pc)
     /\ stack' = Phase("failed")
     /\ UNCHANGED <<ptr, tag_top, block_ptrs, rom_branch_hash, code_max, code,
                    attempts, flushed, fatal, flushes, unfinished>>

(* The block is complete, except for its exits. *)
Commit ==
  LET cache == CacheOf(Top.pc)
      here == <<cache, Top.at>>
  IN /\ stack # <<>> /\ Top.phase = "emit"
     /\ Fits(cache, BlockEnd)
     /\ tag' = Guarded(Top.pc)
     /\ code_min' = MinWith(Top.pc) /\ code_max' = MaxWith(Top.pc)
     /\ ptr' = [ptr EXCEPT ![cache] = BlockEnd]
     /\ code' = [p \in DOMAIN code \cup {here} |->
                   IF p = here
                   THEN [pc |-> Top.pc,
                         links |-> [i \in 1 .. Len(Program[Top.pc].exits) |-> None]]
                   ELSE code[p]]
     /\ stack' = Phase("link")
     /\ unfinished' = unfinished \ {Top.pc}
     /\ UNCHANGED <<tag_top, block_ptrs, rom_branch_hash, attempts,
                    flushed, fatal, flushes>>

Exits == Program[Top.pc].exits
Target == Exits[Top.next]

(* Patch exit i of the block at p. *)
Patched(p, i, at) == [code EXCEPT ![p].links[i] = at]

(* The next exit leads to a block that is there. *)
Link ==
  /\ stack # <<>> /\ Top.phase = "link" /\ Top.next <= Len(Exits)
  /\ Found(Target) # None
  /\ code' = Patched(<<CacheOf(Top.pc), Top.at>>, Top.next, Found(Target))
  /\ stack' = [stack EXCEPT ![Len(stack)].next = @ + 1]
  /\ UNCHANGED <<ptr, tag, tag_top, block_ptrs, rom_branch_hash, code_min,
                 code_max, attempts, flushed, fatal, flushes, unfinished>>

(* It does not: a nested lookup. *)
Recurse ==
  /\ stack # <<>> /\ Top.phase = "link" /\ Top.next <= Len(Exits)
  /\ Found(Target) = None
  /\ stack' = Append(stack, Miss(Target))
  /\ UNCHANGED <<ptr, tag, tag_top, block_ptrs, rom_branch_hash, code_min,
                 code_max, code, attempts, flushed, fatal, flushes, unfinished>>

(* A nested lookup returns its block's address, which the caller patches in *)
Return ==
  /\ Len(stack) > 1 /\ Top.phase = "link" /\ Top.next > Len(Exits)
  /\ LET caller == stack[Len(stack) - 1]
     IN code' = Patched(<<CacheOf(caller.pc), caller.at>>, caller.next, Top.at)
  /\ stack' = [Below EXCEPT ![Len(Below)].next = @ + 1]
  /\ UNCHANGED <<ptr, tag, tag_top, block_ptrs, rom_branch_hash, code_min,
                 code_max, attempts, flushed, fatal, flushes, unfinished>>

(* The outermost lookup is done.  Only a BIOS or RAM block resets attempts. *)
Done ==
  /\ Len(stack) = 1 /\ Top.phase = "link" /\ Top.next > Len(Exits)
  /\ stack' = <<>>
  /\ attempts' = IF CacheOf(Top.pc) = "rom" THEN attempts ELSE 0
  /\ UNCHANGED <<ptr, tag, tag_top, block_ptrs, rom_branch_hash, code_min,
                 code_max, code, flushed, fatal, flushes, unfinished>>

(* Mutant: the retry goes on where the translation failed.                  *)
RedoEmit == "emit"

(* Where the outermost lookup starts again: before it tags or links. *)
Redo == "enter"

(* Failure goes up to the outermost lookup, which starts again. *)
Unwind ==
  /\ stack # <<>> /\ Top.phase = "failed"
  /\ stack' = IF Len(stack) = 1
              THEN [stack EXCEPT ![1].phase = Redo, ![1].next = 1]
              ELSE Fail
  /\ UNCHANGED <<ptr, tag, tag_top, block_ptrs, rom_branch_hash, code_min,
                 code_max, code, attempts, flushed, fatal, flushes, unfinished>>

-------------------------------------------------------------------------------
(* A store of the CPU, or a DMA, into guest RAM beside which there is a     *)
(* mark: translated code may have changed.                                  *)
StoreToCode(address) ==
  /\ stack = <<>> /\ ~fatal
  /\ tag[address] # CLEAR
  /\ Flush({"ram"}, tag, code_min)
  /\ UNCHANGED <<stack, attempts, flushed, fatal, flushes, unfinished>>

(* A savestate is loaded, or a cheat hook added: all three caches go. *)
FlushAll ==
  /\ stack = <<>> /\ ~fatal /\ flushes < MaxFlushes
  /\ flushes' = flushes + 1
  /\ Flush(Caches, tag, code_min)
  /\ UNCHANGED <<stack, attempts, flushed, fatal, unfinished>>

Translate ==
  \/ GiveUp \/ EnterTagged \/ EnterRom
  \/ Overflow \/ GateOverflow \/ Commit
  \/ Link \/ Recurse \/ Return \/ Done \/ Unwind

Next ==
  \/ \E pc \in Entries : Lookup(pc)
  \/ Translate
  \/ \E address \in Ewram \cup Iwram : StoreToCode(address)
  \/ FlushAll

Spec == Init /\ [][Next]_vars

(* The translator is sequential code: it goes on until the lookup returns.  *)
FairSpec == Spec /\ WF_vars(Translate)

-------------------------------------------------------------------------------
(* Native code for this PC, still in its cache. *)
LiveIn(blocks, pc, at) ==
  /\ <<CacheOf(pc), at>> \in DOMAIN blocks
  /\ blocks[<<CacheOf(pc), at>>].pc = pc

Live(pc, at) == LiveIn(code, pc, at)

(* HIGH_IMPACT_FIXES.md, Phase 12: no tag or hash entry survives a flush    *)
(* that took its code.  Whatever a lookup finds without translating is the  *)
(* live translation of the PC it was asked for.  FALSE for the code: the    *)
(* tag of a block that overflowed above code_max stays.                     *)
NoStaleTag ==
  stack = <<>> /\ ~fatal =>
    \A pc \in DOMAIN Program : Found(pc) # None => Live(pc, Found(pc))

Callees(pc) == {Program[pc].exits[k] : k \in 1 .. Len(Program[pc].exits)}

(* What NoStaleTag needs: the blocks that link to the PC make it sure that  *)
(* its tag lies below code_max as soon as they are translated.  It starts   *)
(* before their end in the same RAM, and ends in no translation gate.       *)
CalledInRange(pc) ==
  \A caller \in DOMAIN Program : pc \in Callees(caller) =>
    /\ Program[pc].gate = 0
    /\ \A m \in Rams : pc \in Memory(m) =>
         caller \in Memory(m) /\ pc < Program[caller].end

(* So far NoStaleTag is true: what is called in range is never found stale, *)
(* whatever else the program does, calls out of range and gates included.   *)
InRangeIsLive ==
  stack = <<>> /\ ~fatal => \A pc \in DOMAIN Program :
    CalledInRange(pc) /\ Found(pc) # None => Live(pc, Found(pc))

(* Whatever the program, a lookup that finds something stale finds it for a *)
(* PC whose own last translation failed and was never completed: a block    *)
(* that was completed is lost together with its tag or its hash entry, in   *)
(* whatever order blocks of the three caches overflow, are retried, stored  *)
(* into and flushed.                                                        *)
OnlyUnfinishedAreStale ==
  stack = <<>> => \A pc \in DOMAIN Program :
    Found(pc) # None => Live(pc, Found(pc)) \/ pc \in unfinished

(* A direct branch reaches 32MB: from a block to its own cache and the BIOS. *)
Near(caller, callee) == CacheOf(callee) \in {CacheOf(caller), "bios"}

(* Whatever the program, no step makes a link in a cached block lead        *)
(* anywhere but to live code for its target, by patching it or by taking    *)
(* that code away, unless the target was left unfinished: a flush that      *)
(* throws code away throws away the blocks that jump there.                 *)
LinksStayLive ==
  [][\A p \in DOMAIN code' : \A i \in DOMAIN code'[p].links :
       LET at     == code'[p].links[i]
           target == Program[code'[p].pc].exits[i]
       IN \/ at = None \/ ~ Near(code'[p].pc, target)
          \/ LiveIn(code', target, at) \/ target \in unfinished
          \/ p \in DOMAIN code /\ code[p].links[i] = at /\ ~ Live(target, at)]_vars

(* Blocks jump to each other without a lookup: every exit of every block    *)
(* that stays in a cache is patched, and to live code for its target, once  *)
(* the lookup that translated it has returned; where a direct branch        *)
(* reaches the target and it is called in range.                            *)
LinksAreLive ==
  stack = <<>> /\ ~fatal =>
    \A p \in DOMAIN code : \A i \in DOMAIN code[p].links :
      LET target == Program[code[p].pc].exits[i]
      IN Near(code[p].pc, target) /\ CalledInRange(target)
         => Live(target, code[p].links[i])

(* Self-modifying code is always noticed: there is a mark beside every byte *)
(* of RAM that translated code was made from, through partial flushes,      *)
(* failed attempts and overlapping blocks.                                  *)
CodeIsGuarded ==
  \A p \in DOMAIN code :
    p[1] = "ram" => \A a \in Span(code[p].pc) : tag[a] # CLEAR

(* The block just translated can be found again: a lookup that returned     *)
(* leaves its PC, and nothing else decides, in the tag or in the hash.      *)
TranslatedIsFound ==
  [][\A pc \in DOMAIN Program :
       Done /\ stack[1].pc = pc => Found(pc)' = stack[1].at]_vars

(* The PCs from which no chain of exits reaches a translation gate. *)
Gateless ==
  LET Within[n \in Nat] ==
        IF n = 0 THEN {pc \in DOMAIN Program : Program[pc].gate = 0}
        ELSE LET closer == Within[n - 1]
             IN {pc \in closer : Callees(pc) \subseteq closer}
  IN Within[Cardinality(DOMAIN Program)]

(* A lookup ends with the block translated, through any number of           *)
(* overflows, and never with the fatal retry limit, where no gate is        *)
(* reached: also in the midst of blocks that are never translated.  (What   *)
(* it calls must fit the caches and need no more attempts than there are.)  *)
LookupReturns ==
  (stack # <<>> /\ stack[1].pc \in Gateless) ~> (stack = <<>> /\ ~fatal)

===============================================================================
