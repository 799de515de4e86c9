------------------------------ MODULE JitCache ------------------------------
(***************************************************************************)
(* The cache of compiled blocks of the console core (ARMJIT.cpp): which    *)
(* machine code runs when one of the two CPUs jumps to an address, and     *)
(* what a write to memory does to it.  A block is indexed four times: by   *)
(* the address it starts at (JitBlocks9, JitBlocks7), by the ranges of     *)
(* memory it was made from (AddressRange), by the place of its first       *)
(* instruction (FastBlockLookup) and, once out of date, by the hash of its *)
(* instructions, in case the same code comes back (RestoreCandidates).     *)
(*                                                                         *)
(* Memory is one executable region of a few words.  A hash is the value    *)
(* hashed.  Everything runs on the emulator thread.                        *)
(***************************************************************************)
EXTENDS Naturals, Sequences, FiniteSets, Functions

CONSTANTS
  WORDS,     \* words of the region
  RANGE,     \* words of an AddressRange (512 bytes)
  PAGE,      \* words of a page of the host
  Keys,      \* where the CPUs jump, and the code that may be found there: how
             \* far it goes and what it loads depends on the branches it takes
  MaxEvents, \* bound: how often memory is remapped, a block writes to itself, one
             \* trusts again, for want of memory, a literal it should not, or one
             \* is restored that is the other CPU's or went another way through
             \* the same words (at most once: blocks are told apart by what is
             \* in them)
  NoKey, NoBlock, NoJob

Cpus == {k.cpu : k \in Keys}

\* A key is a CPU and an address, as in the maps: what is at an address is run
\* in one instruction set, ARM or Thumb, which the maps do not tell apart.
ASSUME RegionAssumption ==
  /\ WORDS \in Nat \ {0} /\ RANGE \in Nat \ {0} /\ PAGE \in Nat \ {0}
  /\ \A k \in Keys : k.start \in Nat
  /\ \A k \in Keys : \A c \in k.codes :
       /\ c.body \in Seq(Nat) \ {<<>>} /\ c.literal \in Seq(Nat)
       /\ Head(c.body) = k.start
  /\ \A j, k \in Keys : j.cpu = k.cpu /\ j.start = k.start => j = k
  /\ MaxEvents \in {0, 1} /\ NoKey \notin Keys /\ NoKey \notin {0, 1}

VARIABLES
  memory, bank,     \* the words, and which half of the region comes first
  pages,            \* MappingStatus of the pages (fast memory)
  blocks,           \* JitBlocks9 and JitBlocks7
  ranges, code,     \* AddressRange.Blocks and AddressRange.Code
  lookup,           \* FastBlockLookup
  candidates,       \* RestoreCandidates
  invalidLiterals,  \* InvalidLiterals
  window,           \* FastBlockLookupStart and Size of each CPU: the bank they are for
  pc, job,          \* the jump under way; the block being compiled
  freed,            \* ghost: deleted blocks that something still points to
  events

index     == <<blocks, ranges, code, lookup, candidates, invalidLiterals, freed>>
cacheVars == <<index, pages>>
cpuVars   == <<window, pc, job>>
vars      == <<memory, bank, cacheVars, cpuVars, events>>

Words    == 0..WORDS-1
Values   == {0, 1}
RangeOf(w) == w \div RANGE
PageOf(w)  == w \div PAGE
Ranges   == {RangeOf(w) : w \in Words}
Pages    == {PageOf(w) : w \in Words}

\* A range of 512 bytes lies in one page.
ASSUME PageAssumption ==
  \A v, w \in Words : RangeOf(v) = RangeOf(w) => PageOf(v) = PageOf(w)

\* LocaliseAddress: mirrors, and the banks of the shared RAM.
LocaliseIn(b, addr) == (addr + b * (WORDS \div 2)) % WORDS
Localise(addr)      == LocaliseIn(bank, addr)
LocaliseAll(s)      == [i \in DOMAIN s |-> Localise(s[i])]
Read(s)             == [i \in DOMAIN s |-> memory[Localise(s[i])]]
Start(k)            == Localise(k.start)
LiteralPlaces(c)    == Range(LocaliseAll(c.literal))

\* A JitBlock: where its instructions and its trusted literals were, what they
\* were, and the literals that its machine code holds.  A job has the places of
\* all its literals, trusted or not.
Literals == UNION {[S -> Values] : S \in SUBSET Words}
Block == [key : Keys, local : Words, instrs : Seq(Values), places : Seq(Words),
          values : Literals, embedded : Literals]
Job   == [local : Words, instrs : Seq(Values), places : Seq(Words),
          literals : SUBSET Words, values : Literals, stored : SUBSET Words]

ASSUME NoneAssumption == NoBlock \notin Block /\ NoJob \notin Job

RangeOfStart(b) == {RangeOf(b.local)}

\* AddressRanges and AddressMasks, of a block or a job.
Masks(b)    == Range(b.places) \union DOMAIN b.values
RangesOf(b) == {RangeOf(w) : w \in Masks(b)}
PageContainsCode(p) == \E w \in Words : PageOf(w) = p /\ ranges[RangeOf(w)] # {}

Live == {blocks[k] : k \in Keys} \ {NoBlock}

NoEntry == [tag |-> NoKey, block |-> NoBlock]

TypeOK ==
  /\ memory \in [Words -> Values] /\ bank \in {0, 1}
  /\ pages \in [Pages -> {"unmapped", "rw", "protected"}]
  /\ blocks \in [Keys -> Block \union {NoBlock}]
  /\ ranges \in [Ranges -> SUBSET Block]
  /\ code \in [Ranges -> SUBSET Words]
  /\ lookup \in [Words -> [tag : Keys \union {NoKey}, block : Block \union {NoBlock}]]
  /\ candidates \subseteq Block /\ freed \subseteq Block
  /\ \A b, c \in candidates : b.instrs = c.instrs => b = c
  /\ invalidLiterals \subseteq Words
  /\ window \in [Cpus -> {NoKey, 0, 1}]
  /\ pc \in Keys \union {NoKey} /\ job \in Job \union {NoJob}
  /\ job # NoJob => pc # NoKey
  /\ events \in 0..MaxEvents

Init ==
  /\ memory = [w \in Words |-> 0] /\ bank = 0
  /\ pages = [p \in Pages |-> "unmapped"]
  /\ blocks = [k \in Keys |-> NoBlock]
  /\ ranges = [r \in Ranges |-> {}] /\ code = [r \in Ranges |-> {}]
  /\ lookup = [w \in Words |-> NoEntry]
  /\ candidates = {} /\ invalidLiterals = {}
  /\ window = [c \in Cpus |-> NoKey]
  /\ pc = NoKey /\ job = NoJob
  /\ freed = {} /\ events = 0

-----------------------------------------------------------------------------
(* Blocks that go out of date.                                             *)

\* What still points to a block after this step.
Referenced == candidates' \union (UNION Range(ranges'))
              \union ({blocks'[k] : k \in Keys} \ {NoBlock})

\* RetireJitBlock, for each block of a set in some order: one block is kept
\* for each hash, and the others, and the one kept before, are deleted.
RetireJitBlocks(retired, deleted) ==
  LET hashes   == {b.instrs : b \in retired}
      replaced == {c \in candidates : c.instrs \in hashes}
  IN \E kept \in [hashes -> retired] :
       /\ \A h \in hashes : kept[h].instrs = h
       /\ candidates' = (candidates \ replaced) \union Range(kept)
       /\ freed' = Referenced \intersect
            (freed \union deleted \union replaced \union (retired \ Range(kept)))

\* InvalidateByAddr.  Every block of the range goes: the mask of the write is
\* shadowed by the mask of the block.
InvalidateByAddr(w) ==
  LET doomed  == ranges[RangeOf(w)]
      deleted == {b \in doomed : w \in DOMAIN b.values}
  IN /\ ranges' = [r \in Ranges |-> ranges[r] \ doomed]
     /\ code' = [r \in Ranges |->
          IF r = RangeOf(w) \/ (ranges[r] # {} /\ ranges'[r] = {}) THEN {} ELSE code[r]]
     /\ lookup' = [x \in Words |->
          IF \E b \in doomed : b.local = x THEN NoEntry ELSE lookup[x]]
     /\ blocks' = [k \in Keys |->
          IF \E b \in doomed : b.key = k THEN NoBlock ELSE blocks[k]]
     /\ invalidLiterals' = invalidLiterals \union (IF deleted = {} THEN {} ELSE {w})
     /\ pages' = [p \in Pages |->
          IF pages[p] = "protected" /\ PageContainsCode(p) /\ ~PageContainsCode(p)'
          THEN "rw" ELSE pages[p]]
     /\ RetireJitBlocks(doomed \ deleted, deleted)

CheckAndInvalidate(w) ==
  IF w \in code[RangeOf(w)] THEN InvalidateByAddr(w) ELSE UNCHANGED cacheVars

\* What a reset leaves; ranges are emptied by way of the blocks in the maps.
Cleared(r) == \E b \in Live : r \in RangesOf(b)

-----------------------------------------------------------------------------
(* The CPUs: Execute, LookUpBlock, CompileBlock.                           *)

\* A CPU goes on at k; its window is set up if its last one was elsewhere.
Jump(k) ==
  /\ pc = NoKey
  /\ pc' = k
  /\ \E b \in {bank} \union ({window[k.cpu]} \ {NoKey}) :
       window' = [window EXCEPT ![k.cpu] = b]
  /\ UNCHANGED <<memory, bank, cacheVars, job, events>>

\* The CPUs run code of other regions.
Leave ==
  /\ pc = NoKey
  /\ window' = [c \in Cpus |-> NoKey]
  /\ UNCHANGED <<memory, bank, cacheVars, pc, job, events>>

\* The entry that a CPU sees through its window.
Entry(k) == lookup[LocaliseIn(window[k.cpu], k.start)]
Hit(k)   == Entry(k).tag = k

Dispatch ==
  /\ pc # NoKey /\ job = NoJob /\ Hit(pc)
  /\ pc' = NoKey
  /\ UNCHANGED <<memory, bank, cacheVars, window, job, events>>

SwitchEntryOnly ==
  /\ pc # NoKey /\ job = NoJob /\ ~Hit(pc)
  /\ blocks[pc] # NoBlock /\ blocks[pc].local = Start(pc)
  /\ lookup' = [lookup EXCEPT ![Start(pc)].block = blocks[pc]]
  /\ UNCHANGED <<memory, bank, blocks, ranges, code, candidates, invalidLiterals, freed,
                 pages, cpuVars, events>>

\* "there's already a block, though it's not inside the fast map"
Switch ==
  /\ pc # NoKey /\ job = NoJob /\ ~Hit(pc)
  /\ blocks[pc] # NoBlock /\ blocks[pc].local = Start(pc)
  /\ lookup' = [lookup EXCEPT ![Start(pc)] = [tag |-> pc, block |-> blocks[pc]]]
  /\ UNCHANGED <<memory, bank, blocks, ranges, code, candidates, invalidLiterals, freed,
                 pages, cpuVars, events>>

\* The first half of CompileBlock: the code is fetched, two words ahead of
\* its execution, and run by the interpreter, along static branches and past
\* those not taken.
Fetch ==
  /\ pc # NoKey /\ job = NoJob /\ ~Hit(pc)
  /\ \/ blocks[pc] = NoBlock /\ UNCHANGED index
     \/ /\ blocks[pc] # NoBlock /\ blocks[pc].local # Start(pc)
        /\ blocks' = [blocks EXCEPT ![pc] = NoBlock]
        /\ UNCHANGED <<ranges, code, lookup, invalidLiterals>>
        /\ RetireJitBlocks({blocks[pc]}, {})
  /\ \E c \in pc.codes :
       job' = [local    |-> Start(pc),
               instrs   |-> Read(c.body),
               places   |-> LocaliseAll(c.body),
               literals |-> LiteralPlaces(c),
               values   |-> [w \in LiteralPlaces(c) \ invalidLiterals |-> memory[w]],
               stored   |-> {}]
  /\ UNCHANGED <<memory, bank, pages, window, pc, events>>

ComparableWithoutLiterals(c) ==
  /\ c.instrs = job.instrs
  /\ c.key.start = pc.start
  /\ Masks(c) = Masks(job)

\* What is compared of an old block: its masks tell which words its code was in,
\* not in which order.
Comparable(c) ==
  /\ c.instrs = job.instrs
  /\ c.key.start = pc.start
  /\ c.values = job.values /\ Masks(c) = Masks(job)

Restorable(c) == Comparable(c) /\ c.places = job.places

\* The block compiled from the job; the literals are read once more.
NewBlock(invalid) ==
  [key |-> pc, local |-> job.local, instrs |-> job.instrs, places |-> job.places,
   values |-> job.values,
   embedded |-> [w \in job.literals \ invalid |-> memory[w]]]

RegisterBlock(b, cleared) ==
  /\ ranges' = [r \in Ranges |->
       (IF cleared /\ Cleared(r) THEN {} ELSE ranges[r])
       \union (IF r \in RangesOf(b) THEN {b} ELSE {})]
  /\ code' = [r \in Ranges |->
       (IF cleared /\ Cleared(r) THEN {} ELSE code[r])
       \union {w \in Masks(b) : RangeOf(w) = r}]
  /\ blocks' = [k \in Keys |-> IF k = pc THEN b ELSE IF cleared THEN NoBlock ELSE blocks[k]]
  /\ lookup' = [w \in Words |->
       IF w = job.local THEN [tag |-> pc, block |-> b] ELSE IF cleared THEN NoEntry ELSE lookup[w]]
  /\ pages' = [p \in Pages |->
       IF cleared THEN "unmapped"
       ELSE IF pages[p] = "rw" /\ ~PageContainsCode(p) /\ \E w \in Masks(b) : PageOf(w) = p
       THEN "protected" ELSE pages[p]]
  /\ pc' = NoKey /\ job' = NoJob
  /\ UNCHANGED <<memory, bank, window>>

\* A literal that the block itself stores to is not to be trusted again.
KnownInvalid == invalidLiterals \union job.stored

\* The second half of CompileBlock: an old block restored, or a new one made.
\* The old one may have been the other CPU's, which is an event: it will not be
\* found in the map that it is in.  So is one that found the same instructions
\* along another way through the same words; whether it is taken is up to the
\* order of its ranges.
Restore ==
  /\ job # NoJob
  /\ \E c \in candidates :
       /\ Comparable(c)
       /\ candidates' = candidates \ {c}
       /\ RegisterBlock(c, FALSE)
       /\ IF c.key = pc /\ c.places = job.places THEN UNCHANGED events
          ELSE events < MaxEvents /\ events' = events + 1
  /\ invalidLiterals' = KnownInvalid
  /\ freed' = freed \intersect Referenced

Compile ==
  /\ job # NoJob
  /\ ~\E c \in candidates : Restorable(c)
  /\ candidates' = {c \in candidates : c.instrs # job.instrs}
  /\ RegisterBlock(NewBlock(KnownInvalid), FALSE)
  /\ invalidLiterals' = KnownInvalid
  /\ freed' = (freed \union (candidates \ candidates')) \intersect Referenced
  /\ UNCHANGED events

\* The memory for machine code is full: all is forgotten but the new block,
\* also which literals were not to be trusted when it was fetched.  An event,
\* if the block has such a one: it holds a literal that is not in its masks.
CompileAfterReset ==
  /\ job # NoJob
  /\ ~\E c \in candidates : Restorable(c)
  /\ IF job.literals \subseteq DOMAIN job.values THEN UNCHANGED events
     ELSE events < MaxEvents /\ events' = events + 1
  /\ candidates' = {} /\ invalidLiterals' = {}
  /\ RegisterBlock(NewBlock({}), TRUE)
  /\ freed' = (freed \union Live \union candidates) \intersect Referenced

CompileBlock == Switch \/ Fetch \/ Restore \/ Compile \/ CompileAfterReset

-----------------------------------------------------------------------------
(* Memory.                                                                 *)

\* A write by a CPU, a DMA transfer or the block that is being compiled: by
\* way of the slow functions, or straight into a page that is not protected.
Write(w, v) ==
  /\ pc = NoKey \/ job # NoJob
  /\ IF job = NoJob \/ w \notin Masks(job) THEN UNCHANGED <<job, events>>
     ELSE /\ events < MaxEvents /\ events' = events + 1
          /\ job' = [job EXCEPT !.stored = {w} \intersect DOMAIN job.values]
  /\ memory' = [memory EXCEPT ![w] = v]
  /\ \/ pages[PageOf(w)] = "rw" /\ UNCHANGED cacheVars
     \/ CheckAndInvalidate(w)
  /\ UNCHANGED <<bank, window, pc>>

MapAtAddressOpen ==
  /\ \A p \in Pages : pages[p] = "unmapped"
  /\ pages' = [p \in Pages |-> "rw"]
  /\ UNCHANGED <<memory, bank, index, cpuVars, events>>

\* The first access to a region through fast memory.
MapAtAddress ==
  /\ \A p \in Pages : pages[p] = "unmapped"
  /\ pages' = [p \in Pages |-> IF PageContainsCode(p) THEN "protected" ELSE "rw"]
  /\ UNCHANGED <<memory, bank, index, cpuVars, events>>

\* MapSharedWRAM and RemapSWRAM: an event, if a CPU is there or has code there.
RemapSWRAM ==
  /\ pc = NoKey
  /\ bank' = 1 - bank
  /\ pages' = [p \in Pages |-> "unmapped"]
  /\ IF Live = {} /\ Range(window) = {NoKey} THEN UNCHANGED events
     ELSE events < MaxEvents /\ events' = events + 1
  /\ UNCHANGED <<memory, index, cpuVars>>

\* A reset, a state loaded: whatever memory holds, the cache is empty.
Reset ==
  /\ pc = NoKey
  /\ memory' \in [Words -> Values]
  /\ pages' = [p \in Pages |-> "unmapped"]
  /\ blocks' = [k \in Keys |-> NoBlock]
  /\ ranges' = [r \in Ranges |-> IF Cleared(r) THEN {} ELSE ranges[r]]
  /\ code' = [r \in Ranges |-> IF Cleared(r) THEN {} ELSE code[r]]
  /\ lookup' = [w \in Words |-> NoEntry]
  /\ candidates' = {} /\ invalidLiterals' = {}
  /\ freed' = (freed \union Live \union candidates) \intersect Referenced
  /\ UNCHANGED <<bank, cpuVars, events>>

-----------------------------------------------------------------------------
Next ==
  \/ \E k \in Keys : Jump(k)
  \/ Leave
  \/ Dispatch \/ CompileBlock
  \/ \E w \in Words, v \in Values : Write(w, v)
  \/ MapAtAddress \/ RemapSWRAM \/ Reset

Spec == Init /\ [][Next]_vars

-----------------------------------------------------------------------------
(* Properties.                                                             *)

\* The memory that the block of a key was made from is still what it was, on
\* one way that the code of the key can go.
Current(b, k) == \E c \in k.codes :
  /\ b.places = LocaliseAll(c.body) /\ b.instrs = Read(c.body)
  /\ \A w \in DOMAIN b.embedded : w \in LiteralPlaces(c) /\ b.embedded[w] = memory[w]

\* No block out of date is ever run: whatever is written, by whom and by
\* which way, a lookup finds code made from the words that are there now.
\* (Memory was not remapped, no block wrote to itself while compiled, none came
\* to trust a literal because the code memory was full, and none was restored
\* for the other CPU, or for code that went another way.)
RunsWhatIsThere ==
  events = 0 => \A k \in Keys :
    /\ window[k.cpu] # NoKey /\ Hit(k) => Current(Entry(k).block, k)
    /\ blocks[k] # NoBlock => Current(blocks[k], k)

\* The four indexes agree: a block that can be run is in the list of each of
\* its ranges, whose masks cover it, and nothing else is in a list; a block
\* kept for later is in none, and nothing points to a deleted block.
Indexed(b) == \A w \in Masks(b) : b \in ranges[RangeOf(w)] /\ w \in code[RangeOf(w)]

IndexesAgree ==
  events = 0 =>
    /\ \A b \in Live : Indexed(b) /\ b \notin candidates
    /\ (UNION Range(ranges)) \subseteq Live
    /\ {e.block : e \in Range(lookup) \ {NoEntry}} \subseteq Live
    /\ freed = {}

\* SetCodeProtection's assertion: a page that can be written without a check
\* holds no code, and a page without code is not slowed down.
ProtectedWhereCodeIs ==
  events = 0 => \A p \in Pages :
    pages[p] # "unmapped" => (pages[p] = "protected" <=> PageContainsCode(p))

\* A jump that finds its block under another mirror's entry runs it next.
SwitchHelps == [][Switch /\ events = 0 => Hit(pc)']_vars
=============================================================================
