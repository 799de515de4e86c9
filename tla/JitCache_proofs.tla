--------------------------- MODULE JitCache_proofs ---------------------------
(***************************************************************************)
(* Proofs about JitCache, for every set of jumps with any code and any     *)
(* literals, every layout of the region in ranges and pages, and every     *)
(* content of memory.                                                      *)
(***************************************************************************)
EXTENDS JitCache, TLAPS

-----------------------------------------------------------------------------
(* Places in memory and what is read there.                                *)

LEMMA KeyFacts ==
    ASSUME NEW k \in Keys
    PROVE  k.cpu \in Cpus /\ k # NoKey /\ k.start \in Nat
BY RegionAssumption DEF Cpus

LEMMA CodeFacts ==
    ASSUME NEW k \in Keys, NEW c \in k.codes
    PROVE  /\ c.body \in Seq(Nat) /\ c.literal \in Seq(Nat)
           /\ 1 \in DOMAIN c.body /\ c.body[1] = k.start
<1>1. /\ c.body \in Seq(Nat) /\ c.body # <<>> /\ c.literal \in Seq(Nat)
      /\ Head(c.body) = k.start
  BY RegionAssumption
<1> QED BY <1>1

LEMMA LocaliseInTyped ==
    ASSUME NEW b \in {0, 1}, NEW a \in Nat
    PROVE  LocaliseIn(b, a) \in Words
<1> DEFINE x == a + b * (WORDS \div 2)
<1>1. WORDS \in Nat /\ WORDS > 0 /\ WORDS \div 2 \in Nat
  BY RegionAssumption
<1>2. x \in Nat
  BY <1>1
<1>3. x % WORDS \in 0..WORDS-1
  <2> HIDE DEF x
  <2> QED BY <1>1, <1>2
<1> QED BY <1>3 DEF LocaliseIn, Words

LEMMA ReadTyped ==
    ASSUME TypeOK, NEW s \in Seq(Nat)
    PROVE  /\ LocaliseAll(s) \in Seq(Words) /\ Read(s) \in Seq(Values)
           /\ Range(LocaliseAll(s)) \subseteq Words
<1>1. \A i \in DOMAIN s : Localise(s[i]) \in Words
  BY LocaliseInTyped DEF TypeOK, Localise
<1>2. \A i \in DOMAIN s : memory[Localise(s[i])] \in Values
  BY <1>1 DEF TypeOK
<1>3. DOMAIN s = 1..Len(s) /\ Len(s) \in Nat
  OBVIOUS
<1> QED BY <1>1, <1>2, <1>3 DEF LocaliseAll, Read, Range

LEMMA StartTyped ==
    ASSUME TypeOK, NEW k \in Keys
    PROVE  Start(k) \in Words
BY KeyFacts, LocaliseInTyped DEF TypeOK, Start, Localise

LEMMA CodeTyped ==
    ASSUME TypeOK, NEW k \in Keys, NEW c \in k.codes
    PROVE  /\ LiteralPlaces(c) \subseteq Words
           /\ LocaliseAll(c.body) # <<>> /\ LocaliseAll(c.body)[1] = Start(k)
<1>1. LiteralPlaces(c) \subseteq Words
  BY CodeFacts, ReadTyped DEF LiteralPlaces
<1>2. 1 \in DOMAIN LocaliseAll(c.body) /\ LocaliseAll(c.body)[1] = Start(k)
  BY CodeFacts DEF LocaliseAll, Start
<1>3. LocaliseAll(c.body) # <<>>
  BY <1>2
<1> QED BY <1>1, <1>2, <1>3

LEMMA LiteralsTyped ==
    ASSUME TypeOK, NEW S \in SUBSET Words
    PROVE  [w \in S |-> memory[w]] \in Literals
BY DEF TypeOK, Literals

LEMMA LiteralsAreWords ==
    ASSUME NEW f \in Literals
    PROVE  DOMAIN f \subseteq Words
BY DEF Literals

LEMMA MasksAreWords ==
    ASSUME NEW b \in Block \union Job
    PROVE  Masks(b) \subseteq Words /\ RangesOf(b) \subseteq Ranges
<1>1. b.places \in Seq(Words) /\ b.values \in Literals
  BY DEF Block, Job
<1>2. Range(b.places) \subseteq Words
  BY <1>1 DEF Range
<1>3. Masks(b) \subseteq Words
  BY <1>1, <1>2, LiteralsAreWords DEF Masks
<1> QED BY <1>3 DEF RangesOf, Ranges

\* A write elsewhere changes nothing of what is read.
LEMMA ReadStays ==
    ASSUME TypeOK, NEW w \in Words, NEW v, NEW s \in Seq(Nat),
           memory' = [memory EXCEPT ![w] = v], bank' = bank,
           w \notin Range(LocaliseAll(s))
    PROVE  Read(s)' = Read(s)
<1>1. \A i \in DOMAIN s : Localise(s[i])' = Localise(s[i])
  BY DEF Localise
<1>2. \A i \in DOMAIN s : Localise(s[i]) \in Words /\ Localise(s[i]) # w
  BY LocaliseInTyped DEF TypeOK, Localise, LocaliseAll, Range
<1>3. \A i \in DOMAIN s : memory'[Localise(s[i])] = memory[Localise(s[i])]
  BY <1>2 DEF TypeOK
<1> QED BY <1>1, <1>3 DEF Read

LEMMA SamePlaces ==
    ASSUME NEW k, NEW c, bank' = bank
    PROVE  /\ Start(k)' = Start(k) /\ LocaliseAll(c.body)' = LocaliseAll(c.body)
           /\ LiteralPlaces(c)' = LiteralPlaces(c)
BY DEF Start, LocaliseAll, LiteralPlaces, Localise, LocaliseIn, Range

LEMMA SameReads ==
    ASSUME NEW c, bank' = bank, memory' = memory
    PROVE  Read(c.body)' = Read(c.body)
BY DEF Read, Localise, LocaliseIn

-----------------------------------------------------------------------------
(* The inductive invariant.                                                *)

\* A block or a job was made from what a key's jump finds now, on one of the
\* ways that its code can go.
MadeFromCode(b, c) ==
  /\ b.places = LocaliseAll(c.body) /\ b.instrs = Read(c.body)
  /\ DOMAIN b.values \subseteq LiteralPlaces(c)
  /\ \A w \in DOMAIN b.values : b.values[w] = memory[w]

MadeFrom(b, k) == b.local = Start(k) /\ \E c \in k.codes : MadeFromCode(b, c)

\* The literals that the machine code holds are among those of the masks.
Embeds(b) ==
  /\ DOMAIN b.embedded \subseteq DOMAIN b.values
  /\ \A w \in DOMAIN b.embedded : b.embedded[w] = b.values[w]

Sound == \A k \in Keys, b \in Block :
  blocks[k] = b => b.key = k /\ MadeFrom(b, k) /\ Embeds(b)

Kept == \A c \in candidates :
  Embeds(c) /\ c.places # <<>> /\ c.local = c.places[1]

Listed == \A r \in Ranges, b \in Block :
  b \in ranges[r] => blocks[b.key] = b /\ r \in RangesOf(b)

Filed == \A k \in Keys, b \in Block :
  blocks[k] = b => Indexed(b) /\ b \notin candidates

Entries == \A w \in Words : lookup[w] # NoEntry =>
  /\ lookup[w].tag \in Keys
  /\ lookup[w].block = blocks[lookup[w].tag]
  /\ lookup[w].block # NoBlock /\ lookup[w].block.local = w

\* A literal that the job does not list was known not to be trusted.
JobCurrent == \A k \in Keys : job # NoJob /\ pc = k =>
  /\ blocks[k] = NoBlock /\ MadeFrom(job, k)
  /\ job.literals \ DOMAIN job.values \subseteq invalidLiterals

Windows ==
  /\ \A c \in Cpus : window[c] \in {NoKey, bank}
  /\ pc # NoKey => window[pc.cpu] = bank

Protected == \A p \in Pages :
  pages[p] # "unmapped" => (pages[p] = "protected" <=> PageContainsCode(p))

BlocksInv == Sound /\ Kept /\ Listed /\ Filed /\ freed = {}

CInv == BlocksInv /\ Entries /\ JobCurrent /\ Windows /\ Protected

IInv == TypeOK /\ (events = 0 => CInv)

\* What a block was made from is the same while memory and its banks are.
LEMMA MadeFromStill ==
    ASSUME NEW k, NEW b, MadeFrom(b, k), bank' = bank, memory' = memory
    PROVE  MadeFrom(b, k)'
<1>1. b.local = Start(k)'
  BY SamePlaces DEF MadeFrom
<1>2. PICK c \in k.codes : MadeFromCode(b, c)
  BY DEF MadeFrom
<1>3. MadeFromCode(b, c)'
  BY <1>2, SamePlaces, SameReads DEF MadeFromCode
<1> QED BY <1>1, <1>3 DEF MadeFrom

LEMMA MadeFromTyped ==
    ASSUME TypeOK, NEW k \in Keys, NEW b, MadeFrom(b, k)
    PROVE  b.places # <<>> /\ b.local = b.places[1]
<1>1. PICK c \in k.codes : MadeFromCode(b, c)
  BY DEF MadeFrom
<1> QED BY <1>1, CodeTyped DEF MadeFrom, MadeFromCode

-----------------------------------------------------------------------------
(* Types.                                                                  *)

LEMMA InitTyped == Init => TypeOK
<1> SUFFICES ASSUME Init PROVE TypeOK
  OBVIOUS
<1>1. lookup \in [Words -> [tag : Keys \union {NoKey}, block : Block \union {NoBlock}]]
  BY DEF Init, NoEntry
<1>2. events \in 0..MaxEvents
  BY RegionAssumption DEF Init
<1>3. memory \in [Words -> Values] /\ bank \in {0, 1}
  BY DEF Init, Values
<1> QED BY <1>1, <1>2, <1>3 DEF Init, TypeOK

\* The events are counted up to their bound.
LEMMA EventsTyped ==
    ASSUME TypeOK, UNCHANGED events \/ (events < MaxEvents /\ events' = events + 1)
    PROVE  events' \in 0..MaxEvents
<1>1. events \in 0..MaxEvents /\ MaxEvents \in Nat
  BY RegionAssumption DEF TypeOK
<1> QED BY <1>1

LEMMA EventsCount ==
    ASSUME TypeOK, UNCHANGED events
    PROVE  events' # events + 1
BY RegionAssumption DEF TypeOK

\* What a block's registration leaves is typed.
LEMMA RegisterTyped ==
    ASSUME TypeOK, pc \in Keys, job \in Job, NEW b \in Block,
           RegisterBlock(b, FALSE) \/ RegisterBlock(b, TRUE)
    PROVE  /\ memory' \in [Words -> Values] /\ bank' \in {0, 1}
           /\ pages' \in [Pages -> {"unmapped", "rw", "protected"}]
           /\ blocks' \in [Keys -> Block \union {NoBlock}]
           /\ ranges' \in [Ranges -> SUBSET Block]
           /\ code' \in [Ranges -> SUBSET Words]
           /\ lookup' \in [Words -> [tag : Keys \union {NoKey}, block : Block \union {NoBlock}]]
           /\ window' \in [Cpus -> {NoKey, 0, 1}]
           /\ pc' = NoKey /\ job' = NoJob
<1>1. ranges' \in [Ranges -> SUBSET Block]
  BY DEF TypeOK, RegisterBlock
<1>2. code' \in [Ranges -> SUBSET Words]
  BY MasksAreWords DEF TypeOK, RegisterBlock
<1>3. blocks' \in [Keys -> Block \union {NoBlock}]
  BY DEF TypeOK, RegisterBlock
<1>4. lookup' \in [Words -> [tag : Keys \union {NoKey}, block : Block \union {NoBlock}]]
  BY DEF TypeOK, RegisterBlock, NoEntry
<1>5. pages' \in [Pages -> {"unmapped", "rw", "protected"}]
  <2>1. CASE RegisterBlock(b, FALSE)
    BY <2>1 DEF TypeOK, RegisterBlock
  <2>2. CASE RegisterBlock(b, TRUE)
    BY <2>2 DEF TypeOK, RegisterBlock
  <2> QED BY <2>1, <2>2
<1> QED BY <1>1, <1>2, <1>3, <1>4, <1>5 DEF TypeOK, RegisterBlock

LEMMA ReferencedTyped ==
    ASSUME candidates' \subseteq Block, blocks' \in [Keys -> Block \union {NoBlock}],
           ranges' \in [Ranges -> SUBSET Block]
    PROVE  Referenced \subseteq Block
<1> DEFINE listed == UNION Range(ranges')
           filed  == {blocks'[k] : k \in Keys} \ {NoBlock}
<1>1. listed \subseteq Block
  BY DEF Range
<1>2. filed \subseteq Block
  OBVIOUS
<1>3. Referenced = candidates' \union listed \union filed
  BY DEF Referenced
<1> HIDE DEF listed, filed
<1> QED BY <1>1, <1>2, <1>3

\* A block retired or restored is a block, and one is kept for each hash.
LEMMA RetireTyped ==
    ASSUME TypeOK, NEW retired \in SUBSET Block, NEW deleted,
           RetireJitBlocks(retired, deleted),
           blocks' \in [Keys -> Block \union {NoBlock}], ranges' \in [Ranges -> SUBSET Block]
    PROVE  /\ candidates' \subseteq Block /\ freed' \subseteq Block
           /\ \A b, c \in candidates' : b.instrs = c.instrs => b = c
<1> DEFINE hashes   == {b.instrs : b \in retired}
           replaced == {c \in candidates : c.instrs \in hashes}
<1>1. PICK kept \in [hashes -> retired] :
         /\ \A h \in hashes : kept[h].instrs = h
         /\ candidates' = (candidates \ replaced) \union Range(kept)
         /\ freed' = Referenced \intersect
              (freed \union deleted \union replaced \union (retired \ Range(kept)))
  BY DEF RetireJitBlocks
<1>2. \A c \in Range(kept) : c \in retired /\ c.instrs \in hashes /\ c = kept[c.instrs]
  BY <1>1 DEF Range
<1>3. candidates' \subseteq Block
  BY <1>1, <1>2 DEF TypeOK
<1>4. ASSUME NEW b \in candidates', NEW c \in candidates', b.instrs = c.instrs
      PROVE  b = c
  <2>1. CASE b \in candidates \ replaced /\ c \in candidates \ replaced
    BY <1>4, <2>1 DEF TypeOK
  <2>2. CASE b \in Range(kept) /\ c \in Range(kept)
    BY <1>2, <1>4, <2>2
  <2>3. CASE b \in candidates \ replaced /\ c \in Range(kept)
    BY <1>2, <1>4, <2>3
  <2>4. CASE b \in Range(kept) /\ c \in candidates \ replaced
    BY <1>2, <1>4, <2>4
  <2> HIDE DEF replaced
  <2> QED BY <1>1, <1>4, <2>1, <2>2, <2>3, <2>4
<1>5. freed' \subseteq Block
  BY <1>1, <1>3, ReferencedTyped
<1> QED BY <1>3, <1>4, <1>5

LEMMA FetchTyped == ASSUME TypeOK, Fetch PROVE TypeOK'
<1>1. pc \in Keys
  BY DEF Fetch, TypeOK
<1>2. job' \in Job
  <2>1. PICK c \in pc.codes :
          job' = [local    |-> Start(pc),
                  instrs   |-> Read(c.body),
                  places   |-> LocaliseAll(c.body),
                  literals |-> LiteralPlaces(c),
                  values   |-> [w \in LiteralPlaces(c) \ invalidLiterals |-> memory[w]],
                  stored   |-> {}]
    BY DEF Fetch
  <2>2. LiteralPlaces(c) \in SUBSET Words
    BY <1>1, CodeTyped
  <2>3. [w \in LiteralPlaces(c) \ invalidLiterals |-> memory[w]] \in Literals
    BY <2>2, LiteralsTyped
  <2>4. Start(pc) \in Words /\ Read(c.body) \in Seq(Values)
        /\ LocaliseAll(c.body) \in Seq(Words)
    BY <1>1, CodeFacts, StartTyped, ReadTyped
  <2> QED BY <2>1, <2>2, <2>3, <2>4 DEF Job
<1>3. CASE blocks[pc] = NoBlock /\ UNCHANGED index
  BY <1>1, <1>2, <1>3 DEF Fetch, TypeOK, index
<1>4. CASE /\ blocks[pc] # NoBlock
           /\ blocks' = [blocks EXCEPT ![pc] = NoBlock]
           /\ UNCHANGED <<ranges, code, lookup, invalidLiterals>>
           /\ RetireJitBlocks({blocks[pc]}, {})
  <2>1. blocks' \in [Keys -> Block \union {NoBlock}] /\ ranges' \in [Ranges -> SUBSET Block]
    BY <1>4 DEF TypeOK
  <2>2. {blocks[pc]} \in SUBSET Block
    BY <1>1, <1>4 DEF TypeOK
  <2>3. /\ candidates' \subseteq Block /\ freed' \subseteq Block
        /\ \A b, c \in candidates' : b.instrs = c.instrs => b = c
    BY <1>4, <2>1, <2>2, RetireTyped
  <2> QED BY <1>1, <1>2, <1>4, <2>1, <2>3 DEF Fetch, TypeOK
<1> QED BY <1>3, <1>4 DEF Fetch

LEMMA NewBlockTyped ==
    ASSUME TypeOK, pc \in Keys, job \in Job, NEW invalid
    PROVE  NewBlock(invalid) \in Block
<1>1. [w \in job.literals \ invalid |-> memory[w]] \in Literals
  BY LiteralsTyped DEF Job
<1> QED BY <1>1 DEF NewBlock, Block, Job

LEMMA CompileBlockTyped == ASSUME TypeOK, CompileBlock PROVE TypeOK'
<1>1. CASE Switch
  <2>1. pc \in Keys /\ blocks[pc] \in Block /\ Start(pc) \in Words
    BY <1>1, StartTyped DEF Switch, TypeOK
  <2>2. lookup' \in [Words -> [tag : Keys \union {NoKey}, block : Block \union {NoBlock}]]
    BY <1>1, <2>1 DEF Switch, TypeOK
  <2> QED BY <1>1, <2>2 DEF Switch, TypeOK, cpuVars
<1>2. CASE Fetch
  BY <1>2, FetchTyped
<1>3. ASSUME job # NoJob
      PROVE  pc \in Keys /\ job \in Job /\ KnownInvalid \subseteq Words
  BY <1>3 DEF TypeOK, KnownInvalid, Job
<1>4. CASE Restore
  <2>1. PICK c \in candidates :
          /\ candidates' = candidates \ {c} /\ RegisterBlock(c, FALSE)
          /\ UNCHANGED events \/ (events < MaxEvents /\ events' = events + 1)
    BY <1>4 DEF Restore
  <2>2. c \in Block /\ job # NoJob
    BY <1>4, <2>1 DEF TypeOK, Restore
  <2>3. candidates' \subseteq Block /\ \A b, d \in candidates' : b.instrs = d.instrs => b = d
    BY <2>1 DEF TypeOK
  <2>4. freed' \subseteq Block /\ invalidLiterals' \subseteq Words /\ events' \in 0..MaxEvents
    BY <1>3, <1>4, <2>1, <2>2, EventsTyped DEF Restore, TypeOK
  <2> HIDE DEF TypeOK
  <2>5. TypeOK /\ pc \in Keys /\ job \in Job
    BY <1>3, <2>2
  <2> QED BY <2>1, <2>2, <2>3, <2>4, <2>5, RegisterTyped DEF TypeOK
<1>5. CASE Compile
  <2>1. job # NoJob /\ RegisterBlock(NewBlock(KnownInvalid), FALSE)
    BY <1>5 DEF Compile
  <2>2. NewBlock(KnownInvalid) \in Block
    BY <1>3, <2>1, NewBlockTyped
  <2>3. /\ candidates' \subseteq Block /\ \A b, d \in candidates' : b.instrs = d.instrs => b = d
        /\ invalidLiterals' \subseteq Words /\ events' \in 0..MaxEvents
        /\ freed' \subseteq freed \union candidates
    BY <1>3, <1>5, <2>1 DEF Compile, TypeOK
  <2>4. freed' \subseteq Block
    BY <2>3 DEF TypeOK
  <2> QED BY <1>3, <2>1, <2>2, <2>3, <2>4, RegisterTyped DEF TypeOK
<1>6. CASE CompileAfterReset
  <2>1. job # NoJob /\ RegisterBlock(NewBlock({}), TRUE)
    BY <1>6 DEF CompileAfterReset
  <2>2. NewBlock({}) \in Block
    BY <1>3, <2>1, NewBlockTyped
  <2>3. /\ candidates' = {} /\ invalidLiterals' = {}
        /\ freed' \subseteq freed \union Live \union candidates
    BY <1>6 DEF CompileAfterReset
  <2>4. freed' \subseteq Block
    BY <2>3 DEF TypeOK, Live
  <2>5. events' \in 0..MaxEvents
    BY <1>6, EventsTyped DEF CompileAfterReset
  <2> QED BY <1>3, <2>1, <2>2, <2>3, <2>4, <2>5, RegisterTyped DEF TypeOK
<1> QED BY <1>1, <1>2, <1>4, <1>5, <1>6 DEF CompileBlock

LEMMA InvalidateTyped ==
    ASSUME TypeOK, NEW w \in Words, InvalidateByAddr(w)
    PROVE  /\ pages' \in [Pages -> {"unmapped", "rw", "protected"}]
           /\ blocks' \in [Keys -> Block \union {NoBlock}]
           /\ ranges' \in [Ranges -> SUBSET Block]
           /\ code' \in [Ranges -> SUBSET Words]
           /\ lookup' \in [Words -> [tag : Keys \union {NoKey}, block : Block \union {NoBlock}]]
           /\ candidates' \subseteq Block /\ freed' \subseteq Block
           /\ \A b, c \in candidates' : b.instrs = c.instrs => b = c
           /\ invalidLiterals' \subseteq Words
<1> DEFINE doomed  == ranges[RangeOf(w)]
           deleted == {b \in doomed : w \in DOMAIN b.values}
<1>1. doomed \in SUBSET Block
  BY DEF TypeOK, Ranges
<1>2. ranges' \in [Ranges -> SUBSET Block]
  BY DEF TypeOK, InvalidateByAddr
<1>3. code' \in [Ranges -> SUBSET Words]
  BY DEF TypeOK, InvalidateByAddr
<1>4. lookup' \in [Words -> [tag : Keys \union {NoKey}, block : Block \union {NoBlock}]]
  BY DEF TypeOK, InvalidateByAddr, NoEntry
<1>5. blocks' \in [Keys -> Block \union {NoBlock}]
  BY DEF TypeOK, InvalidateByAddr
<1>6. invalidLiterals' \subseteq Words
  BY DEF TypeOK, InvalidateByAddr
<1>7. pages' \in [Pages -> {"unmapped", "rw", "protected"}]
  BY DEF TypeOK, InvalidateByAddr
<1>8. RetireJitBlocks(doomed \ deleted, deleted)
  BY DEF InvalidateByAddr
<1>9. doomed \ deleted \in SUBSET Block
  BY <1>1
<1> HIDE DEF doomed, deleted
<1>10. /\ candidates' \subseteq Block /\ freed' \subseteq Block
       /\ \A b, c \in candidates' : b.instrs = c.instrs => b = c
  BY <1>2, <1>5, <1>8, <1>9, RetireTyped
<1> QED BY <1>2, <1>3, <1>4, <1>5, <1>6, <1>7, <1>10

LEMMA WriteTyped ==
    ASSUME TypeOK, NEW w \in Words, NEW v \in Values, Write(w, v)
    PROVE  TypeOK'
<1>1. job' \in Job \union {NoJob} /\ (job' # NoJob => pc' # NoKey)
  <2>1. CASE UNCHANGED job
    BY <2>1 DEF Write, TypeOK
  <2>2. CASE /\ job \in Job
             /\ job' = [job EXCEPT !.stored = {w} \intersect DOMAIN job.values]
    <3>1. job' \in Job
      BY <2>2 DEF Job
    <3>2. job # NoJob /\ pc' = pc
      BY <2>2, NoneAssumption DEF Write
    <3> QED BY <3>1, <3>2 DEF TypeOK
  <2> QED BY <2>1, <2>2 DEF Write, TypeOK
<1>2. events' \in 0..MaxEvents
  BY EventsTyped DEF Write
<1>3. memory' \in [Words -> Values] /\ bank' \in {0, 1}
      /\ window' \in [Cpus -> {NoKey, 0, 1}] /\ pc' \in Keys \union {NoKey}
  BY DEF Write, TypeOK
<1>4. CASE UNCHANGED cacheVars
  BY <1>1, <1>2, <1>3, <1>4 DEF TypeOK, cacheVars, index
<1>5. CASE InvalidateByAddr(w)
  BY <1>1, <1>2, <1>3, <1>5, InvalidateTyped DEF TypeOK
<1> QED BY <1>4, <1>5 DEF Write, CheckAndInvalidate

LEMMA ResetTyped == ASSUME TypeOK, Reset PROVE TypeOK'
<1>1. lookup' \in [Words -> [tag : Keys \union {NoKey}, block : Block \union {NoBlock}]]
  BY DEF Reset, NoEntry
<1>2. ranges' \in [Ranges -> SUBSET Block] /\ code' \in [Ranges -> SUBSET Words]
  BY DEF TypeOK, Reset
<1>3. blocks' \in [Keys -> Block \union {NoBlock}] /\ candidates' \subseteq Block
  BY DEF Reset
<1>4. freed' \subseteq Block
  BY <1>2, <1>3, ReferencedTyped DEF Reset
<1>5. UNCHANGED <<bank, window, pc, job, events>>
  BY DEF Reset, cpuVars
<1> QED BY <1>1, <1>2, <1>3, <1>4, <1>5 DEF TypeOK, Reset

LEMMA NextTyped == ASSUME TypeOK, [Next]_vars PROVE TypeOK'
<1>1. ASSUME NEW k \in Keys, Jump(k) PROVE TypeOK'
  <2>1. k.cpu \in Cpus /\ k # NoKey
    BY KeyFacts
  <2>2. window' \in [Cpus -> {NoKey, 0, 1}]
    BY <1>1, <2>1 DEF TypeOK, Jump
  <2> QED BY <1>1, <2>1, <2>2 DEF TypeOK, Jump, cacheVars, index
<1>2. CASE Leave
  BY <1>2 DEF TypeOK, Leave, cacheVars, index
<1>3. CASE Dispatch
  BY <1>3 DEF TypeOK, Dispatch, cacheVars, index
<1>4. CASE CompileBlock
  BY <1>4, CompileBlockTyped
<1>5. ASSUME NEW w \in Words, NEW v \in Values, Write(w, v) PROVE TypeOK'
  BY <1>5, WriteTyped
<1>6. CASE MapAtAddress
  BY <1>6 DEF TypeOK, MapAtAddress, index, cpuVars
<1>7. CASE RemapSWRAM
  <2>1. events' \in 0..MaxEvents
    BY <1>7, EventsTyped DEF RemapSWRAM
  <2>2. bank' \in {0, 1} /\ pages' \in [Pages -> {"unmapped", "rw", "protected"}]
    BY <1>7 DEF TypeOK, RemapSWRAM
  <2> QED BY <1>7, <2>1, <2>2 DEF TypeOK, RemapSWRAM, index, cpuVars
<1>8. CASE Reset
  BY <1>8, ResetTyped
<1>9. CASE UNCHANGED vars
  BY <1>9 DEF TypeOK, vars, cacheVars, cpuVars, index
<1> QED BY <1>1, <1>2, <1>3, <1>4, <1>5, <1>6, <1>7, <1>8, <1>9 DEF Next

\* The cache's state is well formed, and of the blocks kept in case their code
\* comes back there is one for each hash (RestoreCandidates), whatever is
\* remapped and whichever CPUs share an address.
THEOREM TypeCorrect == Spec => []TypeOK
BY InitTyped, NextTyped, PTL DEF Spec

-----------------------------------------------------------------------------
(* Steps that leave the blocks alone.                                      *)

LEMMA BlocksStay ==
    ASSUME BlocksInv, UNCHANGED <<memory, bank, blocks, ranges, code, candidates, freed>>
    PROVE  BlocksInv'
<1> USE DEF BlocksInv
<1>1. Sound'
  <2> SUFFICES ASSUME NEW k \in Keys, NEW b \in Block, blocks'[k] = b
               PROVE  b.key = k /\ MadeFrom(b, k)' /\ Embeds(b)
    BY DEF Sound, Embeds
  <2> QED BY MadeFromStill DEF Sound
<1>2. Kept'
  BY DEF Kept, Embeds
<1>3. Listed'
  BY DEF Listed, RangesOf, Masks, RangeOf
<1>4. Filed'
  BY DEF Filed, Indexed, Masks, RangeOf
<1> QED BY <1>1, <1>2, <1>3, <1>4

LEMMA JobStays ==
    ASSUME JobCurrent, UNCHANGED <<memory, bank, blocks, invalidLiterals, pc, job>>
    PROVE  JobCurrent'
<1> SUFFICES ASSUME NEW k \in Keys, job' # NoJob, pc' = k
             PROVE  /\ blocks'[k] = NoBlock /\ MadeFrom(job, k)'
                    /\ job'.literals \ DOMAIN job'.values \subseteq invalidLiterals'
  BY DEF JobCurrent
<1>1. PICK j : j = job
  OBVIOUS
<1>2. MadeFrom(j, k)
  BY <1>1 DEF JobCurrent, MadeFrom, MadeFromCode
<1>3. MadeFrom(j, k)'
  BY <1>2, MadeFromStill
<1>4. MadeFrom(job, k)'
  BY <1>1, <1>3 DEF MadeFrom, MadeFromCode
<1> QED BY <1>4 DEF JobCurrent

LEMMA EntriesStay ==
    ASSUME Entries, UNCHANGED <<blocks, lookup>>
    PROVE  Entries'
BY DEF Entries

LEMMA ProtectedStays ==
    ASSUME Protected, UNCHANGED <<ranges, pages>>
    PROVE  Protected'
BY DEF Protected, PageContainsCode, PageOf, RangeOf

LEMMA NoJobNoClaim ==
    ASSUME job' = NoJob
    PROVE  JobCurrent'
BY DEF JobCurrent

LEMMA MovesKeep ==
    ASSUME TypeOK, CInv, (\E k \in Keys : Jump(k)) \/ Leave \/ Dispatch \/ UNCHANGED vars
    PROVE  CInv'
<1> USE DEF CInv
<1>1. UNCHANGED <<memory, bank, cacheVars, job>>
  BY DEF Jump, Leave, Dispatch, vars, cpuVars
<1>2. BlocksInv' /\ Entries' /\ Protected'
  BY <1>1, BlocksStay, EntriesStay, ProtectedStays DEF cacheVars, index
<1>3. JobCurrent'
  <2>1. CASE job = NoJob
    BY <1>1, <2>1, NoJobNoClaim
  <2>2. CASE job # NoJob
    <3>1. UNCHANGED vars
      BY <2>2 DEF TypeOK, Jump, Leave, Dispatch
    <3> QED BY <3>1, JobStays DEF vars, cacheVars, cpuVars, index
  <2> QED BY <2>1, <2>2
<1>4. Windows'
  <2>1. ASSUME NEW k \in Keys, Jump(k) PROVE Windows'
    <3>1. k.cpu \in Cpus
      BY KeyFacts
    <3>2. PICK b \in {bank} \union ({window[k.cpu]} \ {NoKey}) :
            window' = [window EXCEPT ![k.cpu] = b]
      BY <2>1 DEF Jump
    <3>3. b = bank
      BY <3>1, <3>2 DEF Windows
    <3> QED BY <2>1, <3>1, <3>2, <3>3 DEF Windows, Jump, TypeOK
  <2>2. CASE Leave
    BY <2>2 DEF Windows, Leave
  <2>3. CASE Dispatch
    BY <2>3 DEF Windows, Dispatch
  <2>4. CASE UNCHANGED vars
    BY <2>4 DEF Windows, vars, cpuVars
  <2> QED BY <2>1, <2>2, <2>3, <2>4
<1> QED BY <1>2, <1>3, <1>4

LEMMA SwitchKeeps == ASSUME TypeOK, CInv, Switch PROVE CInv'
<1> USE DEF CInv
<1>1. pc \in Keys /\ blocks[pc] \in Block /\ Start(pc) \in Words /\ job = NoJob
  BY StartTyped DEF Switch, TypeOK
<1>2. BlocksInv' /\ Protected'
  BY BlocksStay, ProtectedStays DEF Switch
<1>3. JobCurrent'
  BY <1>1, NoJobNoClaim DEF Switch, cpuVars
<1>4. Windows'
  BY DEF Switch, Windows, cpuVars
<1>5. Entries'
  <2> SUFFICES ASSUME NEW w \in Words, lookup'[w] # NoEntry
               PROVE  /\ lookup'[w].tag \in Keys
                      /\ lookup'[w].block = blocks[lookup'[w].tag]
                      /\ lookup'[w].block # NoBlock /\ lookup'[w].block.local = w
    BY DEF Entries, Switch
  <2>1. CASE w = Start(pc)
    <3>1. lookup'[w] = [tag |-> pc, block |-> blocks[pc]]
      BY <1>1, <2>1 DEF Switch, TypeOK
    <3> QED BY <1>1, <2>1, <3>1 DEF Switch
  <2>2. CASE w # Start(pc)
    <3>1. lookup'[w] = lookup[w]
      BY <2>2 DEF Switch, TypeOK
    <3> QED BY <3>1 DEF Entries
  <2> QED BY <2>1, <2>2
<1> QED BY <1>2, <1>3, <1>4, <1>5

LEMMA FetchKeeps == ASSUME TypeOK, CInv, Fetch PROVE CInv'
<1> USE DEF CInv
<1>1. pc \in Keys
  BY DEF Fetch, TypeOK
<1>2. blocks[pc] = NoBlock /\ UNCHANGED index
  <2>1. blocks[pc] # NoBlock => blocks[pc].local = Start(pc)
    BY <1>1 DEF BlocksInv, Sound, MadeFrom, TypeOK
  <2> QED BY <2>1 DEF Fetch
<1>3. UNCHANGED <<memory, bank, pages, window, pc>>
  BY DEF Fetch
<1>4. BlocksInv' /\ Entries' /\ Protected'
  BY <1>2, <1>3, BlocksStay, EntriesStay, ProtectedStays DEF index
<1>5. Windows'
  BY <1>3 DEF Windows
<1>6. JobCurrent'
  <2> SUFFICES ASSUME NEW k \in Keys, pc = k
               PROVE  /\ blocks'[k] = NoBlock /\ MadeFrom(job, k)'
                      /\ job'.literals \ DOMAIN job'.values \subseteq invalidLiterals'
    BY <1>3 DEF JobCurrent
  <2>1. PICK c \in k.codes :
          job' = [local    |-> Start(k),
                  instrs   |-> Read(c.body),
                  places   |-> LocaliseAll(c.body),
                  literals |-> LiteralPlaces(c),
                  values   |-> [w \in LiteralPlaces(c) \ invalidLiterals |-> memory[w]],
                  stored   |-> {}]
    BY DEF Fetch
  <2>2. MadeFrom(job, k)'
    <3>1. job'.local = Start(k)'
      BY <1>3, <2>1, SamePlaces
    <3>2. MadeFromCode(job, c)'
      BY <1>3, <2>1, SamePlaces, SameReads DEF MadeFromCode
    <3> QED BY <3>1, <3>2 DEF MadeFrom
  <2>3. job'.literals \ DOMAIN job'.values \subseteq invalidLiterals'
    BY <1>2, <1>3, <2>1 DEF index
  <2> QED BY <1>2, <2>1, <2>2, <2>3 DEF index
<1> QED BY <1>4, <1>5, <1>6

LEMMA MapAtAddressKeeps == ASSUME TypeOK, CInv, MapAtAddress PROVE CInv'
<1> USE DEF CInv
<1>1. UNCHANGED <<memory, bank, index, window, pc, job>>
  BY DEF MapAtAddress, cpuVars
<1>2. BlocksInv' /\ Entries' /\ JobCurrent'
  BY <1>1, BlocksStay, EntriesStay, JobStays DEF index
<1>3. Windows'
  BY <1>1 DEF Windows
<1>4. Protected'
  <2> SUFFICES ASSUME NEW p \in Pages
               PROVE  pages'[p] = "protected" <=> PageContainsCode(p)'
    BY DEF Protected
  <2>1. PageContainsCode(p)' <=> PageContainsCode(p)
    BY <1>1 DEF PageContainsCode, index, PageOf, RangeOf
  <2>2. pages'[p] = IF PageContainsCode(p) THEN "protected" ELSE "rw"
    BY DEF MapAtAddress
  <2> HIDE DEF CInv
  <2> QED BY <2>1, <2>2
<1> QED BY <1>2, <1>3, <1>4

\* After a step that leaves no block, nothing refers to one.
LEMMA NothingFiled ==
    ASSUME \A k \in Keys : blocks'[k] = NoBlock,
           \A r \in Ranges : ranges'[r] = {},
           \A w \in Words : lookup'[w] = NoEntry
    PROVE  Sound' /\ Listed' /\ Filed' /\ Entries'
<1>1. \A k \in Keys, b \in Block : blocks'[k] # b
  BY NoneAssumption
<1> QED BY <1>1 DEF Sound, Listed, Filed, Entries

\* Memory is remapped where no block was made from it.
LEMMA RemapKeeps == ASSUME TypeOK, CInv, RemapSWRAM, UNCHANGED events PROVE CInv'
<1> USE DEF CInv
<1>1. Live = {} /\ Range(window) = {NoKey}
  BY DEF RemapSWRAM, TypeOK
<1>2. UNCHANGED <<memory, index, window, pc, job>> /\ pc = NoKey /\ job = NoJob
  BY DEF RemapSWRAM, cpuVars, TypeOK
<1>3. \A k \in Keys : blocks'[k] = NoBlock
  BY <1>1, <1>2 DEF Live, index
<1>4. \A r \in Ranges : ranges'[r] = {}
  <2> SUFFICES ASSUME NEW r \in Ranges, NEW b \in ranges[r] PROVE FALSE
    BY <1>2 DEF index
  <2>1. b \in Block /\ blocks[b.key] = b /\ b.key \in Keys
    BY DEF TypeOK, BlocksInv, Listed, Block
  <2> QED BY <1>2, <1>3, <2>1, NoneAssumption DEF index
<1>5. \A w \in Words : lookup'[w] = NoEntry
  BY <1>2, <1>3 DEF Entries, index
<1>6. Sound' /\ Listed' /\ Filed' /\ Entries'
  BY <1>3, <1>4, <1>5, NothingFiled
<1>7. Kept' /\ freed' = {}
  BY <1>2 DEF BlocksInv, Kept, Embeds, index
<1>8. Windows'
  <2>1. \A c \in Cpus : window[c] \in Range(window)
    BY DEF Range, TypeOK
  <2> QED BY <1>1, <1>2, <2>1 DEF Windows
<1>9. Protected'
  <2>1. \A p \in Pages : pages'[p] = "unmapped"
    BY DEF RemapSWRAM
  <2> QED BY <2>1 DEF Protected
<1>10. JobCurrent'
  BY <1>2, NoJobNoClaim
<1> QED BY <1>6, <1>7, <1>8, <1>9, <1>10 DEF BlocksInv

\* What a cleared cache lists nowhere: every range in use is one of a live block's.
LEMMA ClearedAll ==
    ASSUME TypeOK, BlocksInv, NEW r \in Ranges, ranges[r] # {}
    PROVE  Cleared(r)
<1>1. PICK b \in ranges[r] : TRUE
  OBVIOUS
<1>2. b \in Block /\ b.key \in Keys /\ blocks[b.key] = b /\ r \in RangesOf(b)
  BY <1>1 DEF TypeOK, BlocksInv, Listed, Block
<1>3. b \in Live
  BY <1>2, NoneAssumption DEF Live
<1> QED BY <1>2, <1>3 DEF Cleared

LEMMA ResetKeeps == ASSUME TypeOK, CInv, Reset PROVE CInv'
<1> USE DEF CInv
<1>1. \A k \in Keys : blocks'[k] = NoBlock
  BY DEF Reset
<1>2. \A r \in Ranges : ranges'[r] = {}
  <2> SUFFICES ASSUME NEW r \in Ranges PROVE ranges'[r] = {}
    OBVIOUS
  <2>1. ranges'[r] = IF Cleared(r) THEN {} ELSE ranges[r]
    BY DEF Reset
  <2> HIDE DEF CInv
  <2> QED BY <2>1, ClearedAll DEF CInv
<1>3. \A w \in Words : lookup'[w] = NoEntry
  BY DEF Reset
<1>4. Sound' /\ Listed' /\ Filed' /\ Entries'
  BY <1>1, <1>2, <1>3, NothingFiled
<1>5. candidates' = {} /\ UNCHANGED <<bank, window, pc, job>> /\ job = NoJob
      /\ \A p \in Pages : pages'[p] = "unmapped"
  BY DEF Reset, cpuVars, TypeOK
<1>6. Kept' /\ Protected' /\ JobCurrent' /\ Windows'
  BY <1>5 DEF Kept, Protected, JobCurrent, Windows
<1>7. freed' = {}
  <2>1. Referenced = {}
    <3>1. UNION Range(ranges') = {}
      <4>1. DOMAIN ranges' = Ranges
        BY DEF Reset
      <4> QED BY <1>2, <4>1 DEF Range
    <3>2. {blocks'[k] : k \in Keys} \ {NoBlock} = {}
      BY <1>1
    <3> QED BY <1>5, <3>1, <3>2 DEF Referenced
  <2> QED BY <2>1 DEF Reset
<1> QED BY <1>4, <1>6, <1>7 DEF BlocksInv

-----------------------------------------------------------------------------
(* Writes.                                                                 *)

\* What was made from other words is still true of memory after a write.
LEMMA MadeFromStays ==
    ASSUME TypeOK, NEW k \in Keys, NEW b, MadeFrom(b, k),
           NEW w \in Words, NEW v, w \notin Masks(b),
           memory' = [memory EXCEPT ![w] = v], bank' = bank
    PROVE  MadeFrom(b, k)'
<1>1. PICK c \in k.codes : MadeFromCode(b, c)
  BY DEF MadeFrom
<1>2. w \notin Range(LocaliseAll(c.body)) /\ w \notin DOMAIN b.values
  BY <1>1 DEF MadeFromCode, Masks
<1>3. Read(c.body)' = Read(c.body)
  BY <1>2, CodeFacts, ReadStays
<1>4. \A x \in DOMAIN b.values : memory'[x] = memory[x]
  BY <1>1, <1>2, CodeTyped DEF MadeFromCode, TypeOK
<1>5. MadeFromCode(b, c)'
  BY <1>1, <1>3, <1>4, SamePlaces DEF MadeFromCode
<1> QED BY <1>5, SamePlaces DEF MadeFrom

\* A write that is not an event leaves the job as it is, and is none of its words.
LEMMA WriteOutsideJob ==
    ASSUME TypeOK, NEW w \in Words, NEW v \in Values, Write(w, v), UNCHANGED events
    PROVE  job' = job /\ (job # NoJob => w \notin Masks(job))
BY EventsCount DEF Write

LEMMA JobOutlivesWrite ==
    ASSUME TypeOK, JobCurrent, NEW w \in Words, NEW v \in Values, Write(w, v),
           UNCHANGED events, \A k \in Keys : blocks[k] = NoBlock => blocks'[k] = NoBlock,
           invalidLiterals \subseteq invalidLiterals'
    PROVE  JobCurrent'
<1>1. job' = job /\ (job # NoJob => w \notin Masks(job))
  BY WriteOutsideJob
<1>2. memory' = [memory EXCEPT ![w] = v] /\ bank' = bank /\ pc' = pc
  BY DEF Write
<1> SUFFICES ASSUME NEW k \in Keys, job # NoJob, pc = k
             PROVE  /\ blocks'[k] = NoBlock /\ MadeFrom(job, k)'
                    /\ job'.literals \ DOMAIN job'.values \subseteq invalidLiterals'
  BY <1>1, <1>2 DEF JobCurrent
<1>3. PICK j : j = job
  OBVIOUS
<1>4. MadeFrom(j, k)
  BY <1>3 DEF JobCurrent, MadeFrom, MadeFromCode
<1>5. w \notin Masks(j)
  BY <1>1, <1>3 DEF Masks
<1>6. MadeFrom(j, k)'
  BY <1>2, <1>4, <1>5, MadeFromStays
<1>7. MadeFrom(job, k)'
  BY <1>1, <1>3, <1>6 DEF MadeFrom, MadeFromCode
<1> QED BY <1>1, <1>2, <1>7 DEF JobCurrent

\* A write that is not noticed hits no block.
LEMMA UnnoticedWriteKeeps ==
    ASSUME TypeOK, CInv, NEW w \in Words, NEW v \in Values, Write(w, v), UNCHANGED events,
           UNCHANGED cacheVars, pages[PageOf(w)] = "rw" \/ w \notin code[RangeOf(w)]
    PROVE  CInv'
<1> USE DEF CInv, BlocksInv
<1>1. ASSUME NEW k \in Keys, NEW b \in Block, blocks[k] = b PROVE w \notin Masks(b)
  <2>1. PageOf(w) \in Pages
    BY DEF Pages
  <2>2. CASE w \notin code[RangeOf(w)]
    BY <1>1, <2>2 DEF Filed, Indexed
  <2>3. CASE pages[PageOf(w)] = "rw"
    <3>1. ranges[RangeOf(w)] = {}
      BY <2>1, <2>3 DEF Protected, PageContainsCode
    <3> QED BY <1>1, <3>1 DEF Filed, Indexed
  <2> QED BY <2>2, <2>3
<1>2. memory' = [memory EXCEPT ![w] = v] /\ UNCHANGED <<bank, window, pc>>
  BY DEF Write
<1>3. UNCHANGED <<index, pages>>
  BY DEF cacheVars
<1>4. Sound'
  <2> SUFFICES ASSUME NEW k \in Keys, NEW b \in Block, blocks[k] = b
               PROVE  b.key = k /\ MadeFrom(b, k)' /\ Embeds(b)
    BY <1>3 DEF Sound, Embeds, index
  <2> QED BY <1>1, <1>2, MadeFromStays DEF Sound
<1>5. Kept' /\ Listed' /\ Filed' /\ freed' = {}
  BY <1>3 DEF index, Kept, Embeds, Listed, Filed, Indexed, RangesOf, Masks, RangeOf
<1>6. Entries' /\ Protected'
  BY <1>3, EntriesStay, ProtectedStays DEF index
<1>7. JobCurrent'
  BY <1>3, JobOutlivesWrite DEF index
<1>8. Windows'
  BY <1>2 DEF Windows
<1> QED BY <1>4, <1>5, <1>6, <1>7, <1>8

\* Blocks that are nowhere else are retired or deleted without a loose end.
LEMMA RetireLeavesNothing ==
    ASSUME NEW retired, NEW deleted, RetireJitBlocks(retired, deleted), freed = {},
           retired \intersect candidates = {}, deleted \intersect candidates = {},
           retired \intersect deleted = {}, DOMAIN ranges' = Ranges,
           \A r \in Ranges : \A b \in ranges'[r] : b \notin retired \union deleted \union candidates,
           \A k \in Keys : blocks'[k] \notin retired \union deleted \union candidates
    PROVE  freed' = {} /\ candidates' \subseteq candidates \union retired
<1> DEFINE hashes   == {b.instrs : b \in retired}
           replaced == {c \in candidates : c.instrs \in hashes}
<1>1. PICK kept \in [hashes -> retired] :
         /\ candidates' = (candidates \ replaced) \union Range(kept)
         /\ freed' = Referenced \intersect
              (freed \union deleted \union replaced \union (retired \ Range(kept)))
  BY DEF RetireJitBlocks
<1>2. Range(kept) \subseteq retired
  BY <1>1 DEF Range
<1>3. replaced \subseteq candidates
  OBVIOUS
<1> HIDE DEF hashes, replaced
<1> DEFINE gone == deleted \union replaced \union (retired \ Range(kept))
<1>4. candidates' \intersect gone = {}
  BY <1>1, <1>2, <1>3
<1>5. (UNION Range(ranges')) \intersect gone = {}
  BY <1>3 DEF Range
<1>6. ({blocks'[k] : k \in Keys} \ {NoBlock}) \intersect gone = {}
  BY <1>3
<1>7. freed' = Referenced \intersect gone
  BY <1>1
<1> HIDE DEF gone
<1>8. freed' = {}
  BY <1>4, <1>5, <1>6, <1>7 DEF Referenced
<1> QED BY <1>1, <1>2, <1>8

\* The blocks of a range are all filed under their keys.
LEMMA ListedIsFiled ==
    ASSUME TypeOK, BlocksInv, NEW r \in Ranges, NEW b \in ranges[r]
    PROVE  /\ b \in Block /\ b.key \in Keys /\ blocks[b.key] = b
           /\ MadeFrom(b, b.key) /\ Embeds(b) /\ b \notin candidates
<1>1. b \in Block /\ b.key \in Keys
  BY DEF TypeOK, Block
<1> QED BY <1>1 DEF BlocksInv, Listed, Sound, Filed

LEMMA InvalidatingWriteKeeps ==
    ASSUME TypeOK, CInv, NEW w \in Words, NEW v \in Values, Write(w, v), UNCHANGED events,
           InvalidateByAddr(w)
    PROVE  CInv'
<1> DEFINE doomed  == ranges[RangeOf(w)]
           deleted == {b \in doomed : w \in DOMAIN b.values}
<1>1. TypeOK /\ BlocksInv /\ Entries /\ JobCurrent /\ Windows /\ Protected
      /\ Sound /\ Kept /\ Listed /\ Filed /\ freed = {} /\ RangeOf(w) \in Ranges
  BY DEF CInv, BlocksInv, Ranges
<1>2. memory' = [memory EXCEPT ![w] = v] /\ UNCHANGED <<bank, window, pc>>
  BY DEF Write
<1>3. \A b \in doomed : /\ b \in Block /\ b.key \in Keys /\ blocks[b.key] = b
                       /\ MadeFrom(b, b.key) /\ Embeds(b) /\ b \notin candidates
  BY <1>1, ListedIsFiled
<1>4. /\ \A r \in Ranges : ranges'[r] = ranges[r] \ doomed
      /\ DOMAIN ranges' = Ranges
  BY DEF InvalidateByAddr
<1>5. \A r \in Ranges : r # RangeOf(w) /\ ranges'[r] # {} => code'[r] = code[r]
  BY DEF InvalidateByAddr
<1>6. \A x \in Words : lookup'[x] = IF \E b \in doomed : b.local = x THEN NoEntry ELSE lookup[x]
  BY DEF InvalidateByAddr
<1>7. \A k \in Keys : blocks'[k] = IF \E b \in doomed : b.key = k THEN NoBlock ELSE blocks[k]
  BY DEF InvalidateByAddr
<1>8. invalidLiterals \subseteq invalidLiterals'
  BY DEF InvalidateByAddr
<1>9. \A p \in Pages : pages'[p] =
         IF pages[p] = "protected" /\ PageContainsCode(p) /\ ~PageContainsCode(p)'
         THEN "rw" ELSE pages[p]
  BY DEF InvalidateByAddr
<1>10. RetireJitBlocks(doomed \ deleted, deleted)
  BY DEF InvalidateByAddr
<1>11. deleted \subseteq doomed
  OBVIOUS
<1> HIDE DEF doomed, deleted
\* What is left was in none of the ranges that were emptied.
<1>12. ASSUME NEW k \in Keys, NEW b \in Block, blocks'[k] = b
       PROVE  blocks[k] = b /\ b \notin doomed /\ RangeOf(w) \notin RangesOf(b)
  <2>1. blocks[k] = b
    BY <1>7, <1>12, NoneAssumption
  <2>2. b \notin doomed
    BY <1>1, <1>7, <1>12, <2>1, NoneAssumption DEF Sound
  <2>3. ASSUME NEW x \in Masks(b), RangeOf(x) = RangeOf(w) PROVE FALSE
    BY <1>1, <2>1, <2>2, <2>3 DEF Filed, Indexed, doomed
  <2> QED BY <2>1, <2>2, <2>3 DEF RangesOf
<1>13. \A k \in Keys : blocks'[k] \in Block \union {NoBlock}
  BY <1>1, <1>7 DEF TypeOK
<1>14. Sound'
  <2> SUFFICES ASSUME NEW k \in Keys, NEW b \in Block, blocks'[k] = b
               PROVE  b.key = k /\ MadeFrom(b, k)' /\ Embeds(b)
    BY DEF Sound, Embeds
  <2>1. w \notin Masks(b)
    BY <1>12 DEF RangesOf
  <2> QED BY <1>1, <1>2, <1>12, <2>1, MadeFromStays DEF Sound
<1>15. Listed'
  <2> SUFFICES ASSUME NEW r \in Ranges, NEW b \in Block, b \in ranges'[r]
               PROVE  blocks'[b.key] = b /\ r \in RangesOf(b)
    BY DEF Listed, RangesOf, Masks, RangeOf
  <2>1. b \in ranges[r] /\ b \notin doomed
    BY <1>4
  <2>2. b.key \in Keys /\ blocks[b.key] = b /\ r \in RangesOf(b)
    BY <1>1, <2>1, ListedIsFiled DEF Listed
  <2> QED BY <1>3, <1>7, <2>1, <2>2
<1>16. freed' = {} /\ candidates' \subseteq candidates \union doomed
  <2>1. \A r \in Ranges : \A b \in ranges'[r] : b \notin doomed \union candidates
    BY <1>1, <1>4, ListedIsFiled
  <2>2. \A k \in Keys : blocks'[k] \notin doomed \union candidates
    <3> SUFFICES ASSUME NEW k \in Keys, blocks'[k] \in doomed \union candidates PROVE FALSE
      OBVIOUS
    <3>1. blocks'[k] \in Block
      BY <1>1, <1>3 DEF TypeOK
    <3> QED BY <1>1, <1>12, <3>1 DEF Filed
  <2>3. doomed \intersect candidates = {}
    BY <1>3
  <2> QED BY <1>1, <1>4, <1>10, <1>11, <2>1, <2>2, <2>3, RetireLeavesNothing
<1>17. Filed'
  <2> SUFFICES ASSUME NEW k \in Keys, NEW b \in Block, blocks'[k] = b
               PROVE  Indexed(b)' /\ b \notin candidates'
    BY DEF Filed
  <2>1. blocks[k] = b /\ b \notin doomed /\ RangeOf(w) \notin RangesOf(b)
    BY <1>12
  <2>2. b \notin candidates'
    BY <1>1, <1>16, <2>1 DEF Filed
  <2>3. ASSUME NEW x \in Masks(b) PROVE b \in ranges'[RangeOf(x)] /\ x \in code'[RangeOf(x)]
    <3>1. b \in ranges[RangeOf(x)] /\ x \in code[RangeOf(x)]
      BY <1>1, <2>1 DEF Filed, Indexed
    <3>2. RangeOf(x) \in Ranges /\ RangeOf(x) # RangeOf(w)
      BY <2>1, MasksAreWords DEF RangesOf, Ranges
    <3>3. b \in ranges'[RangeOf(x)]
      BY <1>4, <2>1, <3>1, <3>2
    <3> QED BY <1>5, <3>1, <3>2, <3>3
  <2> QED BY <2>2, <2>3 DEF Indexed, Masks, RangeOf
<1>18. Kept'
  <2> SUFFICES ASSUME NEW c \in candidates'
               PROVE  Embeds(c) /\ c.places # <<>> /\ c.local = c.places[1]
    BY DEF Kept, Embeds
  <2>1. CASE c \in candidates
    BY <1>1, <2>1 DEF Kept
  <2>2. CASE c \in doomed
    BY <1>1, <1>3, <2>2, MadeFromTyped
  <2> QED BY <1>16, <2>1, <2>2
<1>19. Entries'
  <2> SUFFICES ASSUME NEW x \in Words, lookup'[x] # NoEntry
               PROVE  /\ lookup'[x].tag \in Keys
                      /\ lookup'[x].block = blocks'[lookup'[x].tag]
                      /\ lookup'[x].block # NoBlock /\ lookup'[x].block.local = x
    BY DEF Entries, NoEntry
  <2>1. lookup'[x] = lookup[x] /\ ~\E b \in doomed : b.local = x
    BY <1>6
  <2>2. /\ lookup[x].tag \in Keys /\ lookup[x].block = blocks[lookup[x].tag]
        /\ lookup[x].block # NoBlock /\ lookup[x].block.local = x
    BY <1>1, <2>1 DEF Entries
  <2>3. ~\E b \in doomed : b.key = lookup[x].tag
    BY <1>3, <2>1, <2>2
  <2> QED BY <1>7, <2>1, <2>2, <2>3
<1>20. Protected'
  <2> SUFFICES ASSUME NEW p \in Pages, pages'[p] # "unmapped"
               PROVE  pages'[p] = "protected" <=> PageContainsCode(p)'
    BY DEF Protected
  <2>1. PageContainsCode(p)' => PageContainsCode(p)
    <3> SUFFICES ASSUME NEW x \in Words, PageOf(x) = p, ranges'[RangeOf(x)] # {}
                 PROVE  ranges[RangeOf(x)] # {}
      BY DEF PageContainsCode, PageOf, RangeOf
    <3> QED BY <1>4 DEF Ranges
  <2>2. pages[p] # "unmapped" => (pages[p] = "protected" <=> PageContainsCode(p))
    BY <1>1 DEF Protected
  <2> QED BY <1>9, <2>1, <2>2
<1>21. JobCurrent'
  <2>1. \A k \in Keys : blocks[k] = NoBlock => blocks'[k] = NoBlock
    BY <1>7
  <2> QED BY <1>1, <1>8, <2>1, JobOutlivesWrite
<1>22. Windows'
  BY <1>1, <1>2 DEF Windows
<1> QED BY <1>14, <1>15, <1>16, <1>17, <1>18, <1>19, <1>20, <1>21, <1>22 DEF CInv, BlocksInv

-----------------------------------------------------------------------------
(* Compilation.                                                            *)

LEMMA JobFacts ==
    ASSUME TypeOK, JobCurrent, job # NoJob
    PROVE  /\ pc \in Keys /\ job \in Job /\ blocks[pc] = NoBlock
           /\ MadeFrom(job, pc) /\ job.literals \ DOMAIN job.values \subseteq invalidLiterals
<1>1. pc \in Keys /\ job \in Job
  BY DEF TypeOK
<1> QED BY <1>1 DEF JobCurrent

\* A block made from what is there is registered beside the others.
LEMMA RegisterKeeps ==
    ASSUME TypeOK, CInv, job # NoJob, NEW b \in Block, b.key = pc, MadeFrom(b, pc), Embeds(b),
           RegisterBlock(b, FALSE), candidates' \subseteq candidates, b \notin candidates',
           freed' = {}
    PROVE  CInv'
<1>1. /\ Sound /\ Kept /\ Listed /\ Filed /\ Entries /\ JobCurrent /\ Windows /\ Protected
      /\ TypeOK
  BY DEF CInv, BlocksInv
<1>2. pc \in Keys /\ job \in Job /\ blocks[pc] = NoBlock /\ b.local = job.local
  BY <1>1, JobFacts DEF MadeFrom
<1>3. UNCHANGED <<memory, bank, window>> /\ pc' = NoKey /\ job' = NoJob
  BY DEF RegisterBlock
<1>4. \A k \in Keys : blocks'[k] = IF k = pc THEN b ELSE blocks[k]
  BY DEF RegisterBlock
<1>5. \A r \in Ranges : ranges'[r] = ranges[r] \union (IF r \in RangesOf(b) THEN {b} ELSE {})
  BY DEF RegisterBlock
<1>6. \A r \in Ranges : code'[r] = code[r] \union {w \in Masks(b) : RangeOf(w) = r}
  BY DEF RegisterBlock
<1>7. \A w \in Words :
        lookup'[w] = IF w = job.local THEN [tag |-> pc, block |-> b] ELSE lookup[w]
  BY DEF RegisterBlock
<1>8. \A p \in Pages : pages'[p] =
        IF pages[p] = "rw" /\ ~PageContainsCode(p) /\ \E w \in Masks(b) : PageOf(w) = p
        THEN "protected" ELSE pages[p]
  BY DEF RegisterBlock
<1>9. Masks(b) \subseteq Words /\ RangesOf(b) \subseteq Ranges
  BY MasksAreWords
<1>10. Sound'
  <2> SUFFICES ASSUME NEW k \in Keys, NEW d \in Block, blocks'[k] = d
               PROVE  d.key = k /\ MadeFrom(d, k)' /\ Embeds(d)
    BY DEF Sound, Embeds
  <2>1. d.key = k /\ MadeFrom(d, k) /\ Embeds(d)
    BY <1>1, <1>4 DEF Sound
  <2> QED BY <1>3, <2>1, MadeFromStill
<1>11. Kept'
  BY <1>1 DEF Kept, Embeds
<1>12. Listed'
  <2> SUFFICES ASSUME NEW r \in Ranges, NEW d \in Block, d \in ranges'[r]
               PROVE  blocks'[d.key] = d /\ r \in RangesOf(d)
    BY DEF Listed, RangesOf, Masks, RangeOf
  <2>1. CASE d = b /\ r \in RangesOf(b)
    BY <1>2, <1>4, <2>1
  <2>2. CASE d \in ranges[r]
    <3>1. d.key \in Keys /\ blocks[d.key] = d /\ r \in RangesOf(d)
      BY <1>1, <2>2 DEF Listed, Block
    <3> QED BY <1>2, <1>4, <3>1, NoneAssumption
  <2> QED BY <1>5, <2>1, <2>2
<1>13. Filed'
  <2> SUFFICES ASSUME NEW k \in Keys, NEW d \in Block, blocks'[k] = d
               PROVE  Indexed(d)' /\ d \notin candidates'
    BY DEF Filed
  <2>1. ASSUME NEW x \in Masks(d) PROVE d \in ranges'[RangeOf(x)] /\ x \in code'[RangeOf(x)]
    <3>1. RangeOf(x) \in Ranges
      BY MasksAreWords DEF Ranges
    <3>2. CASE d = b
      BY <1>5, <1>6, <3>1, <3>2 DEF RangesOf
    <3>3. CASE d # b
      <4>1. d \in ranges[RangeOf(x)] /\ x \in code[RangeOf(x)]
        BY <1>1, <1>4, <3>3 DEF Filed, Indexed
      <4> QED BY <1>5, <1>6, <3>1, <4>1
    <3> QED BY <3>2, <3>3
  <2>2. d \notin candidates'
    BY <1>1, <1>4 DEF Filed
  <2> QED BY <2>1, <2>2 DEF Indexed, Masks, RangeOf
<1>14. Entries'
  <2> SUFFICES ASSUME NEW w \in Words, lookup'[w] # NoEntry
               PROVE  /\ lookup'[w].tag \in Keys
                      /\ lookup'[w].block = blocks'[lookup'[w].tag]
                      /\ lookup'[w].block # NoBlock /\ lookup'[w].block.local = w
    BY DEF Entries, NoEntry
  <2>1. CASE w = job.local
    BY <1>2, <1>4, <1>7, <2>1, NoneAssumption
  <2>2. CASE w # job.local
    BY <1>1, <1>2, <1>4, <1>7, <2>2 DEF Entries
  <2> QED BY <2>1, <2>2
<1>15. Protected'
  <2> SUFFICES ASSUME NEW p \in Pages, pages'[p] # "unmapped"
               PROVE  pages'[p] = "protected" <=> PageContainsCode(p)'
    BY DEF Protected
  <2> DEFINE touched == \E x \in Masks(b) : PageOf(x) = p
  <2>1. PageContainsCode(p)' <=> PageContainsCode(p) \/ touched
    <3>1. PageContainsCode(p)' <=> \E w \in Words : PageOf(w) = p /\ ranges'[RangeOf(w)] # {}
      BY DEF PageContainsCode, PageOf, RangeOf
    <3>2. ASSUME NEW w \in Words
          PROVE  ranges'[RangeOf(w)] # {} <=> ranges[RangeOf(w)] # {} \/ RangeOf(w) \in RangesOf(b)
      BY <1>5 DEF Ranges
    <3>3. ASSUME NEW w \in Words, PageOf(w) = p, RangeOf(w) \in RangesOf(b) PROVE touched
      <4>1. PICK x \in Masks(b) : RangeOf(x) = RangeOf(w)
        BY <3>3 DEF RangesOf
      <4> QED BY <1>9, <3>3, <4>1, PageAssumption
    <3>4. ASSUME NEW x \in Masks(b) PROVE x \in Words /\ RangeOf(x) \in RangesOf(b)
      BY <1>9 DEF RangesOf
    <3> QED BY <3>1, <3>2, <3>3, <3>4 DEF PageContainsCode
  <2>2. pages[p] # "unmapped" => (pages[p] = "protected" <=> PageContainsCode(p))
    BY <1>1 DEF Protected
  <2>3. pages'[p] = IF pages[p] = "rw" /\ ~PageContainsCode(p) /\ touched
                    THEN "protected" ELSE pages[p]
    BY <1>8
  <2>4. pages[p] \in {"unmapped", "rw", "protected"}
    BY DEF TypeOK
  <2> HIDE DEF touched
  <2> QED BY <2>1, <2>2, <2>3, <2>4
<1>16. JobCurrent' /\ Windows'
  BY <1>1, <1>3, NoJobNoClaim DEF Windows
<1> QED BY <1>10, <1>11, <1>12, <1>13, <1>14, <1>15, <1>16 DEF CInv, BlocksInv

LEMMA RestoreKeeps == ASSUME TypeOK, CInv, Restore, UNCHANGED events PROVE CInv'
<1>1. TypeOK /\ JobCurrent /\ Kept /\ freed = {} /\ job # NoJob
  BY DEF CInv, BlocksInv, Restore
<1>2. pc \in Keys /\ MadeFrom(job, pc)
  BY <1>1, JobFacts
<1>3. PICK c \in candidates :
        /\ Comparable(c) /\ candidates' = candidates \ {c} /\ RegisterBlock(c, FALSE)
        /\ (c.key = pc /\ c.places = job.places) \/ events' = events + 1
  BY DEF Restore
<1>4. c \in Block /\ Embeds(c) /\ c.local = c.places[1]
  BY <1>1, <1>3 DEF Kept, TypeOK
<1>5. c.key = pc /\ c.places = job.places
  BY <1>3, EventsCount
<1>6. MadeFrom(c, pc)
  <2>1. PICK d \in pc.codes : MadeFromCode(job, d)
    BY <1>2 DEF MadeFrom
  <2>2. MadeFromCode(c, d)
    BY <1>3, <1>5, <2>1 DEF Comparable, MadeFromCode
  <2>3. c.local = Start(pc)
    BY <1>2, <1>4, <1>5, <2>1, CodeTyped DEF MadeFromCode
  <2> QED BY <2>2, <2>3 DEF MadeFrom
<1>7. freed' = {}
  BY <1>1 DEF Restore
<1>8. candidates' \subseteq candidates /\ c \notin candidates'
  BY <1>3
<1> QED BY <1>1, <1>3, <1>4, <1>5, <1>6, <1>7, <1>8, RegisterKeeps

\* A new block is none that was there: such a one would have been restored.
LEMMA NewBlockIsNew ==
    ASSUME TypeOK, CInv, job # NoJob, ~\E c \in candidates : Restorable(c), NEW invalid
    PROVE  NewBlock(invalid) \notin Live \union candidates
<1>1. pc \in Keys /\ blocks[pc] = NoBlock /\ job \in Job
  BY JobFacts DEF CInv
<1>2. NewBlock(invalid) \in Block /\ NewBlock(invalid).key = pc
  BY <1>1, NewBlockTyped DEF NewBlock
<1>3. NewBlock(invalid) \notin Live
  BY <1>1, <1>2, NoneAssumption DEF Live, CInv, BlocksInv, Sound
<1>4. Restorable(NewBlock(invalid))
  BY DEF Restorable, Comparable, Masks, NewBlock
<1> QED BY <1>3, <1>4

\* A new block embeds no literal but those that the job lists, unless the
\* literals known to be invalid were forgotten since.
LEMMA NewBlockSound ==
    ASSUME TypeOK, CInv, job # NoJob, NEW invalid,
           job.literals \ DOMAIN job.values \subseteq invalid
    PROVE  /\ NewBlock(invalid) \in Block /\ NewBlock(invalid).key = pc
           /\ MadeFrom(NewBlock(invalid), pc) /\ Embeds(NewBlock(invalid))
<1>1. pc \in Keys /\ job \in Job /\ MadeFrom(job, pc)
  BY JobFacts DEF CInv
<1> DEFINE b == NewBlock(invalid)
<1>2. b \in Block /\ b.key = pc
  BY <1>1, NewBlockTyped DEF NewBlock
<1>3. b.local = job.local /\ b.places = job.places /\ b.instrs = job.instrs /\ b.values = job.values
  BY DEF NewBlock
<1>4. b.embedded = [w \in job.literals \ invalid |-> memory[w]]
  BY DEF NewBlock
<1> HIDE DEF b
<1>5. MadeFrom(b, pc)
  BY <1>1, <1>3 DEF MadeFrom, MadeFromCode
<1>6. Embeds(b)
  BY <1>1, <1>3, <1>4 DEF Embeds, MadeFrom, MadeFromCode
<1> QED BY <1>2, <1>5, <1>6 DEF b

LEMMA CompileKeeps == ASSUME TypeOK, CInv, Compile PROVE CInv'
<1>1. /\ job # NoJob /\ ~\E c \in candidates : Restorable(c)
      /\ candidates' = {c \in candidates : c.instrs # job.instrs}
      /\ RegisterBlock(NewBlock(KnownInvalid), FALSE)
      /\ freed' = (freed \union (candidates \ candidates')) \intersect Referenced
  BY DEF Compile
<1>2. job.literals \ DOMAIN job.values \subseteq KnownInvalid
  BY <1>1, JobFacts DEF CInv, KnownInvalid
<1> DEFINE b == NewBlock(KnownInvalid)
<1>3. b \in Block /\ b.key = pc /\ MadeFrom(b, pc) /\ Embeds(b)
  BY <1>1, <1>2, NewBlockSound
<1>4. b \notin Live \union candidates
  BY <1>1, NewBlockIsNew
<1>5. RegisterBlock(b, FALSE)
  BY <1>1
<1> HIDE DEF b
<1>6. freed' = {}
  <2> SUFFICES ASSUME NEW c \in candidates \ candidates', c \in Referenced PROVE FALSE
    BY <1>1 DEF CInv, BlocksInv
  <2>1. c \notin {blocks'[k] : k \in Keys} \ {NoBlock}
    <3> SUFFICES ASSUME NEW k \in Keys, blocks'[k] = c PROVE FALSE
      OBVIOUS
    <3>1. blocks'[k] = b \/ blocks'[k] = blocks[k]
      BY <1>5 DEF RegisterBlock
    <3> QED BY <1>4, <3>1 DEF CInv, BlocksInv, Filed, TypeOK
  <2>2. c \notin UNION Range(ranges')
    <3> SUFFICES ASSUME NEW r \in Ranges, c \in ranges'[r] PROVE FALSE
      <4>1. DOMAIN ranges' = Ranges
        BY <1>5 DEF RegisterBlock
      <4> QED BY <4>1 DEF Range
    <3>1. c \in ranges[r] \/ c = b
      BY <1>5 DEF RegisterBlock
    <3> QED BY <1>4, <3>1, ListedIsFiled DEF CInv
  <2> QED BY <2>1, <2>2 DEF Referenced
<1>7. candidates' \subseteq candidates /\ b \notin candidates'
  BY <1>1, <1>4
<1> QED BY <1>1, <1>3, <1>5, <1>6, <1>7, RegisterKeeps

\* After a reset the new block is the only one.
LEMMA CompileAfterResetKeeps ==
    ASSUME TypeOK, CInv, CompileAfterReset, UNCHANGED events
    PROVE  CInv'
<1>1. /\ job # NoJob /\ ~\E c \in candidates : Restorable(c)
      /\ candidates' = {} /\ RegisterBlock(NewBlock({}), TRUE)
      /\ freed' = (freed \union Live \union candidates) \intersect Referenced
  BY DEF CompileAfterReset
<1>2. job.literals \ DOMAIN job.values \subseteq {}
  BY RegionAssumption DEF CompileAfterReset, TypeOK
<1> DEFINE b == NewBlock({})
<1>3. b \in Block /\ b.key = pc /\ MadeFrom(b, pc) /\ Embeds(b)
  BY <1>1, <1>2, NewBlockSound
<1>4. b \notin Live \union candidates
  BY <1>1, NewBlockIsNew
<1>5. RegisterBlock(b, TRUE)
  BY <1>1
<1> HIDE DEF b
<1>6. pc \in Keys /\ b.local = job.local /\ freed = {} /\ Windows
  BY <1>1, <1>3, JobFacts DEF CInv, BlocksInv, MadeFrom
<1>7. UNCHANGED <<memory, bank, window>> /\ pc' = NoKey /\ job' = NoJob
  BY <1>5 DEF RegisterBlock
<1>8. \A k \in Keys : blocks'[k] = IF k = pc THEN b ELSE NoBlock
  BY <1>5 DEF RegisterBlock
<1>9. \A r \in Ranges : ranges'[r] = IF r \in RangesOf(b) THEN {b} ELSE {}
  <2> SUFFICES ASSUME NEW r \in Ranges
               PROVE  ranges'[r] = IF r \in RangesOf(b) THEN {b} ELSE {}
    OBVIOUS
  <2>1. ranges'[r] = (IF Cleared(r) THEN {} ELSE ranges[r])
                     \union (IF r \in RangesOf(b) THEN {b} ELSE {})
    BY <1>5 DEF RegisterBlock
  <2>2. ranges[r] # {} => Cleared(r)
    BY ClearedAll DEF CInv
  <2> QED BY <2>1, <2>2
<1>10. \A r \in Ranges : {w \in Masks(b) : RangeOf(w) = r} \subseteq code'[r]
  BY <1>5 DEF RegisterBlock
<1>11. \A w \in Words :
         lookup'[w] = IF w = job.local THEN [tag |-> pc, block |-> b] ELSE NoEntry
  BY <1>5 DEF RegisterBlock
<1>12. Masks(b) \subseteq Words
  BY <1>3, MasksAreWords
<1>13. Sound'
  <2> SUFFICES ASSUME NEW k \in Keys, NEW d \in Block, blocks'[k] = d
               PROVE  d.key = k /\ MadeFrom(d, k)' /\ Embeds(d)
    BY DEF Sound, Embeds
  <2>1. d.key = k /\ MadeFrom(d, k) /\ Embeds(d)
    BY <1>3, <1>8, NoneAssumption
  <2> QED BY <1>7, <2>1, MadeFromStill
<1>14. Kept'
  BY <1>1 DEF Kept
<1>15. Listed'
  <2> SUFFICES ASSUME NEW r \in Ranges, NEW d \in Block, d \in ranges'[r]
               PROVE  blocks'[d.key] = d /\ r \in RangesOf(d)
    BY DEF Listed, RangesOf, Masks, RangeOf
  <2>1. d = b /\ r \in RangesOf(b)
    BY <1>9
  <2> QED BY <1>3, <1>6, <1>8, <2>1
<1>16. Filed'
  <2> SUFFICES ASSUME NEW k \in Keys, NEW d \in Block, blocks'[k] = d
               PROVE  Indexed(d)'
    BY <1>1 DEF Filed
  <2>1. d = b
    BY <1>8, NoneAssumption
  <2>2. ASSUME NEW x \in Masks(b) PROVE b \in ranges'[RangeOf(x)] /\ x \in code'[RangeOf(x)]
    BY <1>9, <1>10, <1>12 DEF Ranges, RangesOf
  <2> QED BY <2>1, <2>2 DEF Indexed, Masks, RangeOf
<1>17. Entries'
  <2> SUFFICES ASSUME NEW w \in Words, lookup'[w] # NoEntry
               PROVE  /\ lookup'[w].tag \in Keys
                      /\ lookup'[w].block = blocks'[lookup'[w].tag]
                      /\ lookup'[w].block # NoBlock /\ lookup'[w].block.local = w
    BY DEF Entries, NoEntry
  <2> QED BY <1>3, <1>6, <1>8, <1>11, NoneAssumption
<1>18. freed' = {}
  <2> SUFFICES ASSUME NEW c \in Live \union candidates, c \in Referenced PROVE FALSE
    BY <1>1, <1>6
  <2>1. c \notin {blocks'[k] : k \in Keys} \ {NoBlock}
    BY <1>4, <1>8
  <2>2. c \notin UNION Range(ranges')
    <3>1. DOMAIN ranges' = Ranges
      BY <1>5 DEF RegisterBlock
    <3> QED BY <1>4, <1>9, <3>1 DEF Range
  <2> QED BY <1>1, <2>1, <2>2 DEF Referenced
<1>19. Protected'
  <2>1. \A p \in Pages : pages'[p] = "unmapped"
    BY <1>5 DEF RegisterBlock
  <2> QED BY <2>1 DEF Protected
<1>20. JobCurrent' /\ Windows'
  BY <1>6, <1>7, NoJobNoClaim DEF Windows
<1> QED BY <1>13, <1>14, <1>15, <1>16, <1>17, <1>18, <1>19, <1>20 DEF CInv, BlocksInv

-----------------------------------------------------------------------------
(* The invariant holds, and what follows from it.                          *)

LEMMA InitEstablishes == Init => CInv
<1> SUFFICES ASSUME Init PROVE CInv
  OBVIOUS
<1>1. Sound /\ Filed
  BY NoneAssumption DEF Init, Sound, Filed
<1>2. Kept /\ Listed /\ Entries /\ JobCurrent /\ Protected
  BY DEF Init, Kept, Listed, Entries, JobCurrent, Protected
<1>3. Windows /\ freed = {}
  BY DEF Init, Windows
<1> QED BY <1>1, <1>2, <1>3 DEF CInv, BlocksInv

LEMMA WriteKeeps ==
    ASSUME TypeOK, CInv, NEW w \in Words, NEW v \in Values, Write(w, v), UNCHANGED events
    PROVE  CInv'
<1>1. CASE /\ UNCHANGED cacheVars
           /\ pages[PageOf(w)] = "rw" \/ w \notin code[RangeOf(w)]
  BY <1>1, UnnoticedWriteKeeps
<1>2. CASE InvalidateByAddr(w)
  BY <1>2, InvalidatingWriteKeeps
<1> QED BY <1>1, <1>2 DEF Write, CheckAndInvalidate

LEMMA NextKeeps ==
    ASSUME TypeOK, CInv, [Next]_vars, UNCHANGED events
    PROVE  CInv'
<1>1. CASE (\E k \in Keys : Jump(k)) \/ Leave \/ Dispatch \/ UNCHANGED vars
  BY <1>1, MovesKeep
<1>2. CASE CompileBlock
  BY <1>2, SwitchKeeps, FetchKeeps, RestoreKeeps, CompileKeeps, CompileAfterResetKeeps
     DEF CompileBlock
<1>3. CASE \E w \in Words, v \in Values : Write(w, v)
  BY <1>3, WriteKeeps
<1>4. CASE MapAtAddress \/ RemapSWRAM \/ Reset
  BY <1>4, MapAtAddressKeeps, RemapKeeps, ResetKeeps
<1> QED BY <1>1, <1>2, <1>3, <1>4 DEF Next

\* The count of events only grows.
LEMMA EventsGrow ==
    ASSUME TypeOK, [Next]_vars, events' = 0
    PROVE  events = 0
<1>1. events \in Nat
  BY RegionAssumption DEF TypeOK
<1>2. UNCHANGED events \/ events' = events + 1
  BY DEF Next, Jump, Leave, Dispatch, CompileBlock, Switch, Fetch, Restore, Compile,
         CompileAfterReset, Write, MapAtAddress, RemapSWRAM, Reset, vars, cpuVars
<1> QED BY <1>1, <1>2

LEMMA InvariantHolds == Spec => []IInv
<1>1. Init => IInv
  BY InitTyped, InitEstablishes DEF IInv
<1>2. IInv /\ [Next]_vars => IInv'
  <2> SUFFICES ASSUME IInv, [Next]_vars PROVE IInv'
    OBVIOUS
  <2>1. TypeOK /\ TypeOK'
    BY NextTyped DEF IInv
  <2>2. ASSUME events' = 0 PROVE CInv'
    BY <2>1, <2>2, EventsGrow, NextKeeps DEF IInv
  <2> QED BY <2>1, <2>2 DEF IInv
<1> QED BY <1>1, <1>2, PTL DEF Spec

LEMMA FiledIsLive ==
    ASSUME TypeOK, NEW b
    PROVE  b \in Live <=> b \in Block /\ \E k \in Keys : blocks[k] = b
BY NoneAssumption DEF TypeOK, Live

LEMMA MadeIsCurrent ==
    ASSUME NEW b, NEW k, MadeFrom(b, k), Embeds(b)
    PROVE  Current(b, k)
BY DEF MadeFrom, MadeFromCode, Embeds, Current

\* No block out of date is run: for every set of jumps, every interleaving of
\* compilation, restoring and dispatch by the two CPUs (ARMJIT::CompileBlock)
\* with writes that go through the slow functions or straight into mapped pages
\* (CheckAndInvalidate, SetCodeProtection), full code memory and resets.
THEOREM NoBlockOutOfDate == Spec => []RunsWhatIsThere
<1>1. IInv => RunsWhatIsThere
  <2> SUFFICES ASSUME IInv, events = 0, NEW k \in Keys
               PROVE  /\ window[k.cpu] # NoKey /\ Hit(k) => Current(Entry(k).block, k)
                      /\ blocks[k] # NoBlock => Current(blocks[k], k)
    BY DEF RunsWhatIsThere
  <2>1. TypeOK /\ Sound /\ Entries /\ Windows
    BY DEF IInv, CInv, BlocksInv
  <2>2. ASSUME blocks[k] # NoBlock PROVE Current(blocks[k], k)
    BY <2>1, <2>2, MadeIsCurrent DEF Sound, TypeOK
  <2>3. ASSUME window[k.cpu] # NoKey, Hit(k) PROVE Current(Entry(k).block, k)
    <3>1. window[k.cpu] = bank
      BY <2>1, <2>3, KeyFacts DEF Windows
    <3>2. Entry(k) = lookup[Start(k)] /\ Start(k) \in Words
      BY <2>1, <3>1, StartTyped DEF Entry, Start, Localise
    <3>3. lookup[Start(k)].tag = k /\ lookup[Start(k)] # NoEntry
      BY <2>3, <3>2, KeyFacts DEF Hit, NoEntry
    <3>4. Entry(k).block = blocks[k] /\ blocks[k] # NoBlock
      BY <2>1, <3>2, <3>3 DEF Entries
    <3> QED BY <2>2, <3>4
  <2> QED BY <2>2, <2>3
<1> QED BY <1>1, InvariantHolds, PTL

\* The block map, the lists of the ranges with their masks, the entries that are
\* jumped through and the blocks kept for later agree with each other, and no
\* deleted block is still referred to (ARMJIT::InvalidateByAddr, ResetBlockCache).
THEOREM IndexesAlwaysAgree == Spec => []IndexesAgree
<1>1. IInv => IndexesAgree
  <2> SUFFICES ASSUME IInv, events = 0
               PROVE  /\ \A b \in Live : Indexed(b) /\ b \notin candidates
                      /\ (UNION Range(ranges)) \subseteq Live
                      /\ {e.block : e \in Range(lookup) \ {NoEntry}} \subseteq Live
                      /\ freed = {}
    BY DEF IndexesAgree
  <2>1. TypeOK /\ BlocksInv /\ Filed /\ Entries /\ freed = {}
    BY DEF IInv, CInv, BlocksInv
  <2>2. \A b \in Live : Indexed(b) /\ b \notin candidates
    BY <2>1, FiledIsLive DEF Filed
  <2>3. (UNION Range(ranges)) \subseteq Live
    <3> SUFFICES ASSUME NEW r \in Ranges, NEW b \in ranges[r] PROVE b \in Live
      BY <2>1 DEF Range, TypeOK
    <3> QED BY <2>1, ListedIsFiled, FiledIsLive
  <2>4. {e.block : e \in Range(lookup) \ {NoEntry}} \subseteq Live
    <3> SUFFICES ASSUME NEW w \in Words, lookup[w] # NoEntry PROVE lookup[w].block \in Live
      BY <2>1 DEF Range, TypeOK
    <3> QED BY <2>1 DEF Entries, TypeOK, Live
  <2> QED BY <2>1, <2>2, <2>3, <2>4
<1> QED BY <1>1, InvariantHolds, PTL

\* A page that fast memory writes to without a check holds no code, and a page
\* without code is not protected, however ranges lie in pages
\* (ARMJIT_Memory::SetCodeProtection, MapAtAddress).
THEOREM CodeIsProtected == Spec => []ProtectedWhereCodeIs
<1>1. IInv => ProtectedWhereCodeIs
  BY DEF IInv, CInv, Protected, ProtectedWhereCodeIs
<1> QED BY <1>1, InvariantHolds, PTL

\* A jump that finds its block only under another mirror's entry finds it after
\* the switch (the first branch of ARMJIT::CompileBlock).
THEOREM SwitchAlwaysHelps == Spec => SwitchHelps
<1>1. IInv /\ [Next]_vars => [Switch /\ events = 0 => Hit(pc)']_vars
  <2> SUFFICES ASSUME IInv, Switch, events = 0 PROVE Hit(pc)'
    OBVIOUS
  <2>1. TypeOK /\ Windows /\ pc \in Keys
    BY DEF IInv, CInv, Switch, TypeOK
  <2>2. window[pc.cpu] = bank /\ pc' = pc /\ window' = window
    BY <2>1 DEF Windows, Switch, cpuVars
  <2>3. lookup'[Start(pc)] = [tag |-> pc, block |-> blocks[pc]]
    BY <2>1, StartTyped DEF Switch, TypeOK
  <2>4. Start(pc) = LocaliseIn(window[pc.cpu], pc.start)
    BY <2>2 DEF Start, Localise
  <2> QED BY <2>2, <2>3, <2>4 DEF Hit, Entry, LocaliseIn
<1> QED BY <1>1, InvariantHolds, PTL DEF Spec, SwitchHelps
=============================================================================
