------------------------- MODULE SaveManager_proofs -------------------------
(***************************************************************************)
(* Proofs about SaveManager, for every size of the save memory and every   *)
(* number of changes to it.                                                *)
(***************************************************************************)
EXTENDS SaveManager, TLAPS

\* The cells a command has written: around the end of the save memory.
Written(off, len) == {(off + i) % SaveLen : i \in 0..(len - 1)}
Changed == IF writing THEN Written(SRAMFirstAddr, SRAMAddr - SRAMFirstAddr) ELSE {}

-----------------------------------------------------------------------------
(* What a version is, and what a partial copy covers.                      *)

LEMMA ContentIsNotNone == ASSUME NEW b \in Content PROVE b # None
<1>1. 0 \in DOMAIN b
  BY SaveAssumption DEF Content, Cells
<1>2. 0 \notin DOMAIN None
  BY DEF None
<1> QED BY <1>1, <1>2

LEMMA ModuloOnceAround ==
    ASSUME NEW x \in Nat, x < 2 * SaveLen
    PROVE  x % SaveLen = IF x < SaveLen THEN x ELSE x - SaveLen
<1>1. SaveLen \in Nat /\ SaveLen > 0
  BY SaveAssumption
<1> QED BY <1>1, Z3

\* The copy covers every cell the core wrote: also those beyond the end of the
\* save memory, which the core writes at its start.
LEMMA CopyCoversWrite ==
    ASSUME NEW off \in Cells, NEW len \in 0..MaxLen
    PROVE  Written(off, len) \subseteq Copied(off, len)
<1>0. SaveLen \in Nat /\ SaveLen > 0
  BY SaveAssumption
<1> SUFFICES ASSUME NEW i \in 0..(len - 1)
             PROVE  (off + i) % SaveLen \in Copied(off, len)
  BY DEF Written
<1>1. off + i \in Nat /\ off + i < 2 * SaveLen
  BY <1>0 DEF Cells, MaxLen
<1>2. CASE off + i < SaveLen
  <2>1. (off + i) % SaveLen = off + i
    BY <1>1, <1>2, ModuloOnceAround
  <2> QED BY <1>0, <1>2, <2>1 DEF Copied, Cells
<1>3. CASE ~ (off + i < SaveLen)
  <2> DEFINE x == off + i
  <2>1. x % SaveLen = x - SaveLen
    <3>1. x \in Nat /\ x < 2 * SaveLen /\ ~ (x < SaveLen)
      BY <1>1, <1>3
    <3> HIDE DEF x
    <3> QED BY <3>1, ModuloOnceAround
  <2> QED BY <1>0, <1>1, <1>3, <2>1 DEF Copied, Cells
<1> QED BY <1>2, <1>3

LEMMA WrittenGrows ==
    ASSUME NEW off \in Nat, NEW len \in Nat
    PROVE  Written(off, len) \subseteq Written(off, len + 1)
           /\ (off + len) % SaveLen \in Written(off, len + 1)
BY DEF Written

\* What a file holds of a buffer.
LEMMA FirstBegins ==
    ASSUME NEW n \in 0..SaveLen, NEW b \in Content
    PROVE  First(n, b) \in Files /\ Begins(First(n, b), b)
<1>1. 0..(n - 1) \subseteq Cells
  BY SaveAssumption DEF Cells
<1>2. First(n, b) \in [0..(n - 1) -> Nat]
  BY <1>1 DEF First, Content
<1> QED BY <1>1, <1>2 DEF First, Begins, Files

\* A version once handed over stays what it is.
LEMMA VersionsStay ==
    ASSUME handedOver \in Seq(Content), Len(handedOver) = FlushVersion,
           NEW b \in Content, handedOver' = Append(handedOver, b),
           NEW v \in 0..FlushVersion
    PROVE  Version(v)' = Version(v)
BY DEF Version

-----------------------------------------------------------------------------
(* The inductive invariant.                                                *)

\* The lock is held by whoever is writing; the owner flushes when the manager's
\* thread has ended, and that has ended when the emulator thread is gone.
Order ==
    /\ SecondaryBufferLock = "saver" <=> saver = "writing"
    /\ SecondaryBufferLock = "owner" <=> owner = "writing"
    /\ Running <=> owner = "alive"
    /\ owner # "alive" => emu = "gone"
    /\ saver = "ended" => owner # "alive"
    /\ owner \in {"flushing", "writing", "gone"} => saver = "ended"

\* What has been handed over is in SecondaryBuffer, and a flush has something to
\* write.
HandedOver ==
    /\ SecondaryBuffer = IF FlushVersion = 0 THEN None ELSE handedOver[FlushVersion]
    /\ saver \in {"flushing", "writing"} => FlushVersion # 0
    /\ owner \in {"flushing", "writing"} => FlushVersion # 0
    /\ owner = "gone" => PreviousFlushVersion = FlushVersion

\* Only the cells of the command under way are ahead of Buffer.
Copies == Length # 0 => \A c \in Cells : c \notin Changed => Buffer[c] = sram[c]

\* The file being written holds nothing of an older version.
Flushing ==
    saver = "writing" \/ owner = "writing" => openFailed \/ Begins(file, SecondaryBuffer)

IInv == TypeOK /\ Copies /\ Order /\ HandedOver /\ Flushing
        /\ FileIsFlushedVersion /\ FileIsOfOneVersion

LEMMA InitEstablishes == Init => IInv
<1> SUFFICES ASSUME Init PROVE IInv
  OBVIOUS
<1>0. Blank \in Content /\ SaveLen \in 0..SaveLen /\ 0 \in Cells
  BY SaveAssumption DEF Blank, Content, Cells
<1>1. First(SaveLen, Blank) \in Files /\ Begins(file, Blank)
  BY <1>0, FirstBegins DEF Init
<1>2. TypeOK
  <2>1. SRAMFirstAddr \in Cells /\ SRAMAddr \in SRAMFirstAddr..(SRAMFirstAddr + MaxLen)
    BY <1>0, SaveAssumption DEF Init, MaxLen
  <2>2. file \in Files /\ sram \in Content /\ Buffer \in Content
    BY <1>0, <1>1 DEF Init
  <2>3. handedOver \in Seq(Content) /\ Len(handedOver) = FlushVersion
    BY DEF Init
  <2>4. writes \in 0..MaxWrites /\ writing \in BOOLEAN /\ FlushVersion \in Nat
        /\ PreviousFlushVersion \in 0..FlushVersion /\ SecondaryBuffer \in Content \cup {None}
    <3>1. /\ writes = 0 /\ writing = FALSE /\ FlushVersion = 0 /\ PreviousFlushVersion = 0
          /\ SecondaryBuffer = None
      BY DEF Init
    <3>2. 0 \in 0..MaxWrites /\ 0 \in 0..0
      BY SaveAssumption
    <3> QED BY <3>1, <3>2
  <2> QED BY <2>1, <2>2, <2>3, <2>4 DEF Init, TypeOK
<1>3. Copies /\ Order
  BY DEF Init, Copies, Order
<1>4. HandedOver /\ Flushing
  BY DEF Init, HandedOver, Flushing
<1>5. FileIsFlushedVersion /\ FileIsOfOneVersion
  BY <1>1 DEF Init, FileIsFlushedVersion, FileIsOfOneVersion, Version
<1> QED BY <1>2, <1>3, <1>4, <1>5 DEF IInv

\* Steps of the game that reach neither the file nor the versions.
LEMMA RestOfWrite ==
    ASSUME IInv,
           UNCHANGED <<flushVars, SecondaryBufferLock, PreviousFlushVersion, Running, emu, saver, owner, fileVars>>
    PROVE  Order' /\ HandedOver' /\ Flushing' /\ FileIsFlushedVersion' /\ FileIsOfOneVersion'
<1> USE DEF IInv, flushVars, fileVars
<1>1. Order' /\ HandedOver'
  BY DEF Order, HandedOver
<1>2. Flushing'
  BY DEF Flushing, Begins
<1>3. FileIsFlushedVersion'
  BY DEF FileIsFlushedVersion, Version, Begins
<1>4. FileIsOfOneVersion'
  BY DEF FileIsOfOneVersion, Version, Begins
<1> QED BY <1>1, <1>2, <1>3, <1>4

LEMMA BeginWriteKeeps == ASSUME IInv, BeginWrite PROVE IInv'
<1> USE SaveAssumption DEF IInv
<1>1. TypeOK'
  <2>1. writes' \in 0..MaxWrites /\ writing' \in BOOLEAN /\ SRAMFirstAddr' \in Cells
    BY DEF BeginWrite, TypeOK
  <2>2. SRAMAddr' \in SRAMFirstAddr'..(SRAMFirstAddr' + MaxLen)
    <3>1. SRAMAddr' = SRAMFirstAddr' /\ SRAMFirstAddr' \in Nat
      BY <2>1 DEF BeginWrite, Cells
    <3>2. MaxLen \in Nat
      BY DEF MaxLen
    <3>3. \A a \in Nat : a \in a..(a + MaxLen)
      BY <3>2
    <3> QED BY <3>1, <3>3, Zenon
  <2>3. UNCHANGED <<sram, Buffer, Length, FlushRequested, SecondaryBuffer, FlushVersion,
                    TimeAtLastFlushRequest, handedOver, SecondaryBufferLock, PreviousFlushVersion,
                    Running, emu, saver, owner, file, openFailed>>
    BY DEF BeginWrite, flushVars, fileVars
  <2> QED BY <2>1, <2>2, <2>3 DEF TypeOK
<1>2. Copies'
  <2>1. CASE Length = 0
    BY <2>1 DEF BeginWrite, Copies
  <2>2. CASE Length # 0
    BY <2>2 DEF BeginWrite, Copies, Changed
  <2> QED BY <2>1, <2>2
<1> QED BY <1>1, <1>2, RestOfWrite DEF BeginWrite

LEMMA WriteCellKeeps == ASSUME IInv, WriteCell PROVE IInv'
<1> USE SaveAssumption DEF IInv
<1> DEFINE len == SRAMAddr - SRAMFirstAddr
<1>1. /\ SRAMFirstAddr \in Nat /\ SRAMAddr \in Nat /\ len \in Nat /\ SRAMFirstAddr + len = SRAMAddr
      /\ SRAMAddr' - SRAMFirstAddr' = len + 1 /\ len < MaxLen /\ writing /\ writing'
  BY DEF WriteCell, TypeOK, Cells, MaxLen
<1>2. TypeOK'
  <2>1. sram' \in Content
    <3>1. writes \in Nat /\ sram \in [Cells -> Nat]
      BY DEF TypeOK, Content
    <3> QED BY <3>1 DEF WriteCell, Content
  <2>2. SRAMAddr' \in SRAMFirstAddr'..(SRAMFirstAddr' + MaxLen)
    BY <1>1 DEF WriteCell, TypeOK, Cells, MaxLen
  <2>3. UNCHANGED <<writing, SRAMFirstAddr, writes, Buffer, Length, FlushRequested, flushVars,
                    SecondaryBufferLock, PreviousFlushVersion, Running, emu, saver, owner, fileVars>>
    BY DEF WriteCell
  <2> QED BY <2>1, <2>2, <2>3 DEF TypeOK, flushVars, fileVars
<1>3. Copies'
  <2> SUFFICES ASSUME Length' # 0, NEW c \in Cells, c \notin Changed' PROVE Buffer'[c] = sram'[c]
    BY DEF Copies
  <2>1. Changed' = Written(SRAMFirstAddr, len + 1) /\ Changed = Written(SRAMFirstAddr, len)
    BY <1>1 DEF Changed, Written, WriteCell
  <2>2. c \notin Changed /\ c # SRAMAddr % SaveLen
    BY <1>1, <2>1, WrittenGrows
  <2>3. Buffer[c] = sram[c] /\ Buffer' = Buffer
    BY <2>2 DEF WriteCell, Copies
  <2> QED BY <2>2, <2>3 DEF WriteCell, TypeOK, Content
<1> QED BY <1>2, <1>3, RestOfWrite DEF WriteCell

\* A report: of the command's cells, or of all of them.
LEMMA ReportKeeps ==
    ASSUME IInv, sram' \in Content, writes' \in 0..MaxWrites, NoCommand,
           NEW off \in Cells, NEW len \in 0..MaxLen, RequestFlush(off, len),
           \A c \in Cells : c \notin Written(off, len) /\ Length # 0 => Buffer[c] = sram'[c],
           UNCHANGED <<flushVars, SecondaryBufferLock, PreviousFlushVersion, Running, emu, saver, owner, fileVars>>
    PROVE  IInv'
<1> USE SaveAssumption DEF IInv
<1>1. TypeOK'
  <2>1. Buffer' \in Content
    BY DEF RequestFlush, TypeOK, Content
  <2>2. SRAMFirstAddr' \in Cells /\ SRAMAddr' \in SRAMFirstAddr'..(SRAMFirstAddr' + MaxLen)
    BY DEF NoCommand, Cells, MaxLen
  <2> QED BY <2>1, <2>2 DEF TypeOK, RequestFlush, NoCommand, flushVars, fileVars
<1>2. Copies'
  <2> SUFFICES ASSUME NEW c \in Cells PROVE Buffer'[c] = sram'[c]
    BY DEF Copies
  <2>1. CASE c \in Copied(off, len)
    BY <2>1 DEF RequestFlush
  <2>2. CASE c \notin Copied(off, len)
    <3>1. Length # 0
      BY <2>2 DEF Copied
    <3>2. c \notin Written(off, len)
      BY <2>2, CopyCoversWrite
    <3> QED BY <2>2, <3>1, <3>2 DEF RequestFlush
  <2> QED BY <2>1, <2>2
<1> QED BY <1>1, <1>2, RestOfWrite

LEMMA EndWriteKeeps == ASSUME IInv, EndWrite PROVE IInv'
<1> USE SaveAssumption DEF IInv
<1> DEFINE len == SRAMAddr - SRAMFirstAddr
<1>1. SRAMFirstAddr \in Cells /\ len \in 0..MaxLen
  BY DEF TypeOK, Cells, MaxLen
<1>2. \A c \in Cells : c \notin Written(SRAMFirstAddr, len) /\ Length # 0 => Buffer[c] = sram'[c]
  BY DEF EndWrite, Copies, Changed
<1> HIDE DEF len
<1>3. sram' \in Content /\ writes' \in 0..MaxWrites
  BY DEF EndWrite, TypeOK
<1>4. RequestFlush(SRAMFirstAddr, len) /\ NoCommand
      /\ UNCHANGED <<flushVars, SecondaryBufferLock, PreviousFlushVersion, Running, emu, saver, owner, fileVars>>
  BY DEF EndWrite, len
<1> HIDE DEF IInv
<1> QED BY <1>1, <1>2, <1>3, <1>4, ReportKeeps

LEMMA LoadStateKeeps == ASSUME IInv, LoadState PROVE IInv'
<1>1. 0 \in Cells /\ SaveLen \in 0..MaxLen /\ SaveLen \in Nat /\ SaveLen > 0
  BY SaveAssumption DEF Cells, MaxLen
<1>2. sram' \in Content /\ writes' \in 0..MaxWrites
  BY SaveAssumption DEF LoadState, IInv, TypeOK, Content
<1>3. Cells \subseteq Written(0, SaveLen)
  <2> SUFFICES ASSUME NEW c \in Cells PROVE c \in Written(0, SaveLen)
    OBVIOUS
  <2>1. c \in 0..(SaveLen - 1) /\ c \in Nat /\ c < SaveLen
    BY <1>1 DEF Cells
  <2>2. c % SaveLen = c /\ 0 + c = c
    BY <1>1, <2>1, ModuloOnceAround
  <2> QED BY <2>1, <2>2 DEF Written
<1>4. RequestFlush(0, SaveLen) /\ NoCommand
      /\ UNCHANGED <<flushVars, SecondaryBufferLock, PreviousFlushVersion, Running, emu, saver, owner, fileVars>>
  BY DEF LoadState
<1> QED BY <1>1, <1>2, <1>3, <1>4, ReportKeeps

\* CheckFlush: nothing was requested, or Buffer becomes a new version.
LEMMA EndFrameKeeps ==
    ASSUME IInv, EndFrame
    PROVE  IInv'
<1> USE DEF IInv
<1>0. /\ emu = "inFrame" /\ emu' \in {"inFrame", "paused", "gone"}
      /\ UNCHANGED <<SecondaryBufferLock, PreviousFlushVersion, Running, saver, owner, file, openFailed,
                  writing, SRAMFirstAddr, SRAMAddr>>
  BY DEF EndFrame, fileVars, spiVars
<1>1. CASE ~ FlushRequested
  <2>1. UNCHANGED <<sram, writes, Buffer, Length, FlushRequested,
                    SecondaryBuffer, FlushVersion, TimeAtLastFlushRequest, handedOver>>
    BY <1>1 DEF EndFrame, CheckFlush, spiVars, gameVars, flushVars
  <2>2. TypeOK'
    BY <1>0, <2>1 DEF TypeOK
  <2>3. Copies' /\ Order'
    BY <1>0, <2>1 DEF Copies, Changed, Written, Order
  <2>4. HandedOver' /\ Flushing'
    BY <1>0, <2>1 DEF HandedOver, Flushing, Begins
  <2>5. FileIsFlushedVersion' /\ FileIsOfOneVersion'
    BY <1>0, <2>1 DEF FileIsFlushedVersion, FileIsOfOneVersion, Begins, Version
  <2> QED BY <2>2, <2>3, <2>4, <2>5
<1>2. CASE FlushRequested
  <2>1. /\ SecondaryBufferLock = "free"
        /\ SecondaryBuffer' = Buffer /\ FlushRequested' = FALSE
        /\ FlushVersion' = FlushVersion + 1
        /\ TimeAtLastFlushRequest' = "recent"
        /\ handedOver' = Append(handedOver, Buffer)
        /\ UNCHANGED <<sram, writes, Buffer, Length>>
    BY <1>2 DEF EndFrame, CheckFlush
  <2>2. /\ Buffer \in Content /\ handedOver \in Seq(Content)
        /\ FlushVersion \in Nat /\ Len(handedOver) = FlushVersion
        /\ PreviousFlushVersion \in 0..FlushVersion
    BY DEF TypeOK
  <2>3. /\ handedOver' \in Seq(Content) /\ Len(handedOver') = FlushVersion'
        /\ handedOver'[FlushVersion'] = Buffer
        /\ FlushVersion' \in Nat /\ FlushVersion' # 0
        /\ PreviousFlushVersion' \in 0..FlushVersion'
    BY <1>0, <2>1, <2>2
  <2>4. \A v \in 0..FlushVersion : Version(v)' = Version(v)
    BY <2>1, <2>2, VersionsStay
  <2>5. TypeOK'
    BY <1>0, <2>1, <2>3 DEF TypeOK
  <2>6. Copies' /\ Order'
    BY <1>0, <2>1 DEF Copies, Changed, Written, Order
  <2>7. HandedOver' /\ Flushing'
    BY <1>0, <2>1, <2>3 DEF HandedOver, Flushing, Begins, Order
  <2>8. FileIsFlushedVersion'
    <3>1. Version(PreviousFlushVersion)' = Version(PreviousFlushVersion)
      BY <1>0, <2>2, <2>4 DEF Version
    <3> QED BY <1>0, <3>1 DEF FileIsFlushedVersion, Begins
  <2>9. FileIsOfOneVersion'
    <3>1. PICK v \in 0..FlushVersion : Begins(file, Version(v))
      BY DEF FileIsOfOneVersion
    <3>2. v \in 0..FlushVersion' /\ Begins(file, Version(v))'
      BY <1>0, <2>1, <2>2, <2>4, <3>1 DEF Begins
    <3> QED BY <3>2 DEF FileIsOfOneVersion, Version
  <2> QED BY <2>5, <2>6, <2>7, <2>8, <2>9
<1> QED BY <1>1, <1>2

\* Steps that touch neither the file nor the versions.
LEMMA QuietKeeps ==
    ASSUME IInv, Unpause \/ Tick \/ StopRunning
    PROVE  IInv'
<1> USE DEF IInv
<1>1. TypeOK'
  <2>1. CASE Unpause
    BY <2>1 DEF TypeOK, Unpause, spiVars, gameVars, flushVars, fileVars
  <2>2. CASE Tick
    BY <2>2 DEF TypeOK, Tick, spiVars, gameVars, fileVars
  <2>3. CASE StopRunning
    BY <2>3, ZenonT(30) DEF TypeOK, StopRunning, spiVars, gameVars, flushVars, fileVars
  <2> QED BY <2>1, <2>2, <2>3
<1>2. Copies'
  BY DEF Copies, Changed, Written, Unpause, Tick, StopRunning, spiVars, gameVars, flushVars, fileVars
<1>3. Order'
  BY DEF Order, Unpause, Tick, StopRunning, spiVars, gameVars, flushVars, fileVars
<1>4. HandedOver'
  BY DEF HandedOver, Order, Unpause, Tick, StopRunning, spiVars, gameVars, flushVars, fileVars
<1>5. Flushing'
  BY DEF Flushing, Begins, Order, TypeOK, Unpause, Tick, StopRunning, spiVars, gameVars, flushVars, fileVars
<1>6. FileIsFlushedVersion'
  BY DEF FileIsFlushedVersion, Begins, Version, Order, TypeOK, Unpause, Tick, StopRunning,
         spiVars, gameVars, flushVars, fileVars
<1>7. FileIsOfOneVersion'
  BY DEF FileIsOfOneVersion, Begins, Version, Unpause, Tick, StopRunning, spiVars, gameVars,
         flushVars, fileVars
<1> QED BY <1>1, <1>2, <1>3, <1>4, <1>5, <1>6, <1>7

\* Whoever is to flush first tests whether it is worth it.
LEMMA LookKeeps ==
    ASSUME IInv, SaverLooks \/ Joined
    PROVE  IInv'
<1> USE DEF IInv
<1>1. TypeOK'
  BY DEF TypeOK, SaverLooks, Joined, spiVars, gameVars, flushVars, fileVars
<1>2. Copies'
  BY DEF Copies, Changed, Written, SaverLooks, Joined, spiVars, gameVars, flushVars, fileVars
<1>3. Order'
  BY DEF Order, SaverLooks, Joined, spiVars, gameVars, flushVars, fileVars
<1>4. HandedOver'
  <2>1. WorthFlushing => FlushVersion # 0
    BY DEF WorthFlushing, HandedOver
  <2>2. ~ WorthFlushing => PreviousFlushVersion = FlushVersion
    <3>1. FlushVersion \in Nat /\ FlushVersion # 0 => SecondaryBuffer \in Content
      BY DEF TypeOK, HandedOver
    <3>2. FlushVersion # 0 => SecondaryBuffer # None
      BY <3>1, ContentIsNotNone DEF TypeOK
    <3> QED BY <3>2 DEF WorthFlushing, NeedsFlush, TypeOK
  <2>3. UNCHANGED <<SecondaryBuffer, FlushVersion, handedOver, PreviousFlushVersion>>
    BY DEF SaverLooks, Joined, flushVars
  <2>4. CASE SaverLooks
    BY <2>1, <2>3, <2>4 DEF HandedOver, SaverLooks
  <2>5. CASE Joined
    BY <2>1, <2>2, <2>3, <2>5 DEF HandedOver, Joined
  <2> QED BY <2>4, <2>5
<1>5. Flushing'
  BY DEF Flushing, Begins, Order, TypeOK, SaverLooks, Joined, spiVars, gameVars, flushVars, fileVars
<1>6. FileIsFlushedVersion'
  BY DEF FileIsFlushedVersion, Begins, Version, Order, TypeOK, SaverLooks, Joined, spiVars, gameVars,
         flushVars, fileVars
<1>7. FileIsOfOneVersion'
  BY DEF FileIsOfOneVersion, Begins, Version, SaverLooks, Joined, spiVars, gameVars, flushVars,
         fileVars
<1> QED BY <1>1, <1>2, <1>3, <1>4, <1>5, <1>6, <1>7

\* The file is opened, and truncated, or does not open.
LEMMA OpenKeeps ==
    ASSUME IInv, SaverOpens \/ OwnerOpens
    PROVE  IInv'
<1> USE DEF IInv
<1>0. /\ \/ file' = Truncated /\ openFailed' = FALSE
         \/ UNCHANGED file /\ openFailed' = TRUE
      /\ UNCHANGED <<spiVars, gameVars, flushVars, PreviousFlushVersion, Running, emu>>
      /\ saver' = "writing" \/ owner' = "writing"
  BY DEF SaverOpens, OwnerOpens, OpenAndTruncate
<1>1. 0 \in 0..SaveLen /\ Truncated \in Files /\ DOMAIN Truncated = {}
  <2>1. Blank \in Content /\ 0 \in 0..SaveLen
    BY SaveAssumption DEF Blank, Content
  <2>2. DOMAIN First(0, Blank) = {}
    BY DEF First
  <2> QED BY <2>1, <2>2, FirstBegins DEF Truncated
<1>2. TypeOK'
  <2>1. file' \in Files
    BY <1>0, <1>1 DEF TypeOK
  <2>2. /\ SecondaryBufferLock' \in {"free", "saver", "owner"} /\ openFailed' \in BOOLEAN
        /\ saver' \in {saver, "writing"} /\ owner' \in {owner, "writing"}
    BY DEF SaverOpens, OwnerOpens, OpenAndTruncate
  <2> QED BY <1>0, <2>1, <2>2 DEF TypeOK, spiVars, gameVars, flushVars
<1>3. Copies'
  BY <1>0 DEF Copies, Changed, Written, spiVars, gameVars
<1>4. Order'
  BY DEF Order, SaverOpens, OwnerOpens, OpenAndTruncate
<1>5. HandedOver'
  BY DEF HandedOver, Order, SaverOpens, OwnerOpens, flushVars
<1>6. Flushing'
  BY <1>0, <1>1 DEF Flushing, Begins
<1>7. FileIsFlushedVersion'
  BY <1>0 DEF FileIsFlushedVersion
<1>8. FileIsOfOneVersion'
  <2>1. CASE file' = Truncated
    <3>1. 0 \in 0..FlushVersion' /\ Begins(file', Version(0)')
      BY <1>0, <1>1, <2>1 DEF Begins, TypeOK, flushVars
    <3> QED BY <3>1 DEF FileIsOfOneVersion, Version, Begins
  <2>2. CASE UNCHANGED file
    BY <1>0, <2>2 DEF FileIsOfOneVersion, Version, Begins, flushVars
  <2> QED BY <1>0, <2>1, <2>2
<1> QED BY <1>2, <1>3, <1>4, <1>5, <1>6, <1>7, <1>8

\* More of SecondaryBuffer reaches the file.
LEMMA WriteMoreKeeps ==
    ASSUME IInv, NEW me \in {"saver", "owner"}, WriteMore(me)
    PROVE  IInv'
<1> USE DEF IInv
<1>0. /\ SecondaryBufferLock = me /\ ~ openFailed
      /\ saver = "writing" \/ owner = "writing"
      /\ UNCHANGED <<spiVars, gameVars, flushVars, SecondaryBufferLock, PreviousFlushVersion,
                     Running, emu, saver, owner, openFailed>>
  BY DEF WriteMore, Order
<1>1. SecondaryBuffer \in Content /\ SecondaryBuffer = Version(FlushVersion) /\ FlushVersion \in 0..FlushVersion
  BY <1>0 DEF TypeOK, HandedOver, Version
<1>2. PICK n \in 1..SaveLen : file' = First(n, SecondaryBuffer)
  BY DEF WriteMore
<1>3. n \in 0..SaveLen /\ file' \in Files /\ Begins(file', SecondaryBuffer)
  BY <1>1, <1>2, FirstBegins, SaveAssumption
<1>4. TypeOK'
  <2> QED BY <1>0, <1>3 DEF TypeOK, spiVars, gameVars, flushVars
<1>5. Copies' /\ Order' /\ HandedOver'
  BY <1>0 DEF Copies, Changed, Written, Order, HandedOver, spiVars, gameVars, flushVars
<1>6. Flushing' /\ FileIsFlushedVersion'
  BY <1>0, <1>3 DEF Flushing, FileIsFlushedVersion, flushVars
<1>7. FileIsOfOneVersion'
  <2>1. Begins(file', Version(FlushVersion)) /\ Version(FlushVersion)' = Version(FlushVersion)
    BY <1>0, <1>1, <1>3 DEF Version, flushVars
  <2> QED BY <1>0, <1>1, <2>1 DEF FileIsOfOneVersion, Begins, flushVars, Version
<1> QED BY <1>4, <1>5, <1>6, <1>7

\* The file is closed, written whole or not.
LEMMA CloseKeeps ==
    ASSUME IInv, SaverCloses \/ OwnerCloses
    PROVE  IInv'
<1> USE DEF IInv
<1>0. /\ PreviousFlushVersion' = FlushVersion /\ TimeAtLastFlushRequest' = "never"
      /\ SecondaryBufferLock' = "free"
      /\ UNCHANGED <<spiVars, gameVars, SecondaryBuffer, FlushVersion, handedOver, Running, emu, file, openFailed>>
      /\ SecondaryBuffer = Version(FlushVersion) /\ FlushVersion # 0
      /\ saver = "writing" \/ owner = "writing"
  BY DEF SaverCloses, OwnerCloses, CloseFile, HandedOver, Version, fileVars
<1>1. TypeOK'
  <2>1. PreviousFlushVersion' \in 0..FlushVersion'
    BY <1>0 DEF TypeOK
  <2>2. saver' \in {"sleeping", saver} /\ owner' \in {"gone", owner}
    BY DEF SaverCloses, OwnerCloses
  <2> QED BY <1>0, <2>1, <2>2 DEF TypeOK, spiVars, gameVars
<1>2. Copies'
  BY <1>0 DEF Copies, Changed, Written, spiVars, gameVars
<1>3. Order'
  BY DEF Order, SaverCloses, OwnerCloses, CloseFile
<1>4. HandedOver'
  BY DEF HandedOver, Order, SaverCloses, OwnerCloses, CloseFile
<1>5. Flushing'
  BY <1>0 DEF Flushing, Begins
<1>6. FileIsFlushedVersion'
  <2>1. ~ openFailed => Begins(file, Version(FlushVersion))
    BY <1>0 DEF Flushing
  <2> QED BY <1>0, <2>1 DEF FileIsFlushedVersion, Begins, Version
<1>7. FileIsOfOneVersion'
  BY <1>0 DEF FileIsOfOneVersion, Begins, Version
<1> QED BY <1>1, <1>2, <1>3, <1>4, <1>5, <1>6, <1>7

LEMMA StutterKeeps ==
    ASSUME IInv, UNCHANGED vars
    PROVE  IInv'
<1> USE DEF IInv
<1>1. TypeOK'
  BY DEF TypeOK, vars, spiVars, gameVars, flushVars, fileVars
<1>2. Copies'
  BY DEF Copies, Changed, Written, vars, spiVars, gameVars, flushVars, fileVars
<1>3. Order'
  BY DEF Order, vars, spiVars, gameVars, flushVars, fileVars
<1>4. HandedOver'
  BY DEF HandedOver, Order, vars, spiVars, gameVars, flushVars, fileVars
<1>5. Flushing'
  BY DEF Flushing, Begins, Order, TypeOK, vars, spiVars, gameVars, flushVars, fileVars
<1>6. FileIsFlushedVersion'
  BY DEF FileIsFlushedVersion, Begins, Version, Order, TypeOK, vars, spiVars, gameVars, flushVars, fileVars
<1>7. FileIsOfOneVersion'
  BY DEF FileIsOfOneVersion, Begins, Version, vars, spiVars, gameVars, flushVars, fileVars
<1> QED BY <1>1, <1>2, <1>3, <1>4, <1>5, <1>6, <1>7
LEMMA InvariantHolds == Spec => []IInv
<1>1. IInv /\ [Next]_vars => IInv'
  BY BeginWriteKeeps, WriteCellKeeps, EndWriteKeeps, LoadStateKeeps, EndFrameKeeps, QuietKeeps,
     LookKeeps, OpenKeeps, WriteMoreKeeps, CloseKeeps, StutterKeeps
  DEF Next, EmuNext, SaverNext, OwnerNext
<1> QED BY <1>1, InitEstablishes, PTL DEF Spec

-----------------------------------------------------------------------------
(* The theorems.                                                           *)

\* Types, for every size of the save memory.
THEOREM TypeCorrect == Spec => []TypeOK
<1>1. IInv => TypeOK
  BY DEF IInv
<1> QED BY <1>1, InvariantHolds, PTL

\* RequestFlush copies all the core wrote, wherever it starts and wraps around.
THEOREM BufferFollowsSaveMemory == Spec => []BufferIsCurrent
<1>1. IInv => BufferIsCurrent
  <2> SUFFICES ASSUME IInv, ~ writing, Length # 0 PROVE Buffer = sram
    BY DEF BufferIsCurrent
  <2>1. \A c \in Cells : Buffer[c] = sram[c]
    BY DEF IInv, Copies, Changed
  <2> QED BY <2>1 DEF IInv, TypeOK, Content
<1> QED BY <1>1, InvariantHolds, PTL

\* Whatever fails, and killed at any moment: the file holds one version or its
\* beginning, never parts of two.
THEOREM FileIsNeverMixed == Spec => []FileIsOfOneVersion
<1>1. IInv => FileIsOfOneVersion
  BY DEF IInv
<1> QED BY <1>1, InvariantHolds, PTL

\* FlushSecondaryBuffer wrote of no version but the one it says it wrote.
THEOREM FileIsWhatWasFlushed == Spec => []FileIsFlushedVersion
<1>1. IInv => FileIsFlushedVersion
  BY DEF IInv
<1> QED BY <1>1, InvariantHolds, PTL

\* The destructor leaves the last version handed over in the file, if that opened
\* and took all of it.
THEOREM LastVersionIsSaved == Spec => []SavedAtExit
<1>1. IInv => SavedAtExit
  <2> SUFFICES ASSUME IInv, owner = "gone", ~ openFailed, Whole(file) PROVE file = Version(FlushVersion)
    BY DEF SavedAtExit
  <2>1. Begins(file, Version(FlushVersion))
    BY DEF IInv, Order, HandedOver, FileIsFlushedVersion
  <2>2. Version(FlushVersion) \in Content
    <3>1. FlushVersion # 0 => handedOver[FlushVersion] \in Content
      BY DEF IInv, TypeOK
    <3>2. Blank \in Content
      BY DEF Blank, Content
    <3> QED BY <3>1, <3>2 DEF Version
  <2>3. \E S : file \in [S -> Nat]
    BY DEF IInv, TypeOK, Files
  <2>4. file = [c \in Cells |-> file[c]]
    BY <2>3 DEF Whole
  <2> QED BY <2>1, <2>2, <2>4 DEF Whole, Begins, Content
<1> QED BY <1>1, InvariantHolds, PTL

\* What is in Buffer and not requested is in SecondaryBuffer too; a save memory never
\* reported is as it was.
Requested ==
    /\ Length = 0 => ~ FlushRequested /\ FlushVersion = 0 /\ (writing \/ sram = Blank)
    /\ Length # 0 /\ ~ FlushRequested => FlushVersion # 0 /\ SecondaryBuffer = Buffer

LEMMA RequestedHolds == Spec => []Requested
<1>1. Init => Requested
  BY DEF Init, Requested
<1>2. ASSUME IInv, Requested, [Next]_vars PROVE Requested'
  <2> USE <1>2
  <2>1. CASE BeginWrite \/ WriteCell
    BY <2>1 DEF BeginWrite, WriteCell, Requested, flushVars
  <2>2. CASE EndWrite \/ LoadState
    <3>1. Length' = SaveLen /\ SaveLen # 0 /\ FlushRequested'
      BY <2>2, SaveAssumption DEF EndWrite, LoadState, RequestFlush
    <3> QED BY <3>1 DEF Requested
  <2>3. CASE EndFrame
    <3>1. FlushVersion + 1 # 0
      BY DEF IInv, TypeOK
    <3> QED BY <2>3, <3>1 DEF EndFrame, CheckFlush, Requested, gameVars, flushVars, spiVars
  <2>4. CASE Unpause \/ SaverLooks \/ SaverOpens \/ StopRunning \/ Joined \/ OwnerOpens
             \/ WriteMore("saver") \/ WriteMore("owner") \/ SaverCloses \/ OwnerCloses
             \/ Tick \/ UNCHANGED vars
    <3>1. UNCHANGED <<Length, FlushRequested, FlushVersion, writing, sram, SecondaryBuffer, Buffer>>
      BY <2>4 DEF Unpause, SaverLooks, SaverOpens, StopRunning, Joined, OwnerOpens, WriteMore,
                  SaverCloses, OwnerCloses, CloseFile, Tick, vars, gameVars, flushVars, spiVars
    <3> QED BY <3>1 DEF Requested
  <2> QED BY <2>1, <2>2, <2>3, <2>4 DEF Next, EmuNext, SaverNext, OwnerNext
<1> QED BY <1>1, <1>2, InvariantHolds, PTL DEF Spec

\* What the save memory last held is in the file at the end, unless it was requested
\* after the last frame: no version is skipped on the way through the two buffers.
THEOREM SaveMemoryIsSaved == Spec => []NothingElseLostAtExit
<1>1. ASSUME IInv, Requested, BufferIsCurrent, SavedAtExit PROVE NothingElseLostAtExit
  <2> SUFFICES ASSUME owner = "gone", ~ writing, ~ FlushRequested, ~ openFailed, Whole(file)
               PROVE  file = sram
    BY DEF NothingElseLostAtExit
  <2>1. file = Version(FlushVersion)
    BY <1>1 DEF SavedAtExit
  <2>2. CASE Length = 0
    BY <1>1, <2>1, <2>2 DEF Requested, Version
  <2>3. CASE Length # 0
    BY <1>1, <2>1, <2>3 DEF Requested, Version, IInv, HandedOver, BufferIsCurrent
  <2> QED BY <2>2, <2>3
<1> QED BY <1>1, InvariantHolds, RequestedHolds, BufferFollowsSaveMemory, LastVersionIsSaved, PTL
=============================================================================
