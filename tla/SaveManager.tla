---------------------------- MODULE SaveManager ----------------------------
(***************************************************************************)
(* How the cartridge's save memory reaches its file (SaveManager.cpp).     *)
(*                                                                         *)
(* A game writes its save memory cell by cell, over the cartridge's serial *)
(* bus; when a command ends the core reports it with RequestFlush, which   *)
(* copies the changed cells to Buffer.  The emulator thread hands Buffer   *)
(* over to SecondaryBuffer at the end of the frame (CheckFlush); the       *)
(* manager's own thread writes SecondaryBuffer to the file once the game   *)
(* has been quiet for two seconds; the destructor writes what is left.     *)
(*                                                                         *)
(* The save memory is SaveLen cells; a cell holds the number of the write  *)
(* that set it.  SecondaryBufferLock is held from the first to the last    *)
(* line of CheckFlush's copy, an action, and around the flush.  The system *)
(* takes what the flush writes piece by piece, or not all of it, and the   *)
(* process may be killed at any moment: a property of the file in every    *)
(* state is a property of what a kill leaves behind.                       *)
(***************************************************************************)
EXTENDS Integers, Sequences

CONSTANTS
    SaveLen,    \* cells of the save memory
    MaxWrites   \* bound on the changes of the save memory

ASSUME SaveAssumption == SaveLen \in Nat \ {0} /\ MaxWrites \in Nat

Cells == 0..(SaveLen - 1)
Content == [Cells -> Nat]
MaxLen == SaveLen + 1  \* bound on the cells of a command: once around and one more
Blank == [c \in Cells |-> 0]
None == <<>>       \* no buffer

\* The first n cells of a buffer: what a file holds of it.
First(n, b) == [c \in 0..(n - 1) |-> b[c]]
Truncated == First(0, Blank)
Files == UNION {[0..(n - 1) -> Nat] : n \in 0..SaveLen}

VARIABLES
    sram,             \* the cartridge's save memory
    writes,           \* writes so far
    writing,          \* a write command of the game is under way
    SRAMFirstAddr, SRAMAddr, \* where it began, and the next cell it writes
    Buffer, Length,   \* the emulator thread's copy; Length 0: not allocated
    FlushRequested,
    SecondaryBuffer,
    SecondaryBufferLock,     \* "free" or the thread that flushes
    FlushVersion, PreviousFlushVersion,
    TimeAtLastFlushRequest,  \* "never" | "recent" | "past": two seconds or more ago
    Running,
    emu,              \* "inFrame" | "paused" | "gone"
    saver,            \* "sleeping" | "flushing" | "writing" | "ended": run()
    owner,            \* "alive" | "joining" | "flushing" | "writing" | "gone": ~SaveManager()
    file,             \* what the save file holds
    openFailed,       \* the file failed to open when it was last to be written
    handedOver        \* handedOver[v]: contents handed over as version v

spiVars == <<writing, SRAMFirstAddr, SRAMAddr>>
gameVars == <<sram, writes, Buffer, Length, FlushRequested>>
flushVars == <<SecondaryBuffer, FlushVersion, TimeAtLastFlushRequest, handedOver>>
fileVars == <<file, openFailed>>
vars == <<spiVars, gameVars, flushVars, SecondaryBufferLock, PreviousFlushVersion, Running, emu, saver, owner, fileVars>>

TypeOK ==
    /\ sram \in Content /\ writes \in 0..MaxWrites
    /\ writing \in BOOLEAN /\ SRAMFirstAddr \in Cells
    /\ SRAMAddr \in SRAMFirstAddr..(SRAMFirstAddr + MaxLen)
    /\ Buffer \in Content /\ Length \in {0, SaveLen}
    /\ FlushRequested \in BOOLEAN
    /\ SecondaryBuffer \in Content \cup {None}
    /\ SecondaryBufferLock \in {"free", "saver", "owner"}
    /\ FlushVersion \in Nat /\ PreviousFlushVersion \in 0..FlushVersion
    /\ TimeAtLastFlushRequest \in {"never", "recent", "past"}
    /\ Running \in BOOLEAN
    /\ emu \in {"inFrame", "paused", "gone"}
    /\ saver \in {"sleeping", "flushing", "writing", "ended"}
    /\ owner \in {"alive", "joining", "flushing", "writing", "gone"}
    /\ file \in Files /\ openFailed \in BOOLEAN
    /\ handedOver \in Seq(Content) /\ Len(handedOver) = FlushVersion

Init ==
    /\ sram = Blank /\ writes = 0
    /\ writing = FALSE /\ SRAMFirstAddr = 0 /\ SRAMAddr = 0
    /\ Buffer = Blank /\ Length = 0 /\ FlushRequested = FALSE
    /\ SecondaryBuffer = None /\ SecondaryBufferLock = "free"
    /\ FlushVersion = 0 /\ PreviousFlushVersion = 0
    /\ TimeAtLastFlushRequest = "never"
    /\ Running = TRUE
    /\ emu = "inFrame" /\ saver = "sleeping" /\ owner = "alive"
    /\ file = First(SaveLen, Blank) /\ openFailed = FALSE
    /\ handedOver = <<>>

-----------------------------------------------------------------------------
(* The emulator thread.                                                    *)

\* Mutant of Copied: the part that wraps around is forgotten.
CopiedWithoutWrap(off, len) ==
    IF Length # SaveLen THEN Cells ELSE {c \in Cells : off <= c /\ c < off + len}

\* What RequestFlush copies: everything when the length changed, else the
\* cells from off on, cut at the end and continued at the start.
Copied(off, len) ==
    IF Length # SaveLen THEN Cells
    ELSE IF off + len > SaveLen
         THEN {c \in Cells : c >= off}
              \cup {c \in Cells : c < len - (SaveLen - off)}
         ELSE {c \in Cells : off <= c /\ c < off + len}

\* The addresses matter only during a command.
NoCommand == writing' = FALSE /\ SRAMFirstAddr' = 0 /\ SRAMAddr' = 0

\* The core reports that len cells from off on have changed.
RequestFlush(off, len) ==
    /\ Buffer' = [c \in Cells |-> IF c \in Copied(off, len) THEN sram'[c] ELSE Buffer[c]]
    /\ Length' = SaveLen
    /\ FlushRequested' = TRUE

BeginWrite ==
    /\ emu = "inFrame" /\ ~ writing /\ writes < MaxWrites
    /\ writing' = TRUE
    /\ SRAMFirstAddr' \in Cells /\ SRAMAddr' = SRAMFirstAddr'
    /\ writes' = writes + 1
    /\ UNCHANGED <<sram, Buffer, Length, FlushRequested>>
    /\ UNCHANGED <<flushVars, SecondaryBufferLock, PreviousFlushVersion, Running, emu, saver, owner, fileVars>>

\* The next cell, at the start again after the last one.
WriteCell ==
    /\ emu = "inFrame" /\ writing
    /\ SRAMAddr - SRAMFirstAddr < MaxLen
    /\ sram' = [sram EXCEPT ![SRAMAddr % SaveLen] = writes]
    /\ SRAMAddr' = SRAMAddr + 1
    /\ UNCHANGED <<writing, SRAMFirstAddr, writes, Buffer, Length, FlushRequested>>
    /\ UNCHANGED <<flushVars, SecondaryBufferLock, PreviousFlushVersion, Running, emu, saver, owner, fileVars>>

EndWrite ==
    /\ emu = "inFrame" /\ writing
    /\ NoCommand
    /\ UNCHANGED <<sram, writes>>
    /\ RequestFlush(SRAMFirstAddr, SRAMAddr - SRAMFirstAddr)
    /\ UNCHANGED <<flushVars, SecondaryBufferLock, PreviousFlushVersion, Running, emu, saver, owner, fileVars>>

\* A save state, loaded while the game is paused, brings its own save memory; it
\* was saved between two commands.
LoadState ==
    /\ emu = "paused" /\ writes < MaxWrites
    /\ writes' = writes + 1
    /\ sram' = [c \in Cells |-> writes + 1]
    /\ NoCommand
    /\ RequestFlush(0, SaveLen)
    /\ UNCHANGED <<flushVars, SecondaryBufferLock, PreviousFlushVersion, Running, emu, saver, owner, fileVars>>

\* Mutant of CheckFlush: the time of the request is not taken.
CheckFlushWithoutTime ==
    IF ~ FlushRequested THEN UNCHANGED <<gameVars, flushVars>>
    ELSE /\ SecondaryBufferLock = "free"
         /\ SecondaryBuffer' = Buffer
         /\ FlushRequested' = FALSE
         /\ FlushVersion' = FlushVersion + 1
         /\ handedOver' = Append(handedOver, Buffer)
         /\ UNCHANGED <<TimeAtLastFlushRequest, sram, writes, Buffer, Length>>

\* Mutant of CheckFlush: the request is dropped while the file is being written.
CheckFlushUnlessBusy ==
    IF ~ FlushRequested THEN UNCHANGED <<gameVars, flushVars>>
    ELSE IF SecondaryBufferLock # "free"
    THEN FlushRequested' = FALSE /\ UNCHANGED <<sram, writes, Buffer, Length, flushVars>>
    ELSE /\ SecondaryBuffer' = Buffer
         /\ FlushRequested' = FALSE
         /\ FlushVersion' = FlushVersion + 1
         /\ TimeAtLastFlushRequest' = "recent"
         /\ handedOver' = Append(handedOver, Buffer)
         /\ UNCHANGED <<sram, writes, Buffer, Length>>

CheckFlush ==
    IF ~ FlushRequested THEN UNCHANGED <<gameVars, flushVars>>
    ELSE /\ SecondaryBufferLock = "free"
         /\ SecondaryBuffer' = Buffer
         /\ FlushRequested' = FALSE
         /\ FlushVersion' = FlushVersion + 1
         /\ TimeAtLastFlushRequest' = "recent"
         /\ handedOver' = Append(handedOver, Buffer)
         /\ UNCHANGED <<sram, writes, Buffer, Length>>

\* The end of a frame: the thread goes on, is paused, or stops.
EndFrame ==
    /\ emu = "inFrame"
    /\ CheckFlush
    /\ emu' \in {"inFrame", "paused", "gone"}
    /\ UNCHANGED <<spiVars, SecondaryBufferLock, PreviousFlushVersion, Running, saver, owner, fileVars>>

Unpause ==
    /\ emu = "paused"
    /\ emu' \in {"inFrame", "gone"}
    /\ UNCHANGED <<spiVars, gameVars, flushVars, SecondaryBufferLock, PreviousFlushVersion, Running, saver, owner, fileVars>>

-----------------------------------------------------------------------------
(* FlushSecondaryBuffer, called by the manager's thread and the destructor.*)

NeedsFlush == FlushVersion # PreviousFlushVersion

\* The tests it makes before it takes the lock.
WorthFlushing == SecondaryBuffer # None /\ NeedsFlush

\* Opening the file for writing truncates it; a file that does not open is
\* passed over without a word.
OpenAndTruncate(me) ==
    /\ SecondaryBufferLock = "free"
    /\ SecondaryBufferLock' = me
    /\ \/ file' = Truncated /\ openFailed' = FALSE
       \/ UNCHANGED file /\ openFailed' = TRUE

\* Mutant of WriteMore: the emulator thread's buffer is written.
WriteMoreOfBuffer(me) ==
    /\ SecondaryBufferLock = me /\ ~ openFailed
    /\ \E n \in 1..SaveLen : n - 1 \notin DOMAIN file /\ file' = First(n, Buffer)
    /\ UNCHANGED <<spiVars, gameVars, flushVars, SecondaryBufferLock, PreviousFlushVersion,
                   Running, emu, saver, owner, openFailed>>

\* FileWrite: the system takes more of the buffer.
WriteMore(me) ==
    /\ SecondaryBufferLock = me /\ ~ openFailed
    /\ \E n \in 1..SaveLen : n - 1 \notin DOMAIN file /\ file' = First(n, SecondaryBuffer)
    /\ UNCHANGED <<spiVars, gameVars, flushVars, SecondaryBufferLock, PreviousFlushVersion,
                   Running, emu, saver, owner, openFailed>>

\* CloseFile, whatever of the buffer has been written: nobody looks.
CloseFile(me) ==
    /\ SecondaryBufferLock = me
    /\ SecondaryBufferLock' = "free"
    /\ PreviousFlushVersion' = FlushVersion
    /\ TimeAtLastFlushRequest' = "never"
    /\ UNCHANGED <<spiVars, gameVars, SecondaryBuffer, FlushVersion, handedOver, Running, emu, fileVars>>

-----------------------------------------------------------------------------
(* The manager's thread: run().                                            *)

Debounced == TimeAtLastFlushRequest = "past"

\* It wakes up every 100 ms.
SaverLooks ==
    /\ saver = "sleeping"
    /\ saver' = IF ~ Running THEN "ended"
                ELSE IF Debounced /\ WorthFlushing THEN "flushing" ELSE "sleeping"
    /\ UNCHANGED <<spiVars, gameVars, flushVars, SecondaryBufferLock, PreviousFlushVersion, Running, emu, owner, fileVars>>

SaverOpens ==
    /\ saver = "flushing"
    /\ OpenAndTruncate("saver")
    /\ saver' = "writing"
    /\ UNCHANGED <<spiVars, gameVars, flushVars, PreviousFlushVersion, Running, emu, owner>>

SaverCloses == saver = "writing" /\ CloseFile("saver") /\ saver' = "sleeping" /\ UNCHANGED owner

\* Two seconds pass.
Tick ==
    /\ TimeAtLastFlushRequest = "recent"
    /\ TimeAtLastFlushRequest' = "past"
    /\ UNCHANGED <<spiVars, gameVars, SecondaryBuffer, FlushVersion, handedOver, SecondaryBufferLock,
                   PreviousFlushVersion, Running, emu, saver, owner, fileVars>>

-----------------------------------------------------------------------------
(* The destructor, run when the emulator thread is gone.                   *)

StopRunning ==
    /\ owner = "alive" /\ emu = "gone"
    /\ Running' = FALSE
    /\ owner' = "joining"
    /\ UNCHANGED <<spiVars, gameVars, flushVars, SecondaryBufferLock, PreviousFlushVersion, emu, saver, fileVars>>

\* Mutant of Joined: no last flush.
JoinedAndGone ==
    /\ owner = "joining" /\ saver = "ended"
    /\ owner' = "gone"
    /\ UNCHANGED <<spiVars, gameVars, flushVars, SecondaryBufferLock, PreviousFlushVersion, Running, emu, saver, fileVars>>

Joined ==
    /\ owner = "joining" /\ saver = "ended"
    /\ owner' = IF WorthFlushing THEN "flushing" ELSE "gone"
    /\ UNCHANGED <<spiVars, gameVars, flushVars, SecondaryBufferLock, PreviousFlushVersion, Running, emu, saver, fileVars>>

OwnerOpens ==
    /\ owner = "flushing"
    /\ OpenAndTruncate("owner")
    /\ owner' = "writing"
    /\ UNCHANGED <<spiVars, gameVars, flushVars, PreviousFlushVersion, Running, emu, saver>>

OwnerCloses == owner = "writing" /\ CloseFile("owner") /\ owner' = "gone" /\ UNCHANGED saver

-----------------------------------------------------------------------------
EmuNext == BeginWrite \/ WriteCell \/ EndWrite \/ LoadState \/ EndFrame \/ Unpause
SaverNext == SaverLooks \/ SaverOpens \/ WriteMore("saver") \/ SaverCloses
OwnerNext == StopRunning \/ Joined \/ OwnerOpens \/ WriteMore("owner") \/ OwnerCloses

Next == EmuNext \/ SaverNext \/ Tick \/ OwnerNext

Spec == Init /\ [][Next]_vars

\* Threads run and time passes; the game need not save nor the user exit.
FairSpec == Spec /\ WF_vars(EndFrame) /\ WF_vars(SaverNext) /\ WF_vars(Tick) /\ WF_vars(OwnerNext)
-----------------------------------------------------------------------------
\* Buffer never misses a cell the game changed, whatever the order, overlap and
\* wrap-around of the partial copies RequestFlush makes, once the command that
\* changed it has ended.
BufferIsCurrent == ~ writing /\ Length # 0 => Buffer = sram

Version(v) == IF v = 0 THEN Blank ELSE handedOver[v]

Begins(f, b) == \A c \in DOMAIN f : f[c] = b[c]
Whole(f) == DOMAIN f = Cells

\* While no flush is under way the file holds nothing but the version the manager
\* believes it has written, and all of it unless the write fell short, if the file
\* opened when it was to be written.
FileIsFlushedVersion ==
    saver # "writing" /\ owner # "writing" /\ ~ openFailed => Begins(file, Version(PreviousFlushVersion))

\* However the last flush, the debounce and the destructor interleave, the last
\* version the emulator thread handed over is in the file once the manager is
\* gone, if the file opened and the write did not fall short.
SavedAtExit == owner = "gone" /\ ~ openFailed /\ Whole(file) => file = Version(FlushVersion)

\* Whatever fails to open or falls short and whenever the process is killed, the
\* file holds one version the game handed over, or its beginning: never parts of two.
FileIsOfOneVersion == \E v \in 0..FlushVersion : Begins(file, Version(v))

\* A flush that has been requested is carried out in the end, without waiting for
\* the game to be closed.
EventuallyFlushed == NeedsFlush ~> ~ NeedsFlush

\* "We keep versions in case the user closes the application before a flush cycle
\* is finished": what the save memory last held went through both buffers and is in
\* the file at the end, but for what was requested after the last frame, by a state
\* loaded in a pause: nobody looks at FlushRequested any more.
NothingElseLostAtExit ==
    owner = "gone" /\ ~ writing /\ ~ FlushRequested /\ ~ openFailed /\ Whole(file) => file = sram
=============================================================================
