---------------------------- MODULE SoftRenderer ----------------------------
(***************************************************************************)
(* The software rasteriser of the console core (GPU3D_Soft.cpp) and the    *)
(* emulator thread that drives it (GPU.cpp, GPU3D.cpp).  A render thread   *)
(* draws the 3D picture of the next frame while the emulator thread shows  *)
(* the lines that are finished.  Three semaphores keep the two in step:    *)
(* start gives the order to draw, scanlines counts the finished lines, and *)
(* done says that the GPU's state may be changed again.                    *)
(*                                                                         *)
(* A picture stands for all the render thread reads of the GPU: registers, *)
(* polygons, the copies of the textures.  Pictures are numbers in a circle *)
(* of three, so that the system runs for ever.                             *)
(***************************************************************************)
EXTENDS Naturals, FiniteSets

CONSTANTS
  LINES,     \* lines of a frame (192)
  MaxEvents  \* bound: how often the game writes VCOUNT, or wakes, in mid-frame

ASSUME LinesAssumption == LINES \in Nat \ {0}
ASSUME EventsAssumption == MaxEvents \in Nat

Pictures == 0..2
Blank    == 3                        \* what ClearBuffers and memset leave
Next1(p) == (p + 1) % 3

VARIABLES
  threaded, running, rendering,      \* Threaded, RenderThreadRunning, RenderThreadRendering
  frameIdentical,                    \* FrameIdentical
  start, done, scanlines,            \* the counts of the three semaphores
  buffer,                            \* ColorBuffer, line by line
  thread, row,                       \* where the render thread is, and its next line
  main, line, then,                  \* where the emulator thread is, its next line, and
                                     \* for whom SetupRenderThread runs
  abort,                             \* GPU3D.AbortFrame
  picture, renderFrameIdentical,     \* the GPU's state; GPU3D.RenderFrameIdentical
  dirty,                             \* the copies of the textures are void (VRAMDirty_Texture)
  promised,                          \* ghost: the buffer holds, or will hold, this picture
  events,                            \* mid-frame events so far
  misread                            \* ghost: SetupRenderThread was told wrong by the flag

flags      == <<threaded, running, rendering, frameIdentical>>
semaphores == <<start, done, scanlines>>
gpuVars    == <<picture, renderFrameIdentical, dirty, promised>>
history    == <<events, misread>>
frameVars  == <<main, line, then, abort, history>>
threadVars == <<thread, row>>
vars       == <<flags, semaphores, buffer, threadVars, frameVars, gpuVars>>

InFrame == {"line", "vcount144", "vblank", "vcount215", "finish"}
Setups  == {"setup", "standby", "setupWait", "join", "ready", "cache"}
Callers == InFrame \union {"save", "load", "reset", "threaded", "restart", "gone"}

TypeOK ==
  /\ threaded \in BOOLEAN /\ running \in BOOLEAN /\ rendering \in BOOLEAN
  /\ frameIdentical \in BOOLEAN /\ renderFrameIdentical \in BOOLEAN
  /\ start \in Nat /\ done \in Nat /\ scanlines \in Nat
  /\ buffer \in [1..LINES -> Pictures \union {Blank}]
  /\ thread \in {"none", "waiting", "woken", "drawing", "drawn", "posted"}
  /\ row \in 1..LINES
  /\ main \in InFrame \union Setups \union {"rest", "gone"}
  /\ line \in 1..LINES
  /\ then \in Callers
  /\ abort \in BOOLEAN /\ events \in 0..MaxEvents /\ misread \in BOOLEAN
  /\ picture \in Pictures
  /\ dirty \in BOOLEAN
  /\ promised \in BOOLEAN

Init ==
  /\ threaded = FALSE /\ running = FALSE /\ rendering = FALSE
  /\ frameIdentical = FALSE /\ renderFrameIdentical = FALSE
  /\ start = 0 /\ done = 0 /\ scanlines = 0
  /\ buffer = [l \in 1..LINES |-> Blank]
  /\ thread = "none" /\ row = 1
  /\ main = "rest" /\ line = 1 /\ then = "reset"
  /\ abort = FALSE /\ events = 0 /\ misread = FALSE
  /\ picture = 0 /\ dirty = TRUE
  /\ promised = FALSE

-----------------------------------------------------------------------------
(* The render thread: RenderThreadFunc.                                    *)

WaitForStart ==
  /\ thread = "waiting" /\ start > 0
  /\ start' = start - 1
  /\ thread' = IF running THEN "woken" ELSE "none"
  /\ UNCHANGED <<flags, done, scanlines, buffer, row, frameVars, gpuVars>>

BeginRendering ==
  /\ thread = "woken"
  /\ rendering' = TRUE
  /\ \/ /\ frameIdentical
        /\ scanlines' = scanlines + LINES
        /\ thread' = "drawn"
        /\ UNCHANGED <<buffer, row>>
     \/ /\ ~frameIdentical
        /\ buffer' = [l \in 1..LINES |-> Blank]
        /\ thread' = "drawing" /\ row' = 1
        /\ UNCHANGED scanlines
  /\ UNCHANGED <<threaded, running, frameIdentical, start, done, frameVars, gpuVars>>

\* RenderPolygons: a line is finished by ScanlineFinalPass, then announced.
RenderLine ==
  /\ thread = "drawing"
  /\ buffer' = [buffer EXCEPT ![row] = picture]
  /\ scanlines' = scanlines + 1
  /\ IF row = LINES THEN thread' = "drawn" /\ UNCHANGED row
                    ELSE row' = row + 1 /\ UNCHANGED thread
  /\ UNCHANGED <<flags, start, done, frameVars, gpuVars>>

PostDone ==
  /\ thread = "drawn"
  /\ done' = done + 1
  /\ thread' = "posted"
  /\ UNCHANGED <<flags, start, scanlines, buffer, row, frameVars, gpuVars>>

EndRenderingSilently == thread = "posted" /\ thread' = "waiting"
  /\ UNCHANGED <<flags, semaphores, buffer, row, frameVars, gpuVars>>

EndRendering ==
  /\ thread = "posted"
  /\ rendering' = FALSE
  /\ thread' = "waiting"
  /\ UNCHANGED <<threaded, running, frameIdentical, semaphores, buffer, row,
                 frameVars, gpuVars>>

RenderThreadFunc ==
  WaitForStart \/ BeginRendering \/ RenderLine \/ PostDone \/ EndRendering

-----------------------------------------------------------------------------
(* The emulator thread, in a frame.                                        *)

\* GPU::StartFrame, after the pauses and the changes of settings below.
StartFrame ==
  /\ main = "rest"
  /\ main' = "line" /\ line' = 1
  /\ UNCHANGED <<flags, semaphores, buffer, threadVars, then, abort, gpuVars, history>>

\* GetLine, for the next line of the screen.
TakesFirst == running /\ ~abort /\ line = 1

Takes == running /\ ~abort

GetLineAtOnce ==
  /\ main = "line"
  /\ scanlines' = IF Takes /\ scanlines > 0 THEN scanlines - 1 ELSE scanlines
  /\ IF line = LINES THEN main' = "vcount144" /\ UNCHANGED line
                     ELSE line' = line + 1 /\ UNCHANGED main
  /\ UNCHANGED <<flags, start, done, buffer, threadVars, then, abort, gpuVars, history>>

GetLine ==
  /\ main = "line"
  /\ Takes => scanlines > 0
  /\ scanlines' = IF Takes THEN scanlines - 1 ELSE scanlines
  /\ IF line = LINES THEN main' = "vcount144" /\ UNCHANGED line
                     ELSE line' = line + 1 /\ UNCHANGED main
  /\ UNCHANGED <<flags, start, done, buffer, threadVars, then, abort, gpuVars, history>>

VCount144 ==
  /\ main = "vcount144"
  /\ Takes => done > 0
  /\ done' = IF Takes THEN done - 1 ELSE done
  /\ main' = "vblank"
  /\ UNCHANGED <<flags, start, scanlines, buffer, threadVars, line, then, abort, gpuVars, history>>

\* Whether the game asked for other polygons or registers; a flush of the
\* same ones counts as a change.
VBlank ==
  /\ main = "vblank"
  /\ picture' \in {picture, Next1(picture)}
  /\ renderFrameIdentical' \in BOOLEAN
  /\ renderFrameIdentical' => picture' = picture
  /\ main' = "vcount215"
  /\ UNCHANGED <<flags, semaphores, buffer, threadVars, line, then, abort, dirty, promised, history>>

\* The textures are copied here; the rest of the state is that of VBlank.
RenderFrame ==
  /\ main = "vcount215"
  /\ picture' \in {picture, Next1(picture)}
  /\ frameIdentical' = (picture' = picture /\ ~dirty /\ renderFrameIdentical)
  /\ dirty' = FALSE
  /\ \/ /\ running
        /\ start' = start + 1
        /\ UNCHANGED buffer
     \/ /\ ~running
        /\ buffer' = IF frameIdentical' THEN buffer ELSE [l \in 1..LINES |-> picture']
        /\ UNCHANGED start
  /\ promised' = ((promised \/ ~frameIdentical') /\ ~misread)
  /\ main' = "finish"
  /\ UNCHANGED <<threaded, running, rendering, done, scanlines, threadVars, line, then,
                 abort, renderFrameIdentical, history>>

\* GPU::FinishFrame; a frame given up is drawn again.
FinishFrame ==
  /\ main = "finish"
  /\ \/ /\ ~abort
        /\ main' = "rest"
        /\ UNCHANGED then
     \/ /\ abort
        /\ main' = "setup" /\ then' = "restart"
  /\ UNCHANGED <<flags, semaphores, buffer, threadVars, line, abort, gpuVars, history>>

-----------------------------------------------------------------------------
(* SetupRenderThread, what its callers do after it, and EnableRenderThread. *)

CreateThread ==
  /\ main = "setup" /\ threaded /\ then # "gone"
  /\ IF running THEN UNCHANGED <<running, thread>>
                ELSE running' = TRUE /\ thread' = "waiting"
  /\ main' = "standby"
  /\ UNCHANGED <<threaded, rendering, frameIdentical, semaphores, buffer, row, line, then,
                 abort, gpuVars, history>>

ResetOrders == start' = 0 /\ done' = 0 /\ UNCHANGED scanlines

ResetSemaphores == start' = 0 /\ done' = 0 /\ scanlines' = 0

\* RenderThreadRendering is set after the order is taken and cleared after done is
\* posted: clear while the thread is about to read, set when done has been taken.
FlagIsWrong == \/ thread = "woken"
               \/ thread = "posted" /\ done = 0

Standby ==
  /\ main = "standby"
  /\ misread' = (FlagIsWrong \/ (misread /\ thread # "waiting"))
  /\ promised' = (promised /\ ~misread')
  /\ \/ /\ rendering
        /\ start' = 0
        /\ main' = "setupWait"
        /\ UNCHANGED <<done, scanlines>>
     \/ /\ ~rendering
        /\ ResetSemaphores
        /\ main' = "ready"
  /\ UNCHANGED <<flags, buffer, threadVars, line, then, abort, picture, renderFrameIdentical,
                 dirty, events>>

WaitUntilDone ==
  /\ main = "setupWait"
  /\ done > 0
  /\ ResetSemaphores
  /\ main' = "ready"
  /\ UNCHANGED <<flags, buffer, threadVars, line, then, abort, gpuVars, history>>

\* Also the destructor's call, which has nothing to go back to.
Stopped == IF then = "gone" THEN "gone" ELSE "ready"

StopRenderThread ==
  /\ main = "setup" /\ (~threaded \/ then = "gone")
  /\ \/ /\ running
        /\ running' = FALSE /\ start' = start + 1
        /\ main' = "join"
     \/ /\ ~running
        /\ main' = Stopped
        /\ UNCHANGED <<running, start>>
  /\ UNCHANGED <<threaded, rendering, frameIdentical, done, scanlines, buffer, threadVars,
                 line, then, abort, gpuVars, history>>

JoinThread ==
  /\ main = "join" /\ thread = "none"
  /\ main' = Stopped
  /\ UNCHANGED <<flags, semaphores, buffer, threadVars, line, then, abort, gpuVars, history>>

\* The caller's own work, GPU3D::DoSavestate's when a state is loaded, and
\* the order to draw what the frame is to show.
EnableRenderThread ==
  /\ main = "ready"
  /\ picture' \in IF then = "load" THEN Pictures ELSE {picture}
  /\ renderFrameIdentical' = (renderFrameIdentical /\ then \notin {"save", "load"})
  /\ start' = IF threaded THEN start + 1 ELSE start
  /\ main' = IF then \in InFrame THEN then
             ELSE IF then \in {"load", "reset"} THEN "cache" ELSE "rest"
  /\ abort' = (abort /\ then # "restart")
  /\ UNCHANGED <<flags, done, scanlines, buffer, threadVars, line, then, dirty, promised, history>>

\* The last call of GPU::Reset, and of GPU::DoSavestate when loading.
ResetVRAMCache ==
  /\ main = "cache"
  /\ picture' \in Pictures
  /\ dirty' = TRUE
  /\ main' = "rest"
  /\ UNCHANGED <<flags, semaphores, buffer, threadVars, line, then, abort,
                 renderFrameIdentical, promised, history>>

\* Between two frames: a state saved or loaded, the setting changed, the
\* console reset (GPU3D::Reset, then SoftRenderer::Reset).
DoSavestate ==
  /\ main = "rest"
  /\ then' \in {"save", "load"}
  /\ promised' = (promised /\ then' = "save")
  /\ main' = "setup"
  /\ UNCHANGED <<flags, semaphores, buffer, threadVars, line, abort, picture,
                 renderFrameIdentical, dirty, history>>

SetThreaded ==
  /\ main = "rest"
  /\ threaded' = ~threaded
  /\ promised' = (promised /\ threaded')
  /\ main' = "setup" /\ then' = "threaded"
  /\ UNCHANGED <<running, rendering, frameIdentical, semaphores, buffer, threadVars, line,
                 abort, picture, renderFrameIdentical, dirty, history>>

Reset ==
  /\ main = "rest"
  /\ picture' = 0
  /\ buffer' = [l \in 1..LINES |-> Blank]
  /\ promised' = FALSE
  /\ main' = "setup" /\ then' = "reset"
  /\ UNCHANGED <<flags, semaphores, threadVars, line, abort, renderFrameIdentical, dirty, history>>

\* The game ends, or another renderer is chosen.
Destroy ==
  /\ main = "rest"
  /\ main' = "setup" /\ then' = "gone"
  /\ UNCHANGED <<flags, semaphores, buffer, threadVars, line, abort, gpuVars, history>>

\* GPU::SetVCount: the game moves the beam, and 3D gives the frame up.
SetVCount ==
  /\ main \in InFrame /\ events < MaxEvents
  /\ abort' = TRUE
  /\ main' \in InFrame
  /\ events' = events + 1 /\ UNCHANGED misread
  /\ UNCHANGED <<flags, semaphores, buffer, threadVars, line, then, gpuVars>>

\* NDS::SetIRQ wakes a console that went to sleep in this frame.
WakeUp ==
  /\ main \in InFrame /\ events < MaxEvents
  /\ main' = "setup" /\ then' = main
  /\ events' = events + 1 /\ UNCHANGED misread
  /\ UNCHANGED <<flags, semaphores, buffer, threadVars, line, abort, gpuVars>>

-----------------------------------------------------------------------------
Setup == \/ CreateThread \/ Standby \/ WaitUntilDone \/ StopRenderThread \/ JoinThread
         \/ EnableRenderThread \/ ResetVRAMCache
Frame == GetLine \/ VCount144 \/ VBlank \/ RenderFrame \/ FinishFrame
User  == \/ StartFrame \/ DoSavestate \/ SetThreaded \/ Reset \/ Destroy
         \/ SetVCount \/ WakeUp

Next == RenderThreadFunc \/ Frame \/ Setup \/ User

Fairness == WF_vars(RenderThreadFunc) /\ WF_vars(Frame \/ Setup)

Spec == Init /\ [][Next]_vars /\ Fairness

-----------------------------------------------------------------------------
(* Properties.                                                             *)

\* Nothing has put the semaphores out of step: no event in mid-frame, and no misread
\* flag since SetupRenderThread last found the thread at rest.
InStep == events = 0 /\ ~misread

\* A line shown is finished, and drawn from the state of this frame: the
\* count of finished lines never runs ahead of the lines drawn, through saved
\* states, resets and changes of the setting between frames.  Nothing is
\* promised of the frame after a loaded state or a reset, nor when the thread
\* was stopped with a frame ordered and not begun, until one is drawn; an
\* aborted frame shows no 3D lines.
LinesTrue ==
  [][GetLine /\ promised /\ InStep => buffer[line] = picture]_vars

\* "We need a scanline, so let's wait for the render thread to finish it"
\* (SoftRenderer::GetLine): a line taken is finished, and no order to draw it
\* once more is pending, whatever happened in an earlier frame.
Finished(l) ==
  \/ thread = "drawing" /\ l < row
  \/ thread \in {"drawn", "posted", "waiting"} /\ start = 0

EveryLineFinished ==
  [][GetLine /\ Takes => Finished(line)]_vars

\* An order to draw is given when the one before it has been taken, carried
\* out and its end noticed: in step, the semaphores stay within what one frame
\* posts, whatever was saved, loaded or switched between the frames
\* (SetupRenderThread clears what they still hold).
OneOrderAtATime ==
  running /\ InStep => start + done <= 1 /\ scanlines <= LINES

\* The thread reads the GPU's state from the moment it has its order until
\* it has drawn the last line.
Reading == {"woken", "drawing"}

\* A frame changes nothing that the render thread is reading: VBlank and the
\* copying of the textures come after the wait for its last line.
FrameQuiet ==
  [][picture' # picture /\ InStep /\ (VBlank \/ RenderFrame) => thread \notin Reading]_vars

\* The two threads never wait for each other: a frame begun ends, and so do
\* a saved state, a reset, a change of the setting and the renderer's destruction,
\* unless a flag was misread.
EveryFrameEnds == main \notin {"rest", "gone"} ~> main \in {"rest", "gone"} \/ misread

\* "Tell me when you're done, I'll wait here" (SetupRenderThread): the thread tells.
AlwaysTold == main = "setupWait" ~> main # "setupWait"

=============================================================================
