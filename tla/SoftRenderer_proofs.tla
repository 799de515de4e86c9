------------------------- MODULE SoftRenderer_proofs -------------------------
(***************************************************************************)
(* Proofs about the software rasteriser's hand-off, for every number of    *)
(* lines in a frame, as long as the semaphores are in step: no event in    *)
(* mid-frame, and no flag misread since SetupRenderThread last found the   *)
(* render thread at rest.                                                  *)
(***************************************************************************)
EXTENDS SoftRenderer, TLAPS

\* The flags against the places of both threads.
Flags ==
  /\ abort = FALSE
  /\ rendering = (thread \in {"drawing", "drawn", "posted"})
  /\ main \in InFrame \union {"rest", "ready", "cache"} => running = threaded
  /\ main \in {"standby", "setupWait"} => running /\ threaded
  /\ main \in {"join", "gone"} => ~running
  /\ main # "join" => running = (thread # "none")

\* For whom the render thread is being set up.
Purpose ==
  main \in Setups =>
    /\ then \in {"save", "load", "reset", "threaded", "gone"}
    /\ then = "gone" => main \in {"setup", "join"}
    /\ main = "cache" => then \in {"load", "reset"}
    /\ main = "join" => then = "gone" \/ (~threaded /\ ~promised)
    /\ main = "setup" /\ running # threaded => then = "threaded"
    /\ then \in {"load", "reset"} => ~promised
    /\ then = "threaded" /\ ~threaded => ~promised

\* The render thread has no order; it may still have to clear its flag.
AtRest == {"posted", "waiting"}

\* The one order of a frame, and what is left of its lines once some were
\* taken: given, taken up, being drawn, drawn, done.
Order(taken) ==
  \/ thread \in AtRest /\ start = 1 /\ done = 0 /\ scanlines = 0 /\ taken = 0
  \/ thread = "woken" /\ start = 0 /\ done = 0 /\ scanlines = 0 /\ taken = 0
  \/ thread = "drawing" /\ start = 0 /\ done = 0 /\ scanlines + taken + 1 = row
  \/ thread = "drawn" /\ start = 0 /\ done = 0 /\ scanlines + taken = LINES
  \/ thread \in AtRest /\ start = 0 /\ done = 1 /\ scanlines + taken = LINES

Idle == thread \in AtRest /\ start = 0 /\ done = 0 /\ scanlines = 0

\* What a thread that was stopped may leave in the semaphores: an order it
\* did not take, or the end of its last frame.
Left == start = 0 \/ (start = 1 /\ done = 0 /\ scanlines = 0)

\* A thread that is being stopped: it ends its frame first.
Leaving ==
  \/ thread \in AtRest /\ start = 2 /\ done = 0 /\ scanlines = 0
  \/ thread = "woken" /\ start = 1 /\ done = 0 /\ scanlines = 0
  \/ thread = "drawing" /\ start = 1 /\ done = 0 /\ scanlines + 1 = row
  \/ thread = "drawn" /\ start = 1 /\ done = 0 /\ scanlines = LINES
  \/ thread \in AtRest /\ start = 1 /\ done = 1 /\ scanlines = LINES

Orders ==
  /\ running /\ main = "line" => Order(line - 1)
  /\ running /\ main = "vcount144" => Order(LINES)
  /\ running /\ main \in {"vblank", "vcount215", "ready"} => Idle
  /\ running /\ main \in {"finish", "rest", "setup", "cache"} => Order(0)
  /\ main = "standby" =>
       Order(0) \/ (thread = "waiting" /\ start = 0 /\ done <= 1 /\ scanlines <= LINES)
  /\ main = "setupWait" => Order(0) /\ start = 0 /\ thread # "woken"
  /\ main = "join" /\ thread # "none" => Leaving
  /\ thread = "none" => Left /\ done <= 1 /\ scanlines <= LINES

AllLines == \A l \in 1..LINES : buffer[l] = picture

\* Where the buffer is to hold what the GPU's state draws.
Showing == InFrame \union {"rest", "setup", "standby", "setupWait", "ready", "cache"}

\* An order that redraws nothing finds the buffer as it should be.
Contents ==
  promised /\ main \in Showing /\ ~(main = "setup" /\ then = "gone") =>
    /\ main = "vcount215" => (renderFrameIdentical => AllLines)
    /\ main # "vcount215" =>
         /\ thread \in {"none", "drawn"} => AllLines
         /\ thread \in AtRest /\ (frameIdentical \/ (start = 0 /\ main # "ready")) => AllLines
         /\ thread = "woken" /\ frameIdentical => AllLines
         /\ thread = "drawing" => \A l \in 1..LINES : l < row => buffer[l] = picture

\* The flags survive a misread one; the orders and the picture do not.
Sound == Flags /\ Purpose
Kept  == Orders /\ Contents

IInv ==
  /\ TypeOK
  /\ events = 0 => Sound
  /\ InStep => Kept
  /\ misread => ~promised

-----------------------------------------------------------------------------
(* Every step keeps the types.                                             *)

LEMMA PicturesGoOn == 0 \in Pictures /\ \A p \in Pictures : Next1(p) \in Pictures
BY DEF Pictures, Next1

LEMMA TypeHolds == ASSUME TypeOK, [Next]_vars PROVE TypeOK'
<1> USE LinesAssumption, EventsAssumption, PicturesGoOn
<1>1. CASE WaitForStart
  BY <1>1 DEF history, TypeOK, WaitForStart, flags, gpuVars, frameVars
<1>2. CASE BeginRendering
  BY <1>2 DEF history, TypeOK, BeginRendering, gpuVars, frameVars
<1>3. CASE RenderLine
  BY <1>3 DEF history, TypeOK, RenderLine, flags, gpuVars, frameVars
<1>4. CASE PostDone
  BY <1>4 DEF history, TypeOK, PostDone, flags, gpuVars, frameVars
<1>5. CASE EndRendering
  <2>1. rendering' \in BOOLEAN
    BY <1>5 DEF EndRendering
  <2>2. thread' = "waiting" /\ UNCHANGED <<threaded, running, frameIdentical, semaphores, buffer,
                                         row, frameVars, gpuVars>>
    BY <1>5 DEF EndRendering
  <2> QED BY <2>1, <2>2 DEF history, TypeOK, semaphores, gpuVars, frameVars
<1>6. CASE StartFrame
  BY <1>6 DEF history, TypeOK, InFrame, StartFrame, flags, semaphores, gpuVars, threadVars
<1>7. CASE GetLine
  BY <1>7 DEF history, TypeOK, InFrame, GetLine, flags, gpuVars, threadVars
<1>8. CASE VCount144
  BY <1>8 DEF history, TypeOK, InFrame, VCount144, flags, gpuVars, threadVars
<1>9. CASE VBlank
  BY <1>9 DEF history, TypeOK, InFrame, VBlank, flags, semaphores, threadVars
<1>10. CASE RenderFrame
  <2>1. frameIdentical' \in BOOLEAN /\ dirty' \in BOOLEAN /\ promised' \in BOOLEAN
    BY <1>10, Zenon DEF RenderFrame
  <2>2. picture' \in Pictures
    BY <1>10 DEF RenderFrame, TypeOK
  <2>3. buffer' \in [1..LINES -> Pictures \union {Blank}]
    BY <1>10, <2>2 DEF RenderFrame, TypeOK
  <2>4. start' \in Nat
    BY <1>10 DEF RenderFrame, TypeOK
  <2>5. /\ main' = "finish"
        /\ UNCHANGED <<threaded, running, rendering, done, scanlines, threadVars, line, then, abort,
                      renderFrameIdentical, history>>
    BY <1>10 DEF RenderFrame
  <2> QED BY <2>1, <2>2, <2>3, <2>4, <2>5 DEF history, TypeOK, InFrame, threadVars
<1>11. CASE FinishFrame
  BY <1>11 DEF history, TypeOK, Setups, Callers, FinishFrame, flags, semaphores, gpuVars, threadVars
<1>12. CASE CreateThread
  <2>1. running' \in BOOLEAN /\ (thread' = thread \/ thread' = "waiting")
    BY <1>12 DEF CreateThread
  <2>2. /\ main' = "standby"
        /\ UNCHANGED <<threaded, rendering, frameIdentical, semaphores, buffer, row, line, then,
                      abort, gpuVars, history>>
    BY <1>12 DEF CreateThread
  <2> QED BY <2>1, <2>2 DEF history, TypeOK, Setups, semaphores, gpuVars
<1>13. CASE Standby
  BY <1>13 DEF history, TypeOK, Setups, Standby, flags, gpuVars, threadVars, ResetSemaphores
<1>14. CASE WaitUntilDone
  BY <1>14 DEF history, TypeOK, Setups, WaitUntilDone, flags, gpuVars, threadVars, ResetSemaphores
<1>15. CASE StopRenderThread
  <2>1. running' \in BOOLEAN
    BY <1>15 DEF StopRenderThread, TypeOK
  <2>2. start' \in Nat /\ main' \in {"join", "gone", "ready"}
    BY <1>15 DEF StopRenderThread, Stopped, TypeOK
  <2>3. UNCHANGED <<threaded, rendering, frameIdentical, done, scanlines, buffer, threadVars,
                    line, then, abort, gpuVars, history>>
    BY <1>15 DEF StopRenderThread
  <2> QED BY <2>1, <2>2, <2>3 DEF history, TypeOK, Setups, gpuVars, threadVars
<1>16. CASE JoinThread
  BY <1>16 DEF history, TypeOK, Setups, JoinThread, flags, semaphores, gpuVars, threadVars, Stopped
<1>17. CASE EnableRenderThread
  BY <1>17 DEF history, TypeOK, Setups, EnableRenderThread, flags, threadVars
<1>18. CASE ResetVRAMCache
  BY <1>18 DEF history, TypeOK, ResetVRAMCache, flags, semaphores, threadVars
<1>19. CASE DoSavestate
  BY <1>19 DEF history, TypeOK, Setups, Callers, DoSavestate, flags, semaphores, threadVars
<1>20. CASE SetThreaded
  BY <1>20 DEF history, TypeOK, Setups, Callers, SetThreaded, semaphores, threadVars
<1>21. CASE Reset
  BY <1>21 DEF history, TypeOK, Setups, Callers, Reset, flags, semaphores, threadVars
<1>22. CASE Destroy
  BY <1>22 DEF history, TypeOK, Setups, Callers, Destroy, flags, semaphores, gpuVars, threadVars
<1>23. CASE SetVCount
  BY <1>23 DEF history, TypeOK, SetVCount, flags, semaphores, gpuVars, threadVars
<1>24. CASE WakeUp
  BY <1>24 DEF history, TypeOK, Setups, Callers, WakeUp, flags, semaphores, gpuVars, threadVars
<1>25. CASE UNCHANGED vars
  BY <1>25 DEF history, TypeOK, vars, flags, semaphores, gpuVars, frameVars, threadVars
<1> QED BY <1>1, <1>2, <1>3, <1>4, <1>5, <1>6, <1>7, <1>8, <1>9, <1>10, <1>11, <1>12, <1>13,
    <1>14, <1>15, <1>16, <1>17, <1>18, <1>19, <1>20, <1>21, <1>22, <1>23, <1>24, <1>25 DEF Next,
    RenderThreadFunc, Frame, Setup, User

-----------------------------------------------------------------------------
(* The render thread.                                                      *)

LEMMA WaitForStartSound == ASSUME TypeOK, TypeOK', Sound, WaitForStart PROVE Sound'
<1> USE LinesAssumption DEF Sound
<1>1. Flags'
  BY DEF Flags, TypeOK, WaitForStart, flags, frameVars
<1>2. Purpose'
  BY DEF Purpose, WaitForStart, flags, gpuVars, frameVars
<1> QED BY <1>1, <1>2

LEMMA WaitForStartKeeps == ASSUME TypeOK, TypeOK', Sound, Kept, WaitForStart PROVE Kept'
<1> USE LinesAssumption DEF Sound, Kept
<1>1. Orders'
  BY DEF AtRest, Flags, Orders, Order, Idle, Leaving, Left, TypeOK, WaitForStart, frameVars
<1>2. Contents'
  BY DEF AtRest, Flags, Contents, AllLines, InFrame, Showing, WaitForStart, flags, gpuVars, frameVars
<1> QED BY <1>1, <1>2

LEMMA BeginRenderingSound == ASSUME TypeOK, TypeOK', Sound, BeginRendering PROVE Sound'
<1> USE LinesAssumption DEF Sound
<1>1. Flags'
  BY DEF Flags, BeginRendering, frameVars
<1>2. Purpose'
  BY DEF Purpose, BeginRendering, gpuVars, frameVars
<1> QED BY <1>1, <1>2

LEMMA BeginRenderingKeeps == ASSUME TypeOK, TypeOK', Sound, Kept, BeginRendering PROVE Kept'
<1> USE LinesAssumption DEF Sound, Kept
<1>1. Orders'
  <2>1. /\ done = 0 /\ scanlines = 0
        /\ main = "join" => start = 1
        /\ main # "join" => running /\ start = 0
        /\ main \in {"line", "finish", "rest", "setup", "standby", "cache", "join"}
        /\ main = "line" => line = 1
    BY DEF AtRest, BeginRendering, Flags, Orders, Order, Idle, Leaving, InFrame, Setups, TypeOK
  <2>2. UNCHANGED <<running, start, done, main, line>>
    BY DEF BeginRendering, frameVars
  <2>3. \/ thread' = "drawing" /\ scanlines' = 0 /\ row' = 1
        \/ thread' = "drawn" /\ scanlines' = LINES
    BY <2>1 DEF BeginRendering
  <2>4. main = "line" => Order(line - 1)'
    BY <2>1, <2>2, <2>3 DEF AtRest, Order
  <2>5. main # "join" => Order(0)'
    BY <2>1, <2>2, <2>3 DEF AtRest, Order
  <2>6. main = "join" => Leaving'
    BY <2>1, <2>2, <2>3 DEF AtRest, Leaving
  <2> QED BY <2>1, <2>2, <2>3, <2>4, <2>5, <2>6 DEF Orders
<1>2. Contents'
  BY DEF AtRest, Flags, Orders, Idle, Contents, AllLines, TypeOK, BeginRendering, gpuVars, frameVars
<1> QED BY <1>1, <1>2

LEMMA RenderLineSound == ASSUME TypeOK, TypeOK', Sound, RenderLine PROVE Sound'
<1> USE LinesAssumption DEF Sound
<1>1. Flags'
  BY DEF Flags, RenderLine, flags, frameVars
<1>2. Purpose'
  BY DEF Purpose, RenderLine, flags, gpuVars, frameVars
<1> QED BY <1>1, <1>2

LEMMA RenderLineKeeps == ASSUME TypeOK, TypeOK', Sound, Kept, RenderLine PROVE Kept'
<1> USE LinesAssumption DEF Sound, Kept
<1>1. Orders'
  BY DEF AtRest, Orders, Order, Idle, Leaving, TypeOK, RenderLine, flags, frameVars
<1>2. Contents'
  BY DEF AtRest, Contents, AllLines, TypeOK, RenderLine, gpuVars, frameVars
<1> QED BY <1>1, <1>2

LEMMA PostDoneSound == ASSUME TypeOK, TypeOK', Sound, PostDone PROVE Sound'
<1> USE LinesAssumption DEF Sound
<1>1. Flags'
  BY DEF Flags, PostDone, flags, frameVars
<1>2. Purpose'
  BY DEF Purpose, PostDone, flags, gpuVars, frameVars
<1> QED BY <1>1, <1>2

LEMMA PostDoneKeeps == ASSUME TypeOK, TypeOK', Sound, Kept, PostDone PROVE Kept'
<1> USE LinesAssumption DEF Sound, Kept
<1>1. Orders'
  BY DEF AtRest, Orders, Order, Idle, Leaving, PostDone, flags, frameVars
<1>2. Contents'
  BY DEF AtRest, Contents, AllLines, PostDone, gpuVars, frameVars
<1> QED BY <1>1, <1>2

LEMMA EndRenderingSound == ASSUME TypeOK, TypeOK', Sound, EndRendering PROVE Sound'
<1> USE LinesAssumption DEF Sound
<1>1. Flags'
  BY DEF Flags, TypeOK, EndRendering, frameVars
<1>2. Purpose'
  BY DEF Purpose, EndRendering, gpuVars, frameVars
<1> QED BY <1>1, <1>2

LEMMA EndRenderingKeeps == ASSUME TypeOK, TypeOK', Sound, Kept, EndRendering PROVE Kept'
<1> USE LinesAssumption DEF Sound, Kept
<1>1. Orders'
  BY DEF AtRest, Orders, Order, Idle, Leaving, EndRendering, semaphores, frameVars
<1>2. Contents'
  BY DEF AtRest, Contents, AllLines, EndRendering, semaphores, gpuVars, frameVars
<1> QED BY <1>1, <1>2

-----------------------------------------------------------------------------
(* A frame.                                                                *)

LEMMA StartFrameSound == ASSUME TypeOK, TypeOK', Sound, StartFrame PROVE Sound'
<1> USE LinesAssumption DEF Sound
<1>1. Flags'
  BY DEF Flags, StartFrame, flags, threadVars
<1>2. Purpose'
  BY DEF Purpose, Setups, StartFrame
<1> QED BY <1>1, <1>2

LEMMA StartFrameKeeps == ASSUME TypeOK, TypeOK', Sound, Kept, StartFrame PROVE Kept'
<1> USE LinesAssumption DEF Sound, Kept
<1>1. Orders'
  BY DEF AtRest, Orders, Order, Left, StartFrame, flags, semaphores, threadVars
<1>2. Contents'
  BY DEF AtRest, Contents, AllLines, Showing, StartFrame, flags, semaphores, gpuVars, threadVars
<1> QED BY <1>1, <1>2

LEMMA GetLineSound == ASSUME TypeOK, TypeOK', Sound, GetLine PROVE Sound'
<1> USE LinesAssumption DEF Sound
<1>1. Flags'
  BY DEF Flags, Setups, TypeOK, GetLine, flags, threadVars
<1>2. Purpose'
  BY DEF Purpose, Setups, GetLine
<1> QED BY <1>1, <1>2

LEMMA GetLineKeeps == ASSUME TypeOK, TypeOK', Sound, Kept, GetLine PROVE Kept'
<1> USE LinesAssumption DEF Sound, Kept
<1>1. Orders'
  <2>1. /\ main = "line" /\ UNCHANGED <<running, start, done, thread, row>>
        /\ \/ line = LINES /\ main' = "vcount144" /\ line' = LINES
           \/ line # LINES /\ main' = "line" /\ line' = line + 1
    BY DEF GetLine, flags, threadVars
  <2>2. CASE ~running
    <3>1. thread = "none" /\ scanlines' = scanlines
      BY <2>1, <2>2 DEF GetLine, Takes, Flags
    <3> QED BY <2>1, <2>2, <3>1 DEF Orders, Left
  <2>3. CASE running
    <3>1. scanlines > 0 /\ scanlines' = scanlines - 1 /\ thread # "none" /\ Order(line - 1)
      BY <2>1, <2>3 DEF GetLine, Takes, Flags, Orders
    <3>2. line \in 1..LINES /\ row \in 1..LINES /\ scanlines \in Nat
      BY DEF TypeOK
    <3>3. /\ scanlines' + line = scanlines + (line - 1)
          /\ thread \notin {"woken"} /\ start = 0
      BY <3>1, <3>2 DEF AtRest, Order
    <3>4. ASSUME line = LINES, main' = "vcount144" PROVE Order(LINES)'
      BY <2>1, <3>1, <3>2, <3>3, <3>4 DEF AtRest, Order
    <3>5. ASSUME line # LINES, main' = "line", line' = line + 1 PROVE Order(line - 1)'
      <4>1. line' - 1 = line
        BY <3>2, <3>5
      <4> QED BY <2>1, <3>1, <3>2, <3>3, <4>1 DEF AtRest, Order
    <3> QED BY <2>1, <2>3, <3>1, <3>4, <3>5 DEF Orders
  <2> QED BY <2>2, <2>3
<1>2. Contents'
  BY DEF AtRest, Contents, AllLines, Setups, Showing, TypeOK, GetLine, flags, gpuVars, threadVars
<1> QED BY <1>1, <1>2

LEMMA VCount144Sound == ASSUME TypeOK, TypeOK', Sound, VCount144 PROVE Sound'
<1> USE LinesAssumption DEF Sound
<1>1. Flags'
  BY DEF Flags, Setups, TypeOK, VCount144, flags, threadVars
<1>2. Purpose'
  BY DEF Purpose, Setups, VCount144
<1> QED BY <1>1, <1>2

LEMMA VCount144Keeps == ASSUME TypeOK, TypeOK', Sound, Kept, VCount144 PROVE Kept'
<1> USE LinesAssumption DEF Sound, Kept
<1>1. Orders'
  BY DEF AtRest, Flags, Orders, Order, Idle, Left, TypeOK, VCount144, flags, threadVars, Takes
<1>2. Contents'
  BY DEF AtRest, Contents, AllLines, Setups, Showing, TypeOK, VCount144, flags, gpuVars, threadVars
<1> QED BY <1>1, <1>2

LEMMA VBlankSound == ASSUME TypeOK, TypeOK', Sound, VBlank PROVE Sound'
<1> USE LinesAssumption DEF Sound
<1>1. Flags'
  BY DEF Flags, Setups, TypeOK, VBlank, flags, threadVars
<1>2. Purpose'
  BY DEF Purpose, Setups, VBlank
<1> QED BY <1>1, <1>2

LEMMA VBlankKeeps == ASSUME TypeOK, TypeOK', Sound, Kept, VBlank PROVE Kept'
<1> USE LinesAssumption DEF Sound, Kept
<1>1. Orders'
  BY DEF AtRest, Orders, Idle, Left, VBlank, flags, semaphores, threadVars
<1>2. Contents'
  BY DEF AtRest, Flags, Orders, Idle, Contents, AllLines, Setups, Showing, TypeOK, VBlank
<1> QED BY <1>1, <1>2

LEMMA RenderFrameSound == ASSUME TypeOK, TypeOK', Sound, RenderFrame PROVE Sound'
<1> USE LinesAssumption DEF Sound
<1>1. Flags'
  BY DEF Flags, Setups, TypeOK, RenderFrame, threadVars
<1>2. Purpose'
  BY DEF Purpose, Setups, RenderFrame
<1> QED BY <1>1, <1>2

LEMMA RenderFrameKeeps == ASSUME TypeOK, TypeOK', Sound, Kept, RenderFrame PROVE Kept'
<1> USE LinesAssumption DEF Sound, Kept
<1>1. Orders'
  BY DEF AtRest, Orders, Order, Idle, Left, RenderFrame, threadVars
<1>2. Contents'
  BY DEF AtRest, Orders, Idle, Contents, AllLines, Setups, Showing, TypeOK, RenderFrame, threadVars
<1> QED BY <1>1, <1>2

LEMMA FinishFrameSound == ASSUME TypeOK, TypeOK', Sound, FinishFrame PROVE Sound'
<1> USE LinesAssumption DEF Sound
<1>1. Flags'
  BY DEF Flags, Setups, TypeOK, FinishFrame, flags, threadVars
<1>2. Purpose'
  BY DEF Flags, Purpose, Setups, FinishFrame
<1> QED BY <1>1, <1>2

LEMMA FinishFrameKeeps == ASSUME TypeOK, TypeOK', Sound, Kept, FinishFrame PROVE Kept'
<1> USE LinesAssumption DEF Sound, Kept
<1>1. Orders'
  BY DEF AtRest, Orders, Order, Left, FinishFrame, flags, semaphores, threadVars
<1>2. Contents'
  BY DEF AtRest, Contents, AllLines, Setups, Showing, TypeOK, FinishFrame, flags, semaphores, gpuVars,
      threadVars
<1> QED BY <1>1, <1>2

-----------------------------------------------------------------------------
(* Setting the render thread up.                                           *)

LEMMA CreateThreadSound == ASSUME TypeOK, TypeOK', Sound, CreateThread PROVE Sound'
<1> USE LinesAssumption DEF Sound
<1>1. Flags'
  BY DEF Flags, InFrame, TypeOK, CreateThread
<1>2. Purpose'
  BY DEF Purpose, Setups, CreateThread, gpuVars
<1> QED BY <1>1, <1>2

LEMMA CreateThreadKeeps == ASSUME TypeOK, TypeOK', Sound, Kept, CreateThread PROVE Kept'
<1> USE LinesAssumption DEF Sound, Kept
<1>1. Orders'
  BY DEF AtRest, Flags, Orders, Order, Left, CreateThread, semaphores
<1>2. Contents'
  BY DEF AtRest, Flags, Contents, AllLines, Showing, CreateThread, semaphores, gpuVars
<1> QED BY <1>1, <1>2

LEMMA StandbySound == ASSUME TypeOK, TypeOK', Sound, Standby PROVE Sound'
<1> USE LinesAssumption DEF Sound
<1>1. Flags'
  BY DEF Flags, Standby, flags, threadVars
<1>2. Purpose'
  BY DEF Purpose, Setups, Standby, flags, gpuVars
<1> QED BY <1>1, <1>2

\* The flag is right: the order in hand is taken back, or waited for.
LEMMA StandbyKeeps == ASSUME TypeOK, TypeOK', Sound, Kept, Standby, ~FlagIsWrong PROVE Kept'
<1> USE LinesAssumption DEF Sound, Kept
<1>1. Orders'
  BY DEF AtRest, Flags, Orders, Order, Idle, FlagIsWrong, Standby, threadVars, ResetSemaphores
<1>2. Contents'
  <2>1. /\ promised' => promised
        /\ main = "standby" /\ main' \in {"setupWait", "ready"}
        /\ start' = 0
        /\ UNCHANGED <<flags, buffer, threadVars, picture, renderFrameIdentical>>
    BY DEF Standby, ResetSemaphores
  <2>2. ~rendering => main' = "ready"
    BY DEF Standby
  <2>3. rendering = (thread \in {"drawing", "drawn", "posted"})
    BY DEF Flags
  <2>4. Order(0) \/ (thread = "waiting" /\ start = 0)
    BY <2>1 DEF Orders
  <2>5. thread = "waiting" => main' = "ready"
    BY <2>2, <2>3
  <2>6. thread = "posted" => start = 0
    BY <2>4 DEF AtRest, Order, FlagIsWrong
  <2> QED BY <2>1, <2>5, <2>6 DEF AtRest, Contents, AllLines, Showing, flags, threadVars
<1> QED BY <1>1, <1>2

\* The thread is found at rest, and everything starts anew.
LEMMA StandbyMends == ASSUME TypeOK, Sound, Standby, thread = "waiting", ~promised' PROVE Kept'
<1>1. /\ main' = "ready" /\ start' = 0 /\ done' = 0 /\ scanlines' = 0
      /\ thread' = "waiting"
  BY DEF Sound, Flags, Standby, ResetSemaphores, threadVars
<1>2. Orders'
  BY <1>1 DEF AtRest, Orders, Idle
<1>3. Contents'
  BY DEF Contents
<1> QED BY <1>2, <1>3 DEF Kept

LEMMA WaitUntilDoneSound == ASSUME TypeOK, TypeOK', Sound, WaitUntilDone PROVE Sound'
<1> USE LinesAssumption DEF Sound
<1>1. Flags'
  BY DEF Flags, WaitUntilDone, flags, threadVars
<1>2. Purpose'
  BY DEF Purpose, Setups, WaitUntilDone, flags, gpuVars
<1> QED BY <1>1, <1>2

LEMMA WaitUntilDoneKeeps == ASSUME TypeOK, TypeOK', Sound, Kept, WaitUntilDone PROVE Kept'
<1> USE LinesAssumption DEF Sound, Kept
<1>1. Orders'
  BY DEF AtRest, Orders, Order, Idle, WaitUntilDone, threadVars, ResetSemaphores
<1>2. Contents'
  BY DEF AtRest, Contents, AllLines, Showing, WaitUntilDone, flags, gpuVars, threadVars
<1> QED BY <1>1, <1>2

LEMMA StopRenderThreadSound == ASSUME TypeOK, TypeOK', Sound, StopRenderThread PROVE Sound'
<1> USE LinesAssumption DEF Sound
<1>1. Flags'
  BY DEF Flags, InFrame, TypeOK, StopRenderThread, threadVars, Stopped
<1>2. Purpose'
  BY DEF Purpose, Setups, StopRenderThread, gpuVars, Stopped
<1> QED BY <1>1, <1>2

LEMMA StopRenderThreadKeeps == ASSUME TypeOK, TypeOK', Sound, Kept, StopRenderThread PROVE Kept'
<1> USE LinesAssumption DEF Sound, Kept
<1>1. Orders'
  BY DEF AtRest, Orders, Order, Leaving, Left, TypeOK, StopRenderThread, threadVars, Stopped
<1>2. Contents'
  BY DEF AtRest, Contents, AllLines, InFrame, Showing, StopRenderThread, gpuVars, threadVars, Stopped
<1> QED BY <1>1, <1>2

LEMMA JoinThreadSound == ASSUME TypeOK, TypeOK', Sound, JoinThread PROVE Sound'
<1> USE LinesAssumption DEF Sound
<1>1. Flags'
  BY DEF Flags, Purpose, InFrame, TypeOK, JoinThread, flags, threadVars, Stopped
<1>2. Purpose'
  BY DEF Purpose, Setups, JoinThread, gpuVars, Stopped
<1> QED BY <1>1, <1>2

LEMMA JoinThreadKeeps == ASSUME TypeOK, TypeOK', Sound, Kept, JoinThread PROVE Kept'
<1> USE LinesAssumption DEF Sound, Kept
<1>1. Orders'
  BY DEF Flags, Orders, Left, JoinThread, flags, semaphores, Stopped
<1>2. Contents'
  BY DEF AtRest, Purpose, Contents, InFrame, Showing, TypeOK, JoinThread, gpuVars, Stopped
<1> QED BY <1>1, <1>2

LEMMA EnableRenderThreadSound == ASSUME TypeOK, TypeOK', Sound, EnableRenderThread PROVE Sound'
<1> USE LinesAssumption DEF Sound
<1>1. Flags'
  BY DEF Flags, InFrame, EnableRenderThread, flags, threadVars
<1>2. Purpose'
  BY DEF Purpose, Setups, EnableRenderThread
<1> QED BY <1>1, <1>2

LEMMA EnableRenderThreadKeeps == ASSUME TypeOK, TypeOK', Sound, Kept, EnableRenderThread PROVE Kept'
<1> USE LinesAssumption DEF Sound, Kept
<1>1. Orders'
  BY DEF AtRest, Flags, Purpose, Orders, Order, Idle, Left, Setups, EnableRenderThread, flags, threadVars
<1>2. Contents'
  <2>1. /\ promised' => promised /\ picture' = picture
        /\ UNCHANGED <<buffer, thread, frameIdentical>>
        /\ main = "ready" /\ main' \in {"rest", "cache"}
    BY DEF EnableRenderThread, Purpose, InFrame, Setups, flags, threadVars
  <2>2. \/ thread = "none" /\ start' = start
        \/ thread \in AtRest /\ start = 0 /\ start' = 1
    <3>1. running = threaded /\ running = (thread # "none")
      BY <2>1 DEF Flags
    <3>2. CASE running
      <4>1. thread \in AtRest /\ start = 0
        BY <2>1, <3>2 DEF AtRest, Orders, Idle
      <4>2. start' = start + 1
        BY <3>1, <3>2 DEF EnableRenderThread
      <4> QED BY <4>1, <4>2
    <3>3. CASE ~running
      <4>1. ~threaded /\ thread = "none"
        <5>1. running \in BOOLEAN /\ threaded \in BOOLEAN
          BY DEF TypeOK
        <5>2. ~threaded
          BY <3>1, <3>3, <5>1
        <5>3. thread = "none"
          BY <3>1, <3>3
        <5> QED BY <5>2, <5>3
      <4>2. start' = start
        BY <4>1 DEF EnableRenderThread
      <4> QED BY <4>1, <4>2
    <3> QED BY <3>2, <3>3
  <2>3. promised /\ (thread = "none" \/ frameIdentical) => AllLines
    BY <2>1, <2>2 DEF AtRest, Contents, Showing
  <2>4. promised' /\ (thread = "none" \/ frameIdentical) => AllLines'
    BY <2>1, <2>3 DEF AllLines
  <2> QED BY <2>1, <2>2, <2>4 DEF AtRest, Contents
<1> QED BY <1>1, <1>2

LEMMA ResetVRAMCacheSound == ASSUME TypeOK, TypeOK', Sound, ResetVRAMCache PROVE Sound'
<1> USE LinesAssumption DEF Sound
<1>1. Flags'
  BY DEF Flags, ResetVRAMCache, flags, threadVars
<1>2. Purpose'
  BY DEF Purpose, Setups, ResetVRAMCache
<1> QED BY <1>1, <1>2

LEMMA ResetVRAMCacheKeeps == ASSUME TypeOK, TypeOK', Sound, Kept, ResetVRAMCache PROVE Kept'
<1> USE LinesAssumption DEF Sound, Kept
<1>1. Orders'
  BY DEF AtRest, Orders, Order, Left, ResetVRAMCache, flags, semaphores, threadVars
<1>2. Contents'
  BY DEF AtRest, Purpose, Contents, Setups, ResetVRAMCache
<1> QED BY <1>1, <1>2

-----------------------------------------------------------------------------
(* Between two frames.                                                     *)

LEMMA DoSavestateSound == ASSUME TypeOK, TypeOK', Sound, DoSavestate PROVE Sound'
<1> USE LinesAssumption DEF Sound
<1>1. Flags'
  BY DEF Flags, DoSavestate, flags, threadVars
<1>2. Purpose'
  BY DEF Flags, Purpose, DoSavestate, flags
<1> QED BY <1>1, <1>2

LEMMA DoSavestateKeeps == ASSUME TypeOK, TypeOK', Sound, Kept, DoSavestate PROVE Kept'
<1> USE LinesAssumption DEF Sound, Kept
<1>1. Orders'
  BY DEF AtRest, Orders, Order, Left, DoSavestate, flags, semaphores, threadVars
<1>2. Contents'
  BY DEF AtRest, Contents, AllLines, Showing, DoSavestate, flags, semaphores, threadVars
<1> QED BY <1>1, <1>2

LEMMA SetThreadedSound == ASSUME TypeOK, TypeOK', Sound, SetThreaded PROVE Sound'
<1> USE LinesAssumption DEF Sound
<1>1. Flags'
  BY DEF Flags, InFrame, SetThreaded, threadVars
<1>2. Purpose'
  BY DEF Purpose, SetThreaded
<1> QED BY <1>1, <1>2

LEMMA SetThreadedKeeps == ASSUME TypeOK, TypeOK', Sound, Kept, SetThreaded PROVE Kept'
<1> USE LinesAssumption DEF Sound, Kept
<1>1. Orders'
  BY DEF AtRest, Orders, Order, Left, SetThreaded, semaphores, threadVars
<1>2. Contents'
  BY DEF AtRest, Contents, AllLines, Showing, SetThreaded, semaphores, threadVars
<1> QED BY <1>1, <1>2

LEMMA ResetSound == ASSUME TypeOK, TypeOK', Sound, Reset PROVE Sound'
<1> USE LinesAssumption DEF Sound
<1>1. Flags'
  BY DEF Flags, Reset, flags, threadVars
<1>2. Purpose'
  BY DEF Flags, Purpose, Reset, flags
<1> QED BY <1>1, <1>2

LEMMA ResetKeeps == ASSUME TypeOK, TypeOK', Sound, Kept, Reset PROVE Kept'
<1> USE LinesAssumption DEF Sound, Kept
<1>1. Orders'
  BY DEF AtRest, Orders, Order, Left, Reset, flags, semaphores, threadVars
<1>2. Contents'
  BY DEF AtRest, Contents, Reset
<1> QED BY <1>1, <1>2

LEMMA DestroySound == ASSUME TypeOK, TypeOK', Sound, Destroy PROVE Sound'
<1> USE LinesAssumption DEF Sound
<1>1. Flags'
  BY DEF Flags, Destroy, flags, threadVars
<1>2. Purpose'
  BY DEF Flags, Purpose, Destroy, flags
<1> QED BY <1>1, <1>2

LEMMA DestroyKeeps == ASSUME TypeOK, TypeOK', Sound, Kept, Destroy PROVE Kept'
<1> USE LinesAssumption DEF Sound, Kept
<1>1. Orders'
  BY DEF AtRest, Orders, Order, Left, Destroy, flags, semaphores, threadVars
<1>2. Contents'
  BY DEF AtRest, Contents, Destroy
<1> QED BY <1>1, <1>2

-----------------------------------------------------------------------------
(* The inductive invariant, and what follows from it.                      *)

LEMMA StartsInStep == Init => IInv
<1> SUFFICES ASSUME Init PROVE IInv
  OBVIOUS
<1>1. /\ threaded \in BOOLEAN /\ running \in BOOLEAN /\ rendering \in BOOLEAN
      /\ frameIdentical \in BOOLEAN /\ renderFrameIdentical \in BOOLEAN /\ abort \in BOOLEAN
      /\ dirty \in BOOLEAN /\ promised \in BOOLEAN /\ misread \in BOOLEAN
  BY DEF Init
<1>2. /\ start = 0 /\ done = 0 /\ scanlines = 0 /\ events = 0 /\ picture = 0 /\ misread = FALSE
      /\ thread = "none" /\ row = 1 /\ main = "rest" /\ line = 1 /\ then = "reset"
      /\ buffer = [l \in 1..LINES |-> Blank]
      /\ ~running /\ ~threaded /\ ~rendering /\ ~abort /\ ~promised
  BY DEF Init
<1>3. TypeOK
  BY <1>1, <1>2, LinesAssumption, EventsAssumption, PicturesGoOn DEF TypeOK, Callers
<1>4. Flags
  BY <1>1, <1>2 DEF Flags
<1>5. Sound /\ Kept
  BY <1>2, <1>4, LinesAssumption
  DEF Sound, Kept, Purpose, Orders, Contents, Left, InFrame, Setups
<1> QED BY <1>2, <1>3, <1>5 DEF IInv

LEMMA StaysInStep == IInv /\ [Next]_vars => IInv'
<1> SUFFICES ASSUME IInv, [Next]_vars PROVE IInv'
  OBVIOUS
<1>1. TypeOK /\ TypeOK'
  BY TypeHolds DEF IInv
<1>2. ASSUME events' = 0 PROVE Sound' /\ (InStep' => Kept')
  <2>1. CASE SetVCount \/ WakeUp
    <3>1. events' = events + 1 /\ events \in Nat
      BY <1>1, <2>1, EventsAssumption DEF SetVCount, WakeUp, TypeOK
    <3> QED BY <1>2, <3>1
  <2>2. CASE UNCHANGED vars
    <3>1. Sound /\ (InStep => Kept) /\ (InStep' => InStep)
      BY <1>2, <2>2 DEF IInv, InStep, vars, frameVars, history
    <3>2. Sound' /\ (Kept => Kept')
      BY <2>2, <3>1 DEF vars, flags, semaphores, gpuVars, frameVars, threadVars, Sound, Kept,
              Flags, Purpose, Orders, Order, AtRest, Idle, Left, Leaving, Contents, AllLines
    <3> QED BY <3>1, <3>2
  <2>3. CASE RenderThreadFunc
    <3>1. Sound /\ (InStep => Kept) /\ (InStep' => InStep)
      BY <1>2, <2>3 DEF IInv, InStep, RenderThreadFunc, WaitForStart, BeginRendering, RenderLine,
                        PostDone, EndRendering, frameVars, history
    <3>2. Sound'
      BY <1>1, <2>3, <3>1, WaitForStartSound, BeginRenderingSound, 
         RenderLineSound, PostDoneSound, EndRenderingSound DEF RenderThreadFunc
    <3>3. Kept => Kept'
      BY <1>1, <2>3, <3>1, WaitForStartKeeps, BeginRenderingKeeps, 
         RenderLineKeeps, PostDoneKeeps, EndRenderingKeeps DEF RenderThreadFunc
    <3> QED BY <3>1, <3>2, <3>3
  <2>4. CASE Frame \/ StartFrame
    <3>1. Sound /\ (InStep => Kept) /\ (InStep' => InStep)
      BY <1>2, <2>4 DEF IInv, InStep, Frame, StartFrame, GetLine, VCount144, VBlank,
                        RenderFrame, FinishFrame, history
    <3>2. Sound'
      BY <1>1, <2>4, <3>1, StartFrameSound, GetLineSound, VCount144Sound, 
         VBlankSound, RenderFrameSound, FinishFrameSound DEF Frame
    <3>3. Kept => Kept'
      BY <1>1, <2>4, <3>1, StartFrameKeeps, GetLineKeeps, VCount144Keeps, 
         VBlankKeeps, RenderFrameKeeps, FinishFrameKeeps DEF Frame
    <3> QED BY <3>1, <3>2, <3>3
  <2>5. CASE Standby
    <3>1. Sound /\ (InStep => Kept)
      BY <1>2, <2>5 DEF IInv, Standby
    <3>2. Sound'
      BY <1>1, <2>5, <3>1, StandbySound
    <3>3. ASSUME ~misread' PROVE Kept'
      <4>1. ~FlagIsWrong /\ (~misread \/ thread = "waiting") /\ (promised' => promised)
        BY <2>5, <3>3 DEF Standby
      <4>2. CASE ~misread
        <5>1. Kept
          BY <1>2, <2>5, <3>1, <4>2 DEF InStep, Standby
        <5> QED BY <1>1, <2>5, <3>1, <4>1, <5>1, StandbyKeeps
      <4>3. CASE misread
        <5>1. thread = "waiting" /\ ~promised'
          BY <4>1, <4>3 DEF IInv
        <5> QED BY <1>1, <2>5, <3>1, <5>1, StandbyMends
      <4> QED BY <4>2, <4>3
    <3> QED BY <3>2, <3>3 DEF InStep
  <2>6. CASE Setup /\ ~Standby
    <3>1. Sound /\ (InStep => Kept) /\ (InStep' => InStep)
      BY <1>2, <2>6 DEF IInv, InStep, Setup, CreateThread, WaitUntilDone, StopRenderThread,
                        JoinThread, EnableRenderThread, ResetVRAMCache, history
    <3>2. Sound'
      BY <1>1, <2>6, <3>1, CreateThreadSound, WaitUntilDoneSound, 
         StopRenderThreadSound, JoinThreadSound, EnableRenderThreadSound, ResetVRAMCacheSound DEF Setup
    <3>3. Kept => Kept'
      BY <1>1, <2>6, <3>1, CreateThreadKeeps, WaitUntilDoneKeeps, 
         StopRenderThreadKeeps, JoinThreadKeeps, EnableRenderThreadKeeps, ResetVRAMCacheKeeps DEF Setup
    <3> QED BY <3>1, <3>2, <3>3
  <2>7. CASE DoSavestate \/ SetThreaded \/ Reset \/ Destroy
    <3>1. Sound /\ (InStep => Kept) /\ (InStep' => InStep)
      BY <1>2, <2>7 DEF IInv, InStep, DoSavestate, SetThreaded, Reset, Destroy, history
    <3>2. Sound'
      BY <1>1, <2>7, <3>1, DoSavestateSound, SetThreadedSound, ResetSound, DestroySound
    <3>3. Kept => Kept'
      BY <1>1, <2>7, <3>1, DoSavestateKeeps, SetThreadedKeeps, ResetKeeps, DestroyKeeps
    <3> QED BY <3>1, <3>2, <3>3
  <2> QED BY <2>1, <2>2, <2>3, <2>4, <2>5, <2>6, <2>7 DEF Next, User
<1>3. misread' => ~promised'
  <2>1. CASE Standby \/ RenderFrame
    <3>1. ASSUME Standby PROVE misread' => ~promised'
      <4>1. promised' = (promised /\ ~misread')
        BY <3>1 DEF Standby
      <4> QED BY <4>1, Zenon
    <3>2. ASSUME RenderFrame PROVE misread' => ~promised'
      <4>1. promised' = ((promised \/ ~frameIdentical') /\ ~misread) /\ misread' = misread
        BY <3>2 DEF RenderFrame, history
      <4> QED BY <4>1, Zenon
    <3> QED BY <2>1, <3>1, <3>2
  <2>2. CASE ~Standby /\ ~RenderFrame
    <3>1. (misread' <=> misread) /\ (promised' => promised)
      <4>1. CASE RenderThreadFunc
        BY <4>1 DEF RenderThreadFunc, WaitForStart, BeginRendering, RenderLine, PostDone,
                    EndRendering, frameVars, gpuVars, history
      <4>2. CASE Frame
        BY <2>2, <4>2 DEF Frame, GetLine, VCount144, VBlank, FinishFrame, gpuVars, history
      <4>3. CASE Setup
        BY <2>2, <4>3 DEF Setup, CreateThread, WaitUntilDone, StopRenderThread, JoinThread,
                    EnableRenderThread, ResetVRAMCache, gpuVars, history
      <4>4. CASE StartFrame \/ Destroy \/ SetVCount \/ WakeUp
        BY <4>4 DEF StartFrame, Destroy, SetVCount, WakeUp, gpuVars, history
      <4>5. CASE DoSavestate \/ SetThreaded \/ Reset
        <5>1. misread' = misread
          BY <4>5 DEF DoSavestate, SetThreaded, Reset, history
        <5>2. promised' => promised
          BY <4>5, Zenon DEF DoSavestate, SetThreaded, Reset
        <5> QED BY <5>1, <5>2
      <4>6. CASE UNCHANGED vars
        BY <4>6 DEF frameVars, gpuVars, history, vars
      <4> QED BY <4>1, <4>2, <4>3, <4>4, <4>5, <4>6 DEF Next, User
    <3> QED BY <3>1 DEF IInv
  <2> QED BY <2>1, <2>2
<1>4. InStep' => events' = 0
  BY DEF InStep
<1> QED BY <1>1, <1>2, <1>3, <1>4 DEF IInv

LEMMA AlwaysInStep == Spec => []IInv
BY StartsInStep, StaysInStep, PTL DEF Spec

\* The variables of both threads keep their types, whatever happens in a frame.
THEOREM TypeCorrect == Spec => []TypeOK
<1>1. IInv => TypeOK
  BY DEF IInv
<1> QED BY <1>1, AlwaysInStep, PTL

\* While the semaphores are in step no order to draw is given before the end of the
\* one before has been noticed (SetupRenderThread clears what it left), and no
\* more lines are announced than a frame has.
THEOREM OrdersComeOneByOne == Spec => []OneOrderAtATime
<1>1. IInv => OneOrderAtATime
  <2> SUFFICES ASSUME IInv, running, InStep
               PROVE  start + done <= 1 /\ scanlines <= LINES
    BY DEF OneOrderAtATime
  <2>1. Flags /\ Orders /\ TypeOK
    BY DEF IInv, InStep, Sound, Kept
  <2>2. /\ main # "join" /\ main # "gone"
        /\ line \in Nat /\ line >= 1 /\ scanlines \in Nat /\ row \in Nat /\ row <= LINES
        /\ LINES \in Nat \ {0}
    BY <2>1, LinesAssumption DEF Flags, TypeOK
  <2>3. ASSUME NEW taken \in Nat, Order(taken) PROVE start + done <= 1 /\ scanlines <= LINES
    BY <2>2, <2>3 DEF AtRest, Order
  <2>4. Idle => start + done <= 1 /\ scanlines <= LINES
    BY <2>2 DEF AtRest, Idle
  <2>5. line - 1 \in Nat
    BY <2>2
  <2>6. \/ Order(line - 1) \/ Order(LINES) \/ Order(0) \/ Idle
        \/ start = 0 /\ done \in Nat /\ done <= 1 /\ scanlines <= LINES
    BY <2>1, <2>2 DEF Orders, TypeOK, InFrame, Setups
  <2> QED BY <2>2, <2>3, <2>4, <2>5, <2>6
<1> QED BY <1>1, AlwaysInStep, PTL

\* Every line that GetLine returns is finished and belongs to this frame's
\* picture, through saved states, resets and changes of the setting.
THEOREM LinesAreTrue == Spec => LinesTrue
<1>1. ASSUME IInv, GetLine, promised, InStep PROVE buffer[line] = picture
  <2>1. Flags /\ Orders /\ Contents /\ TypeOK
    BY <1>1 DEF IInv, InStep, Sound, Kept
  <2>2. main = "line" /\ line \in 1..LINES /\ row \in 1..LINES
    BY <1>1, <2>1 DEF GetLine, TypeOK
  <2>3. CASE ~running
    BY <1>1, <2>1, <2>2, <2>3 DEF AtRest, Flags, Contents, Showing, InFrame, AllLines
  <2>4. CASE running
    <3>1. scanlines > 0 /\ scanlines \in Nat /\ Order(line - 1)
      BY <1>1, <2>1, <2>2, <2>4 DEF GetLine, Takes, Flags, Orders, TypeOK
    <3>2. \/ thread = "drawing" /\ line < row
          \/ thread = "drawn"
          \/ thread \in AtRest /\ start = 0
      BY <2>2, <3>1 DEF AtRest, Order
    <3> QED BY <1>1, <2>1, <2>2, <3>2 DEF AtRest, Contents, Showing, InFrame, AllLines
  <2> QED BY <2>3, <2>4
<1>2. IInv /\ [Next]_vars => [GetLine /\ promised /\ InStep => buffer[line] = picture]_vars
  BY <1>1
<1> QED BY <1>2, AlwaysInStep, PTL DEF Spec, LinesTrue

\* When a frame changes the GPU's state (VBlank, the copies of the textures) the
\* render thread has drawn its last line.
THEOREM FramesLeaveItInPeace == Spec => FrameQuiet
<1>1. ASSUME IInv, VBlank \/ RenderFrame, InStep PROVE thread \notin Reading
  <2>1. main \in {"vblank", "vcount215"} /\ Flags /\ Orders
    BY <1>1 DEF IInv, InStep, Sound, Kept, VBlank, RenderFrame
  <2> QED BY <2>1 DEF AtRest, Flags, Orders, Idle, Reading
<1>2. IInv /\ [Next]_vars =>
        [picture' # picture /\ InStep /\ (VBlank \/ RenderFrame) => thread \notin Reading]_vars
  BY <1>1
<1> QED BY <1>2, AlwaysInStep, PTL DEF Spec, FrameQuiet

=============================================================================
