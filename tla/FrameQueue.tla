----------------------------- MODULE FrameQueue -----------------------------
(***************************************************************************)
(* The queue of frame buffers between the emulator thread, which draws one *)
(* picture per emulated frame, and the render thread, which shows pictures *)
(* on the Android surfaces (renderer/FrameQueue.cpp).                      *)
(*                                                                         *)
(* Every method of the class holds frameLock from its first to its last    *)
(* line, so each is one action; getPresentFrame releases the lock while it *)
(* waits for a frame, so its wait and its two ways out are three actions.  *)
(* Between two calls a thread holds a raw Frame pointer, without any lock: *)
(* renderFrame (MelonInstance::runFrame) and presentFrame (the JNI         *)
(* presentFrame).  Who holds what, at every moment, is what this module is *)
(* about.  A picture is abstracted to its number.                          *)
(***************************************************************************)
EXTENDS Integers, Sequences

CONSTANTS
    FRAME_QUEUE_SIZE,  \* number of frame buffers (nine in the code)
    MaxDrawn           \* bound on the number of pictures drawn

ASSUME SizeAssumption == FRAME_QUEUE_SIZE \in Nat /\ FRAME_QUEUE_SIZE >= 3
ASSUME BoundAssumption == MaxDrawn \in Nat

Frames == 1..FRAME_QUEUE_SIZE
NoFrame == 0

VARIABLES
    freeQueue,      \* FIFO of frames that hold no picture to be shown
    presentQueue,   \* deque of drawn frames, newest first
    previousFrame,  \* frame handed out by the last getPresentFrame, or NoFrame
    emulator,       \* "idle" | "drawing" | "drawn" | "handedOver": where runFrame is
    renderFrame,    \* frame runFrame holds a pointer to, or NoFrame
    presenter,      \* "idle" | "waiting" | "presenting": where presentFrame is
    presentFrame,   \* frame presentFrame holds a pointer to, or NoFrame
    picture,        \* picture[f]: number of the picture in f's texture (0: none)
    drawn,          \* number of pictures drawn so far
    pushed          \* number of the picture last pushed to presentQueue

queues == <<freeQueue, presentQueue, previousFrame>>
emulatorVars == <<emulator, renderFrame, drawn, pushed>>
presenterVars == <<presenter, presentFrame>>
vars == <<queues, emulatorVars, presenterVars, picture>>

TypeOK ==
    /\ freeQueue \in Seq(Frames)
    /\ presentQueue \in Seq(Frames)
    /\ previousFrame \in Frames \cup {NoFrame}
    /\ emulator \in {"idle", "drawing", "drawn", "handedOver"}
    /\ renderFrame \in Frames \cup {NoFrame}
    /\ presenter \in {"idle", "waiting", "presenting"}
    /\ presentFrame \in Frames \cup {NoFrame}
    /\ picture \in [Frames -> Nat]
    /\ drawn \in Nat
    /\ pushed \in Nat

Init ==
    /\ freeQueue = [i \in Frames |-> i]
    /\ presentQueue = <<>>
    /\ previousFrame = NoFrame
    /\ emulator = "idle"
    /\ renderFrame = NoFrame
    /\ presenter = "idle"
    /\ presentFrame = NoFrame
    /\ picture = [f \in Frames |-> 0]
    /\ drawn = 0
    /\ pushed = 0

-----------------------------------------------------------------------------
(* The emulator thread: MelonInstance::runFrame.                           *)

\* A free frame if there is one, else the oldest picture waiting to be shown.
\* back() and pop_back() of an empty deque are undefined: no step here, and
\* RenderFrameAvailable says it does not come to that.
GetRenderFrame ==
    /\ emulator = "idle"
    /\ drawn < MaxDrawn
    /\ \/ /\ freeQueue # <<>>
          /\ renderFrame' = Head(freeQueue)
          /\ freeQueue' = Tail(freeQueue)
          /\ UNCHANGED presentQueue
       \/ /\ freeQueue = <<>>
          /\ presentQueue # <<>>
          /\ renderFrame' = presentQueue[Len(presentQueue)]
          /\ presentQueue' = SubSeq(presentQueue, 1, Len(presentQueue) - 1)
          /\ UNCHANGED freeQueue
    /\ emulator' = "drawing"
    /\ UNCHANGED <<previousFrame, drawn, pushed, presenterVars, picture>>

\* RunFrame draws into the frame's texture.
Draw ==
    /\ emulator = "drawing"
    /\ emulator' = "drawn"
    /\ drawn' = drawn + 1
    /\ picture' = [picture EXCEPT ![renderFrame] = drawn + 1]
    /\ UNCHANGED <<queues, renderFrame, pushed, presenterVars>>

\* Mutant of PushRenderedFrame: push_back for push_front.
PushBack ==
    /\ emulator = "drawn"
    /\ presentQueue' = Append(presentQueue, renderFrame)
    /\ pushed' = picture[renderFrame]
    /\ emulator' = "handedOver"
    /\ UNCHANGED <<freeQueue, previousFrame, renderFrame, drawn, presenterVars, picture>>

PushRenderedFrame ==
    /\ emulator = "drawn"
    /\ presentQueue' = <<renderFrame>> \o presentQueue
    /\ pushed' = picture[renderFrame]
    /\ emulator' = "handedOver"
    /\ UNCHANGED <<freeQueue, previousFrame, renderFrame, drawn, presenterVars, picture>>

\* The console sleeps: the picture is thrown away.
DiscardRenderedFrame ==
    /\ emulator = "drawn"
    /\ freeQueue' = Append(freeQueue, renderFrame)
    /\ emulator' = "handedOver"
    /\ UNCHANGED <<presentQueue, previousFrame, renderFrame, drawn, pushed, presenterVars, picture>>

\* After handing the frame over runFrame still reads its texture for the
\* rewind and save state screenshots; the pointer dies with the call.
EndRunFrame ==
    /\ emulator = "handedOver"
    /\ emulator' = "idle"
    /\ renderFrame' = NoFrame
    /\ UNCHANGED <<queues, drawn, pushed, presenterVars, picture>>

-----------------------------------------------------------------------------
(* The render thread: presentFrame of the JNI layer.                       *)

Return(f) == presenter' = "presenting" /\ presentFrame' = f

\* Mutants of TakeNewest: older pictures are dropped without becoming free; the
\* new frame becomes free instead of the one before it; the frame shown before is
\* forgotten.
TakeAndLoseOlder ==
    /\ presentQueue # <<>>
    /\ freeQueue' = freeQueue \o (IF previousFrame = NoFrame THEN <<>> ELSE <<previousFrame>>)
    /\ previousFrame' = Head(presentQueue)
    /\ presentQueue' = <<>>
    /\ Return(Head(presentQueue))

TakeAndFree ==
    /\ presentQueue # <<>>
    /\ freeQueue' = freeQueue \o presentQueue
    /\ previousFrame' = NoFrame
    /\ presentQueue' = <<>>
    /\ Return(Head(presentQueue))

TakeAndForgetPrevious ==
    /\ presentQueue # <<>>
    /\ freeQueue' = freeQueue \o Tail(presentQueue)
    /\ previousFrame' = Head(presentQueue)
    /\ presentQueue' = <<>>
    /\ Return(Head(presentQueue))

\* The newest picture is handed out; the one shown before it and every older
\* one still queued become free.
TakeNewest ==
    /\ presentQueue # <<>>
    /\ freeQueue' = freeQueue
                    \o (IF previousFrame = NoFrame THEN <<>> ELSE <<previousFrame>>)
                    \o Tail(presentQueue)
    /\ previousFrame' = Head(presentQueue)
    /\ presentQueue' = <<>>
    /\ Return(Head(presentQueue))

GetPresentFrame == presenter = "idle" /\ TakeNewest /\ UNCHANGED <<emulatorVars, picture>>

\* Mutant of GetPreviousFrame: the outcome of the wait is not looked at.
GetPreviousAnyway ==
    /\ presenter \in {"idle", "waiting"}
    /\ Return(previousFrame)
    /\ UNCHANGED <<queues, emulatorVars, picture>>

\* No picture, and either no deadline was given or the deadline passed.
GetPreviousFrame ==
    /\ presenter \in {"idle", "waiting"}
    /\ presentQueue = <<>>
    /\ Return(previousFrame)
    /\ UNCHANGED <<queues, emulatorVars, picture>>

\* wait_until on presentFrameReadyCondition releases frameLock.
WaitForFrame ==
    /\ presenter = "idle"
    /\ presentQueue = <<>>
    /\ presenter' = "waiting"
    /\ UNCHANGED <<queues, emulatorVars, presentFrame, picture>>

\* Notified, woken spuriously or timed out: the predicate holds.
FrameReady == presenter = "waiting" /\ TakeNewest /\ UNCHANGED <<emulatorVars, picture>>

\* The callback has drawn the texture on every surface.
EndPresentFrame ==
    /\ presenter = "presenting"
    /\ presenter' = "idle"
    /\ presentFrame' = NoFrame
    /\ UNCHANGED <<queues, emulatorVars, picture>>

-----------------------------------------------------------------------------
EmulatorNext == GetRenderFrame \/ Draw \/ PushRenderedFrame \/ DiscardRenderedFrame \/ EndRunFrame

PresenterNext == GetPresentFrame \/ GetPreviousFrame \/ WaitForFrame \/ FrameReady \/ EndPresentFrame

Next == EmulatorNext \/ PresenterNext

Spec == Init /\ [][Next]_vars

\* The emulation loop calls runFrame for ever, and the choreographer posts
\* presentFrame on every vsync; a wait ends at its deadline at the latest.
Fairness == WF_vars(EmulatorNext) /\ WF_vars(PresenterNext)

FairSpec == Spec /\ Fairness
-----------------------------------------------------------------------------
InQueue(q) == {q[i] : i \in DOMAIN q}
Duplicates(q) == \E i, j \in DOMAIN q : i # j /\ q[i] = q[j]

\* No frame is lost or queued twice: the frame being drawn, the frame last
\* handed to the presenter, the free queue and the present queue partition the
\* frame buffers, whatever the order of the two threads' calls.
FramesConserved ==
    /\ ~ Duplicates(freeQueue) /\ ~ Duplicates(presentQueue)
    /\ InQueue(freeQueue) \cap InQueue(presentQueue) = {}
    /\ previousFrame \notin InQueue(freeQueue) \cup InQueue(presentQueue)
    /\ emulator \in {"drawing", "drawn"} =>
           renderFrame \notin InQueue(freeQueue) \cup InQueue(presentQueue) \cup {previousFrame}
    /\ Frames \subseteq InQueue(freeQueue) \cup InQueue(presentQueue) \cup {previousFrame}
                            \cup (IF emulator \in {"drawing", "drawn"} THEN {renderFrame} ELSE {})

\* The emulator thread never draws into the texture the render thread is
\* showing, although neither holds a lock while it works on its frame.
NoDrawWhilePresented ==
    emulator \in {"drawing", "drawn"} => renderFrame # presentFrame

\* getRenderFrame never pops an empty deque (undefined behaviour), and when it
\* has to take a picture back it never takes the newest one.
RenderFrameAvailable ==
    emulator = "idle" /\ freeQueue = <<>> => Len(presentQueue) >= 2

\* The screen shows pictures in the order they were drawn and a new one is
\* always the newest pushed: the queue implements LatestFrame.
LF == INSTANCE LatestFrame WITH
          latest <- pushed,
          shown <- IF previousFrame = NoFrame THEN 0 ELSE picture[previousFrame]
ShowsLatest == LF!Spec

\* Every picture pushed is eventually overtaken on the screen by itself or a
\* newer one, whatever the speeds of the two threads.
PushedIsShown ==
    \A n \in 1..MaxDrawn :
        (pushed = n) ~> (previousFrame # NoFrame /\ picture[previousFrame] >= n)
=============================================================================
