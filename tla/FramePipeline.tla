---------------------------- MODULE FramePipeline ----------------------------
(***************************************************************************)
(* The frame queue together with the GPU.  What the two threads do with a  *)
(* frame (MelonInstance::runFrame, the JNI presentFrame) only queues GL    *)
(* commands in their two contexts, which the GPU executes later and in     *)
(* parallel; holding a frame on the CPU says nothing about when the GPU    *)
(* reads or writes its texture.  The two EGL fences of a frame order them. *)
(*                                                                         *)
(* A context is the sequence of its commands not yet finished.  A fence is *)
(* the number of commands of its context that have to finish before it     *)
(* signals: 0 is a fence that has signalled, or none.  A command carries   *)
(* in "after" the fence of the other context eglWaitSync put before it.    *)
(***************************************************************************)
EXTENDS FrameQueue

CONSTANT MaxPending  \* commands a context queues before the driver blocks the thread

ASSUME PendingAssumption == MaxPending \in Nat \ {0}

VARIABLES
    drawStream,    \* commands of the emulator thread's context
    showStream,    \* commands of the render thread's context
    renderFence,   \* renderFence[f]: f has been drawn
    presentFence,  \* presentFence[f]: f has been shown
    drawAfter,     \* wait queued before the next draw command
    gpuDraw,       \* texture the GPU is writing, or NoFrame
    gpuShow,       \* texture the GPU is reading, or NoFrame
    texture        \* texture[f]: number of the picture really in f's texture

gpuVars == <<drawStream, showStream, renderFence, presentFence, drawAfter, gpuDraw, gpuShow, texture>>
pipelineVars == <<vars, gpuVars>>

Command == [frame : Frames, picture : Nat, after : Nat]

PipelineTypeOK ==
    /\ TypeOK
    /\ drawStream \in Seq(Command) /\ Len(drawStream) <= MaxPending
    /\ showStream \in Seq(Command) /\ Len(showStream) <= MaxPending
    /\ renderFence \in [Frames -> 0..MaxPending]
    /\ presentFence \in [Frames -> 0..MaxPending]
    /\ drawAfter \in 0..MaxPending
    /\ gpuDraw \in Frames \cup {NoFrame}
    /\ gpuShow \in Frames \cup {NoFrame}
    /\ texture \in [Frames -> Nat]

PipelineInit ==
    /\ Init
    /\ drawStream = <<>> /\ showStream = <<>>
    /\ renderFence = [f \in Frames |-> 0]
    /\ presentFence = [f \in Frames |-> 0]
    /\ drawAfter = 0
    /\ gpuDraw = NoFrame /\ gpuShow = NoFrame
    /\ texture = [f \in Frames |-> 0]

-----------------------------------------------------------------------------
(* The emulator thread.                                                    *)

\* Mutant of BeginDraw: no wait for the presentation.
BeginDrawAtOnce ==
    /\ GetRenderFrame
    /\ renderFence' = [renderFence EXCEPT ![renderFrame'] = 0]
    /\ drawAfter' = 0
    /\ UNCHANGED <<drawStream, showStream, presentFence, gpuDraw, gpuShow, texture>>

\* The old render fence is deleted, and the context told to wait until the
\* last presentation of the frame is finished.
BeginDraw ==
    /\ GetRenderFrame
    /\ renderFence' = [renderFence EXCEPT ![renderFrame'] = 0]
    /\ drawAfter' = presentFence[renderFrame']
    /\ UNCHANGED <<drawStream, showStream, presentFence, gpuDraw, gpuShow, texture>>

QueueDraw ==
    /\ Draw
    /\ Len(drawStream) < MaxPending
    /\ drawStream' = Append(drawStream,
           [frame |-> renderFrame, picture |-> drawn + 1, after |-> drawAfter])
    /\ drawAfter' = 0
    /\ UNCHANGED <<showStream, renderFence, presentFence, gpuDraw, gpuShow, texture>>

\* Mutant of FenceAndPush: the fence is made after the next draw command.
FenceTooLate ==
    /\ PushRenderedFrame
    /\ renderFence' = [renderFence EXCEPT ![renderFrame] = Len(drawStream) + 1]
    /\ UNCHANGED <<drawStream, showStream, presentFence, drawAfter, gpuDraw, gpuShow, texture>>

\* A fence after everything drawn so far, then the frame is handed over.
FenceAndPush ==
    /\ PushRenderedFrame
    /\ renderFence' = [renderFence EXCEPT ![renderFrame] = Len(drawStream)]
    /\ UNCHANGED <<drawStream, showStream, presentFence, drawAfter, gpuDraw, gpuShow, texture>>

DiscardOrEnd == (DiscardRenderedFrame \/ EndRunFrame) /\ UNCHANGED gpuVars

-----------------------------------------------------------------------------
(* The render thread.                                                      *)

BeginPresent ==
    /\ GetPresentFrame \/ FrameReady \/ GetPreviousFrame
    /\ presentFence' = IF presentFrame' = NoFrame THEN presentFence
                       ELSE [presentFence EXCEPT ![presentFrame'] = 0]
    /\ UNCHANGED <<drawStream, showStream, renderFence, drawAfter, gpuDraw, gpuShow, texture>>

\* Mutant of QueueShow: no wait for the drawing.
QueueShowAtOnce ==
    /\ EndPresentFrame
    /\ presentFrame # NoFrame
    /\ Len(showStream) < MaxPending
    /\ showStream' = Append(showStream,
           [frame |-> presentFrame, picture |-> picture[presentFrame], after |-> 0])
    /\ presentFence' = [presentFence EXCEPT ![presentFrame] = Len(showStream) + 1]
    /\ UNCHANGED <<drawStream, renderFence, drawAfter, gpuDraw, gpuShow, texture>>

QueueShow ==
    /\ EndPresentFrame
    /\ presentFrame # NoFrame
    /\ Len(showStream) < MaxPending
    /\ showStream' = Append(showStream,
           [frame |-> presentFrame, picture |-> picture[presentFrame],
            after |-> renderFence[presentFrame]])
    /\ presentFence' = [presentFence EXCEPT ![presentFrame] = Len(showStream) + 1]
    /\ UNCHANGED <<drawStream, renderFence, drawAfter, gpuDraw, gpuShow, texture>>

ShowNothing == EndPresentFrame /\ presentFrame = NoFrame /\ UNCHANGED gpuVars

Wait == WaitForFrame /\ UNCHANGED gpuVars

-----------------------------------------------------------------------------
(* The GPU: the two contexts run side by side, each in order.              *)

Less(n) == IF n = 0 THEN 0 ELSE n - 1

Signal(fence) == [f \in Frames |-> Less(fence[f])]

\* One command of the other context fewer to wait for.
Advance(stream) == [i \in DOMAIN stream |-> [stream[i] EXCEPT !.after = Less(@)]]

GpuBeginDraw ==
    /\ gpuDraw = NoFrame
    /\ drawStream # <<>>
    /\ Head(drawStream).after = 0
    /\ gpuDraw' = Head(drawStream).frame
    /\ UNCHANGED <<vars, drawStream, showStream, renderFence, presentFence, drawAfter, gpuShow, texture>>

GpuEndDraw ==
    /\ gpuDraw # NoFrame
    /\ texture' = [texture EXCEPT ![gpuDraw] = Head(drawStream).picture]
    /\ drawStream' = Tail(drawStream)
    /\ renderFence' = Signal(renderFence)
    /\ showStream' = Advance(showStream)
    /\ gpuDraw' = NoFrame
    /\ UNCHANGED <<vars, presentFence, drawAfter, gpuShow>>

GpuBeginShow ==
    /\ gpuShow = NoFrame
    /\ showStream # <<>>
    /\ Head(showStream).after = 0
    /\ gpuShow' = Head(showStream).frame
    /\ UNCHANGED <<vars, drawStream, showStream, renderFence, presentFence, drawAfter, gpuDraw, texture>>

GpuEndShow ==
    /\ gpuShow # NoFrame
    /\ showStream' = Tail(showStream)
    /\ presentFence' = Signal(presentFence)
    /\ drawAfter' = Less(drawAfter)
    /\ drawStream' = Advance(drawStream)
    /\ gpuShow' = NoFrame
    /\ UNCHANGED <<vars, renderFence, gpuDraw, texture>>

-----------------------------------------------------------------------------
EmulatorStep == BeginDraw \/ QueueDraw \/ FenceAndPush \/ DiscardOrEnd
PresenterStep == BeginPresent \/ QueueShow \/ ShowNothing \/ Wait
GpuStep == GpuBeginDraw \/ GpuEndDraw \/ GpuBeginShow \/ GpuEndShow

PipelineNext == EmulatorStep \/ PresenterStep \/ GpuStep

PipelineSpec == PipelineInit /\ [][PipelineNext]_pipelineVars

\* Both threads go on, as in FrameQueue, when the driver lets them; the GPU works
\* on each context as long as it can.
PipelineFairness ==
    /\ WF_pipelineVars(EmulatorStep) /\ WF_pipelineVars(PresenterStep)
    /\ WF_pipelineVars(GpuBeginDraw \/ GpuEndDraw) /\ WF_pipelineVars(GpuBeginShow \/ GpuEndShow)

FairPipelineSpec == PipelineSpec /\ PipelineFairness
-----------------------------------------------------------------------------
\* The GPU never writes a texture it is reading: the picture on the screen is
\* never half of one frame and half of another.
NoTearing == gpuShow # NoFrame => gpuDraw # gpuShow

\* What the GPU puts on the screen is the picture the render thread took from
\* the queue, not the texture's older or newer contents.
ShowsItsPicture == gpuShow # NoFrame => texture[gpuShow] = Head(showStream).picture

\* The two contexts never wait for each other in a circle: with work queued,
\* the GPU can always finish or begin some command.
GpuNeverStuck ==
    drawStream # <<>> \/ showStream # <<>> =>
        \/ gpuDraw # NoFrame \/ gpuShow # NoFrame
        \/ drawStream # <<>> /\ Head(drawStream).after = 0
        \/ showStream # <<>> /\ Head(showStream).after = 0

\* Every picture pushed reaches the GPU's screen, or a newer one does: neither the
\* queue, nor a fence, nor a full context holds the screen up for ever.
PushedIsDisplayed ==
    \A n \in 1..MaxDrawn :
        (pushed = n) ~> (gpuShow # NoFrame /\ Head(showStream).picture >= n)
=============================================================================
