\* The queue, and the GPU behind it.
SPECIFICATION FairPipelineSpec
CONSTANTS
    FRAME_QUEUE_SIZE = 4
    MaxDrawn = 6
    MaxPending = 2
INVARIANTS FramesConserved NoDrawWhilePresented RenderFrameAvailable
INVARIANTS NoTearing ShowsItsPicture GpuNeverStuck
PROPERTIES ShowsLatest PushedIsShown PushedIsDisplayed
