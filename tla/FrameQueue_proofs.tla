------------------------- MODULE FrameQueue_proofs -------------------------
(***************************************************************************)
(* Proofs about FrameQueue and about FramePipeline, for every number of    *)
(* frame buffers from three on and any number of commands waiting in the   *)
(* two contexts.  First the queue: lemmas that turn each action into set   *)
(* algebra, and an inductive invariant that says which frames the two      *)
(* threads hold, how many there are, and which pictures are in them.  Then *)
(* the queue with the GPU: the fences of runFrame and presentFrame order   *)
(* the work on each texture, and never in a circle; what the queue itself  *)
(* keeps is taken from the first part.                                     *)
(***************************************************************************)
EXTENDS FramePipeline, TLAPS

-----------------------------------------------------------------------------
(* Queues: what concatenation and taking off an end do to their elements.  *)

LEMMA ConcatIsUnion ==
    ASSUME NEW S, NEW s \in Seq(S), NEW t \in Seq(S)
    PROVE  /\ s \o t \in Seq(S)
           /\ Len(s \o t) = Len(s) + Len(t)
           /\ InQueue(s \o t) = InQueue(s) \cup InQueue(t)
<1>1. /\ s \o t \in Seq(S)
      /\ Len(s \o t) = Len(s) + Len(t)
      /\ DOMAIN (s \o t) = 1..(Len(s) + Len(t))
      /\ DOMAIN s = 1..Len(s) /\ DOMAIN t = 1..Len(t)
      /\ Len(s) \in Nat /\ Len(t) \in Nat
  OBVIOUS
<1>2. InQueue(s \o t) \subseteq InQueue(s) \cup InQueue(t)
  <2> SUFFICES ASSUME NEW i \in DOMAIN (s \o t)
               PROVE  (s \o t)[i] \in InQueue(s) \cup InQueue(t)
    BY DEF InQueue
  <2>1. CASE i <= Len(s)
    <3>1. i \in DOMAIN s /\ (s \o t)[i] = s[i]
      BY <1>1, <2>1
    <3> QED BY <3>1 DEF InQueue
  <2>2. CASE i > Len(s)
    <3>1. i - Len(s) \in DOMAIN t /\ (s \o t)[i] = t[i - Len(s)]
      BY <1>1, <2>2
    <3> QED BY <3>1 DEF InQueue
  <2> QED BY <1>1, <2>1, <2>2
<1>3. InQueue(s) \subseteq InQueue(s \o t)
  <2> SUFFICES ASSUME NEW i \in DOMAIN s PROVE s[i] \in InQueue(s \o t)
    BY DEF InQueue
  <2>1. i \in DOMAIN (s \o t) /\ (s \o t)[i] = s[i]
    BY <1>1
  <2> QED BY <2>1 DEF InQueue
<1>4. InQueue(t) \subseteq InQueue(s \o t)
  <2> SUFFICES ASSUME NEW i \in DOMAIN t PROVE t[i] \in InQueue(s \o t)
    BY DEF InQueue
  <2>1. i + Len(s) \in DOMAIN (s \o t) /\ (s \o t)[i + Len(s)] = t[i]
    BY <1>1
  <2> QED BY <2>1 DEF InQueue
<1> QED BY <1>1, <1>2, <1>3, <1>4

LEMMA ConcatOfDistinct ==
    ASSUME NEW S, NEW s \in Seq(S), NEW t \in Seq(S),
           ~ Duplicates(s), ~ Duplicates(t), InQueue(s) \cap InQueue(t) = {}
    PROVE  ~ Duplicates(s \o t)
<1> SUFFICES ASSUME NEW i \in 1..(Len(s) + Len(t)), NEW j \in 1..(Len(s) + Len(t)), i < j
             PROVE  (s \o t)[i] # (s \o t)[j]
  <2>1. DOMAIN (s \o t) = 1..(Len(s) + Len(t)) /\ Len(s) \in Nat /\ Len(t) \in Nat
    OBVIOUS
  <2>2. \A i, j \in DOMAIN (s \o t) : i # j => i < j \/ j < i
    BY <2>1
  <2> QED BY <2>1, <2>2 DEF Duplicates
<1>1. Len(s) \in Nat /\ Len(t) \in Nat /\ DOMAIN s = 1..Len(s) /\ DOMAIN t = 1..Len(t)
  OBVIOUS
<1>2. CASE j <= Len(s)
  BY <1>1, <1>2 DEF Duplicates
<1>3. CASE i > Len(s)
  <2>1. /\ i - Len(s) \in DOMAIN t /\ j - Len(s) \in DOMAIN t /\ i - Len(s) # j - Len(s)
        /\ (s \o t)[i] = t[i - Len(s)] /\ (s \o t)[j] = t[j - Len(s)]
    BY <1>1, <1>3
  <2> QED BY <2>1 DEF Duplicates
<1>4. CASE i <= Len(s) /\ j > Len(s)
  <2>1. /\ i \in DOMAIN s /\ j - Len(s) \in DOMAIN t
        /\ (s \o t)[i] = s[i] /\ (s \o t)[j] = t[j - Len(s)]
    BY <1>1, <1>4
  <2>2. s[i] \in InQueue(s) /\ t[j - Len(s)] \in InQueue(t)
    BY <2>1 DEF InQueue
  <2> QED BY <2>1, <2>2
<1> QED BY <1>1, <1>2, <1>3, <1>4

LEMMA ConcatOfThree ==
    ASSUME NEW S, NEW s \in Seq(S), NEW t \in Seq(S), NEW u \in Seq(S),
           ~ Duplicates(s), ~ Duplicates(t), ~ Duplicates(u),
           InQueue(s) \cap InQueue(t) = {},
           (InQueue(s) \cup InQueue(t)) \cap InQueue(u) = {}
    PROVE  /\ s \o t \o u \in Seq(S)
           /\ Len(s \o t \o u) = Len(s) + Len(t) + Len(u)
           /\ InQueue(s \o t \o u) = InQueue(s) \cup InQueue(t) \cup InQueue(u)
           /\ ~ Duplicates(s \o t \o u)
<1> DEFINE st == s \o t
<1>1. st \in Seq(S) /\ Len(st) = Len(s) + Len(t) /\ InQueue(st) = InQueue(s) \cup InQueue(t)
  BY ConcatIsUnion
<1>2. ~ Duplicates(st)
  BY ConcatOfDistinct
<1> HIDE DEF st
<1>3. /\ st \o u \in Seq(S) /\ Len(st \o u) = Len(st) + Len(u)
      /\ InQueue(st \o u) = InQueue(st) \cup InQueue(u)
  BY <1>1, ConcatIsUnion
<1>4. ~ Duplicates(st \o u)
  BY <1>1, <1>2, ConcatOfDistinct
<1> QED BY <1>1, <1>3, <1>4 DEF st

LEMMA SingletonQueue ==
    ASSUME NEW S, NEW e \in S
    PROVE  /\ <<e>> \in Seq(S) /\ Len(<<e>>) = 1
           /\ InQueue(<<e>>) = {e} /\ ~ Duplicates(<<e>>)
<1>1. <<e>> \in Seq(S) /\ Len(<<e>>) = 1 /\ DOMAIN <<e>> = {1} /\ <<e>>[1] = e
  OBVIOUS
<1> QED BY <1>1 DEF InQueue, Duplicates

LEMMA EmptyQueue == InQueue(<<>>) = {} /\ ~ Duplicates(<<>>)
<1>1. DOMAIN <<>> = {}
  OBVIOUS
<1> QED BY <1>1 DEF InQueue, Duplicates

LEMMA HeadAndTail ==
    ASSUME NEW S, NEW s \in Seq(S), s # <<>>, ~ Duplicates(s)
    PROVE  /\ Head(s) \in S /\ Tail(s) \in Seq(S) /\ Len(Tail(s)) = Len(s) - 1
           /\ InQueue(s) = {Head(s)} \cup InQueue(Tail(s))
           /\ Head(s) \notin InQueue(Tail(s))
           /\ ~ Duplicates(Tail(s))
<1>1. /\ Len(s) \in Nat /\ Len(s) > 0 /\ DOMAIN s = 1..Len(s)
      /\ Head(s) = s[1] /\ Head(s) \in S /\ Tail(s) \in Seq(S)
      /\ Len(Tail(s)) = Len(s) - 1 /\ DOMAIN Tail(s) = 1..(Len(s) - 1)
      /\ \A i \in DOMAIN Tail(s) : Tail(s)[i] = s[i + 1]
  OBVIOUS
<1>2. InQueue(s) \subseteq {Head(s)} \cup InQueue(Tail(s))
  <2> SUFFICES ASSUME NEW i \in DOMAIN s PROVE s[i] \in {Head(s)} \cup InQueue(Tail(s))
    BY DEF InQueue
  <2>1. i = 1 \/ (i - 1 \in DOMAIN Tail(s) /\ Tail(s)[i - 1] = s[i])
    BY <1>1
  <2> QED BY <1>1, <2>1 DEF InQueue
<1>3. {Head(s)} \cup InQueue(Tail(s)) \subseteq InQueue(s)
  <2>1. \A i \in DOMAIN Tail(s) : i + 1 \in DOMAIN s
    BY <1>1
  <2> QED BY <1>1, <2>1 DEF InQueue
<1>4. Head(s) \notin InQueue(Tail(s))
  <2> SUFFICES ASSUME NEW i \in DOMAIN Tail(s) PROVE Tail(s)[i] # s[1]
    BY <1>1 DEF InQueue
  <2>1. i + 1 \in DOMAIN s /\ 1 \in DOMAIN s /\ i + 1 # 1
    BY <1>1
  <2> QED BY <1>1, <2>1 DEF Duplicates
<1>5. ~ Duplicates(Tail(s))
  <2> SUFFICES ASSUME NEW i \in DOMAIN Tail(s), NEW j \in DOMAIN Tail(s), i # j
               PROVE  Tail(s)[i] # Tail(s)[j]
    BY DEF Duplicates
  <2>1. i + 1 \in DOMAIN s /\ j + 1 \in DOMAIN s /\ i + 1 # j + 1
    BY <1>1
  <2> QED BY <1>1, <2>1 DEF Duplicates
<1> QED BY <1>1, <1>2, <1>3, <1>4, <1>5

\* What getRenderFrame leaves of presentQueue after pop_back.
Front(s) == SubSeq(s, 1, Len(s) - 1)

LEMMA FrontAndLast ==
    ASSUME NEW S, NEW s \in Seq(S), s # <<>>, ~ Duplicates(s)
    PROVE  /\ s[Len(s)] \in S /\ Front(s) \in Seq(S) /\ Len(Front(s)) = Len(s) - 1
           /\ InQueue(s) = {s[Len(s)]} \cup InQueue(Front(s))
           /\ s[Len(s)] \notin InQueue(Front(s))
           /\ ~ Duplicates(Front(s))
           /\ Len(s) >= 2 => Front(s) # <<>> /\ Head(Front(s)) = Head(s)
<1>1. /\ Len(s) \in Nat /\ Len(s) > 0 /\ DOMAIN s = 1..Len(s)
      /\ s[Len(s)] \in S /\ Front(s) \in Seq(S)
      /\ Len(Front(s)) = Len(s) - 1 /\ DOMAIN Front(s) = 1..(Len(s) - 1)
      /\ \A i \in DOMAIN Front(s) : Front(s)[i] = s[i]
  <2>1. Len(s) \in Nat /\ Len(s) > 0 /\ DOMAIN s = 1..Len(s) /\ \A i \in 1..Len(s) : s[i] \in S
    OBVIOUS
  <2>2. /\ Len(Front(s)) = Len(s) - 1 /\ DOMAIN Front(s) = 1..(Len(s) - 1)
        /\ \A i \in 1..(Len(s) - 1) : Front(s)[i] = s[i]
    BY <2>1 DEF Front
  <2>3. Front(s) \in Seq(S)
    BY <2>1 DEF Front
  <2> QED BY <2>1, <2>2, <2>3
<1>2. InQueue(s) \subseteq {s[Len(s)]} \cup InQueue(Front(s))
  <2> SUFFICES ASSUME NEW i \in DOMAIN s PROVE s[i] \in {s[Len(s)]} \cup InQueue(Front(s))
    BY DEF InQueue
  <2>1. i = Len(s) \/ (i \in DOMAIN Front(s) /\ Front(s)[i] = s[i])
    BY <1>1
  <2> QED BY <2>1 DEF InQueue
<1>3. {s[Len(s)]} \cup InQueue(Front(s)) \subseteq InQueue(s)
  <2>1. Len(s) \in DOMAIN s /\ \A i \in DOMAIN Front(s) : i \in DOMAIN s
    BY <1>1
  <2> QED BY <1>1, <2>1 DEF InQueue
<1>4. s[Len(s)] \notin InQueue(Front(s))
  <2> SUFFICES ASSUME NEW i \in DOMAIN Front(s) PROVE s[i] # s[Len(s)]
    BY <1>1 DEF InQueue
  <2>1. i \in DOMAIN s /\ Len(s) \in DOMAIN s /\ i # Len(s)
    BY <1>1
  <2> QED BY <2>1 DEF Duplicates
<1>5. ~ Duplicates(Front(s))
  <2>1. \A i \in DOMAIN Front(s) : i \in DOMAIN s
    BY <1>1
  <2> QED BY <1>1, <2>1 DEF Duplicates
<1>6. Len(s) >= 2 => Front(s) # <<>> /\ Head(Front(s)) = Head(s)
  BY <1>1
<1> QED BY <1>1, <1>2, <1>3, <1>4, <1>5, <1>6

-----------------------------------------------------------------------------
(* The inductive invariant.                                                *)

Drawing == emulator \in {"drawing", "drawn"}

\* Every buffer is somewhere: with at least three of them, and at most one held
\* by each thread, an idle emulator thread finds one free or two waiting.
FramesCounted ==
    Len(freeQueue) + Len(presentQueue)
        + (IF previousFrame = NoFrame THEN 0 ELSE 1) + (IF Drawing THEN 1 ELSE 0)
        = FRAME_QUEUE_SIZE

FramesHeld ==
    /\ emulator = "idle" <=> renderFrame = NoFrame
    /\ presentFrame \in {NoFrame, previousFrame}

\* The newest picture is the first in line, or on the screen.
PicturesInOrder ==
    /\ pushed <= drawn
    /\ emulator = "drawn" => picture[renderFrame] = drawn /\ pushed < drawn
    /\ presentQueue # <<>> => picture[Head(presentQueue)] = pushed
    /\ presentQueue = <<>> =>
           pushed = IF previousFrame = NoFrame THEN 0 ELSE picture[previousFrame]

IInv == TypeOK /\ FramesConserved /\ FramesCounted /\ FramesHeld /\ PicturesInOrder

-----------------------------------------------------------------------------
(* Each action keeps it.                                                   *)

LEMMA InitEstablishes == Init => IInv
<1> SUFFICES ASSUME Init PROVE IInv
  OBVIOUS
<1> USE DEF Init
<1>1. /\ freeQueue \in Seq(Frames) /\ Len(freeQueue) = FRAME_QUEUE_SIZE
      /\ DOMAIN freeQueue = Frames /\ \A i \in Frames : freeQueue[i] = i
  BY SizeAssumption DEF Frames
<1>2. InQueue(freeQueue) = Frames /\ ~ Duplicates(freeQueue)
  BY <1>1 DEF InQueue, Duplicates
<1>3. NoFrame \notin Frames
  BY SizeAssumption DEF Frames, NoFrame
<1>4. TypeOK
  BY <1>1 DEF TypeOK
<1>5. FramesConserved
  BY <1>2, <1>3, EmptyQueue DEF FramesConserved
<1>6. FramesCounted
  BY <1>1, SizeAssumption DEF FramesCounted, Drawing
<1>7. FramesHeld /\ PicturesInOrder
  BY DEF FramesHeld, PicturesInOrder, NoFrame
<1> QED BY <1>4, <1>5, <1>6, <1>7 DEF IInv

\* The emulator thread finds a frame: at most two are held elsewhere.
LEMMA IdleFindsFrame ==
    ASSUME IInv, emulator = "idle", freeQueue = <<>>
    PROVE  Len(presentQueue) >= 2
<1>1. Len(freeQueue) = 0 /\ Len(presentQueue) \in Nat
  BY DEF IInv, TypeOK
<1> QED BY <1>1, SizeAssumption DEF IInv, FramesCounted, Drawing

LEMMA GetRenderFrameKeeps ==
    ASSUME IInv, GetRenderFrame
    PROVE  IInv'
<1> USE DEF GetRenderFrame, presenterVars
<1>0. /\ NoFrame \notin Frames /\ emulator = "idle" /\ emulator' = "drawing"
      /\ Len(freeQueue) \in Nat /\ Len(presentQueue) \in Nat
  <2>1. NoFrame \notin Frames
    BY SizeAssumption DEF Frames, NoFrame
  <2>2. emulator = "idle" /\ emulator' = "drawing"
    OBVIOUS
  <2>3. Len(freeQueue) \in Nat /\ Len(presentQueue) \in Nat
    BY DEF IInv, TypeOK
  <2> QED BY <2>1, <2>2, <2>3
<1>1. CASE freeQueue # <<>> /\ renderFrame' = Head(freeQueue) /\ freeQueue' = Tail(freeQueue)
           /\ UNCHANGED presentQueue
  <2>1. /\ Head(freeQueue) \in Frames /\ Tail(freeQueue) \in Seq(Frames)
        /\ Len(Tail(freeQueue)) = Len(freeQueue) - 1
        /\ InQueue(freeQueue) = {Head(freeQueue)} \cup InQueue(Tail(freeQueue))
        /\ Head(freeQueue) \notin InQueue(Tail(freeQueue))
        /\ ~ Duplicates(Tail(freeQueue))
    BY <1>1, HeadAndTail DEF IInv, TypeOK, FramesConserved
  <2>2. TypeOK'
    BY <1>1, <2>1 DEF IInv, TypeOK
  <2>3. FramesConserved'
    BY <1>0, <1>1, <2>1 DEF IInv, FramesConserved
  <2>4. FramesCounted'
    <3>1. /\ Len(freeQueue') = Len(freeQueue) - 1 /\ Len(presentQueue') = Len(presentQueue)
          /\ ~ Drawing /\ Drawing' /\ previousFrame' = previousFrame
      BY <1>0, <1>1, <2>1 DEF Drawing
    <3> QED BY <1>0, <3>1 DEF IInv, FramesCounted
  <2>5. FramesHeld' /\ PicturesInOrder'
    BY <1>0, <1>1, <2>1 DEF IInv, FramesHeld, PicturesInOrder
  <2> QED BY <2>2, <2>3, <2>4, <2>5 DEF IInv
<1>2. CASE /\ freeQueue = <<>> /\ presentQueue # <<>>
           /\ renderFrame' = presentQueue[Len(presentQueue)]
           /\ presentQueue' = Front(presentQueue)
           /\ UNCHANGED freeQueue
  <2>0. Len(presentQueue) >= 2
    BY <1>0, <1>2, IdleFindsFrame
  <2>1. /\ renderFrame' \in Frames /\ presentQueue' \in Seq(Frames)
        /\ Len(presentQueue') = Len(presentQueue) - 1
        /\ InQueue(presentQueue) = {renderFrame'} \cup InQueue(presentQueue')
        /\ renderFrame' \notin InQueue(presentQueue')
        /\ ~ Duplicates(presentQueue')
        /\ presentQueue' # <<>> /\ Head(presentQueue') = Head(presentQueue)
    BY <1>2, <2>0, FrontAndLast DEF IInv, TypeOK, FramesConserved
  <2>2. TypeOK'
    BY <1>2, <2>1 DEF IInv, TypeOK
  <2>3. FramesConserved'
    BY <1>0, <1>2, <2>1, EmptyQueue DEF IInv, FramesConserved
  <2>4. FramesCounted'
    BY <1>0, <1>2, <2>1 DEF IInv, FramesCounted, Drawing
  <2>5. FramesHeld' /\ PicturesInOrder'
    BY <1>0, <1>2, <2>1 DEF IInv, FramesHeld, PicturesInOrder
  <2> QED BY <2>2, <2>3, <2>4, <2>5 DEF IInv
<1> QED BY <1>1, <1>2 DEF Front

\* Drawing touches one picture, of a frame that is neither on the screen nor
\* waiting for it.
LEMMA DrawKeeps ==
    ASSUME IInv, Draw
    PROVE  IInv' /\ UNCHANGED queues
              /\ \A f \in Frames : f # renderFrame => picture'[f] = picture[f]
<1> USE DEF Draw, presenterVars, queues
<1>0. /\ NoFrame \notin Frames /\ renderFrame \in Frames
      /\ renderFrame \notin InQueue(presentQueue) /\ renderFrame # previousFrame
      /\ picture \in [Frames -> Nat] /\ drawn \in Nat
  BY SizeAssumption DEF Frames, NoFrame, IInv, TypeOK, FramesHeld, FramesConserved
<1>1. /\ picture' \in [Frames -> Nat] /\ picture'[renderFrame] = drawn + 1
      /\ \A f \in Frames : f # renderFrame => picture'[f] = picture[f]
  BY <1>0
<1>2. TypeOK'
  BY <1>0, <1>1 DEF IInv, TypeOK
<1>3. FramesConserved'
  BY DEF IInv, FramesConserved
<1>4. FramesCounted' /\ FramesHeld'
  BY DEF IInv, FramesCounted, FramesHeld, Drawing
<1>5. presentQueue # <<>> => Head(presentQueue) \in Frames /\ Head(presentQueue) \in InQueue(presentQueue)
  BY HeadAndTail DEF IInv, TypeOK, FramesConserved
<1>6. previousFrame \in Frames \cup {NoFrame} /\ pushed \in Nat
  BY DEF IInv, TypeOK
<1>7. PicturesInOrder'
  BY <1>0, <1>1, <1>5, <1>6 DEF IInv, PicturesInOrder
<1> QED BY <1>1, <1>2, <1>3, <1>4, <1>7 DEF IInv

LEMMA PushRenderedFrameKeeps ==
    ASSUME IInv, PushRenderedFrame
    PROVE  IInv' /\ pushed' > pushed
<1> USE DEF PushRenderedFrame, presenterVars
<1>0. /\ NoFrame \notin Frames /\ renderFrame \in Frames /\ presentQueue \in Seq(Frames)
      /\ Len(freeQueue) \in Nat /\ Len(presentQueue) \in Nat /\ drawn \in Nat /\ pushed \in Nat
  BY SizeAssumption DEF Frames, NoFrame, IInv, TypeOK, FramesHeld
<1>1. /\ <<renderFrame>> \in Seq(Frames) /\ Len(<<renderFrame>>) = 1
      /\ InQueue(<<renderFrame>>) = {renderFrame} /\ ~ Duplicates(<<renderFrame>>)
  BY <1>0, SingletonQueue
<1>2. renderFrame \notin InQueue(presentQueue)
  BY DEF IInv, FramesConserved
<1>3. /\ presentQueue' \in Seq(Frames) /\ Len(presentQueue') = 1 + Len(presentQueue)
      /\ InQueue(presentQueue') = {renderFrame} \cup InQueue(presentQueue)
  <2> DEFINE q == <<renderFrame>> \o presentQueue
  <2>1. /\ q \in Seq(Frames)
        /\ Len(q) = Len(<<renderFrame>>) + Len(presentQueue)
        /\ InQueue(q) = InQueue(<<renderFrame>>) \cup InQueue(presentQueue)
    BY <1>0, <1>1, ConcatIsUnion, ZenonT(30)
  <2>2. presentQueue' = q
    OBVIOUS
  <2> QED BY <1>1, <2>1, <2>2
<1>4. ~ Duplicates(presentQueue')
  BY <1>0, <1>1, <1>2, ConcatOfDistinct DEF IInv, FramesConserved
<1>5. presentQueue' # <<>> /\ Head(presentQueue') = renderFrame
  BY <1>0
<1>6. TypeOK'
  BY <1>0, <1>3 DEF IInv, TypeOK
<1>7. FramesConserved'
  BY <1>3, <1>4 DEF IInv, FramesConserved
<1>8. FramesCounted'
  BY <1>0, <1>3 DEF IInv, FramesCounted, Drawing
<1>9. FramesHeld' /\ PicturesInOrder'
  BY <1>0, <1>5 DEF IInv, FramesHeld, PicturesInOrder
<1>10. pushed' > pushed
  BY <1>0 DEF IInv, PicturesInOrder
<1> QED BY <1>6, <1>7, <1>8, <1>9, <1>10 DEF IInv

LEMMA DiscardRenderedFrameKeeps ==
    ASSUME IInv, DiscardRenderedFrame
    PROVE  IInv'
<1> USE DEF DiscardRenderedFrame, presenterVars
<1>0. /\ NoFrame \notin Frames /\ renderFrame \in Frames /\ freeQueue \in Seq(Frames)
      /\ Len(freeQueue) \in Nat /\ Len(presentQueue) \in Nat /\ drawn \in Nat
  BY SizeAssumption DEF Frames, NoFrame, IInv, TypeOK, FramesHeld
<1>1. /\ <<renderFrame>> \in Seq(Frames) /\ Len(<<renderFrame>>) = 1
      /\ InQueue(<<renderFrame>>) = {renderFrame} /\ ~ Duplicates(<<renderFrame>>)
  BY <1>0, SingletonQueue
<1>2. freeQueue' = freeQueue \o <<renderFrame>>
  BY <1>0
<1>3. /\ freeQueue' \in Seq(Frames) /\ Len(freeQueue') = Len(freeQueue) + 1
      /\ InQueue(freeQueue') = InQueue(freeQueue) \cup {renderFrame}
  <2> DEFINE q == freeQueue \o <<renderFrame>>
  <2>1. /\ q \in Seq(Frames)
        /\ Len(q) = Len(freeQueue) + Len(<<renderFrame>>)
        /\ InQueue(q) = InQueue(freeQueue) \cup InQueue(<<renderFrame>>)
    BY <1>0, <1>1, ConcatIsUnion, ZenonT(30)
  <2>2. freeQueue' = q
    BY <1>2
  <2> QED BY <1>1, <2>1, <2>2
<1>4. ~ Duplicates(freeQueue')
  <2>1. /\ ~ Duplicates(freeQueue)
        /\ InQueue(freeQueue) \cap InQueue(<<renderFrame>>) = {}
    BY <1>1 DEF IInv, FramesConserved
  <2>2. ~ Duplicates(freeQueue \o <<renderFrame>>)
    BY <1>0, <1>1, <2>1, ConcatOfDistinct, Zenon
  <2> QED BY <1>2, <2>2, Zenon
<1>5. TypeOK'
  BY <1>3 DEF IInv, TypeOK
<1>6. FramesConserved'
  BY <1>3, <1>4 DEF IInv, FramesConserved
<1>7. FramesCounted'
  <2>1. /\ Len(freeQueue') = Len(freeQueue) + 1 /\ Len(presentQueue') = Len(presentQueue)
        /\ Drawing /\ ~ Drawing' /\ previousFrame' = previousFrame
    BY <1>3 DEF Drawing
  <2> QED BY <1>0, <2>1 DEF IInv, FramesCounted
<1>8. FramesHeld' /\ PicturesInOrder'
  BY <1>0 DEF IInv, FramesHeld, PicturesInOrder
<1> QED BY <1>5, <1>6, <1>7, <1>8 DEF IInv

\* The presenter's step: what was shown, and what waited behind the newest, is
\* free; the newest is on the screen.
LEMMA TakeNewestKeeps ==
    ASSUME IInv, TakeNewest, UNCHANGED <<emulatorVars, picture>>
    PROVE  IInv' /\ previousFrame' \in Frames /\ picture[previousFrame'] = pushed
<1> DEFINE shownBefore == IF previousFrame = NoFrame THEN <<>> ELSE <<previousFrame>>
           older == Tail(presentQueue)
<1>0. /\ NoFrame \notin Frames /\ previousFrame \in Frames \cup {NoFrame}
      /\ freeQueue \in Seq(Frames) /\ presentQueue \in Seq(Frames) /\ presentQueue # <<>>
      /\ Len(freeQueue) \in Nat /\ Len(presentQueue) \in Nat
  BY SizeAssumption DEF Frames, NoFrame, IInv, TypeOK, TakeNewest
<1>1. /\ shownBefore \in Seq(Frames)
      /\ Len(shownBefore) = IF previousFrame = NoFrame THEN 0 ELSE 1
      /\ InQueue(shownBefore) = {previousFrame} \ {NoFrame}
      /\ ~ Duplicates(shownBefore)
  <2>1. CASE previousFrame = NoFrame
    BY <2>1, EmptyQueue
  <2>2. CASE previousFrame # NoFrame
    BY <1>0, <2>2, SingletonQueue
  <2> QED BY <2>1, <2>2
<1>2. /\ Head(presentQueue) \in Frames /\ older \in Seq(Frames)
      /\ Len(older) = Len(presentQueue) - 1
      /\ InQueue(presentQueue) = {Head(presentQueue)} \cup InQueue(older)
      /\ Head(presentQueue) \notin InQueue(older)
      /\ ~ Duplicates(older)
  BY <1>0, HeadAndTail DEF IInv, FramesConserved
<1>3. /\ freeQueue' = freeQueue \o shownBefore \o older
      /\ previousFrame' = Head(presentQueue) /\ presentQueue' = <<>>
      /\ presenter' = "presenting" /\ presentFrame' = Head(presentQueue)
      /\ UNCHANGED <<emulator, renderFrame, drawn, pushed, picture>>
  BY DEF TakeNewest, Return, emulatorVars
<1> HIDE DEF shownBefore, older
<1>4. /\ ~ Duplicates(freeQueue) /\ InQueue(freeQueue) \cap InQueue(shownBefore) = {}
      /\ (InQueue(freeQueue) \cup InQueue(shownBefore)) \cap InQueue(older) = {}
  BY <1>1, <1>2 DEF IInv, FramesConserved
<1>5. /\ freeQueue' \in Seq(Frames)
      /\ Len(freeQueue') = Len(freeQueue) + Len(shownBefore) + Len(older)
      /\ InQueue(freeQueue') = InQueue(freeQueue) \cup InQueue(shownBefore) \cup InQueue(older)
      /\ ~ Duplicates(freeQueue')
  <2> DEFINE q == freeQueue \o shownBefore \o older
  <2>1. /\ q \in Seq(Frames)
        /\ Len(q) = Len(freeQueue) + Len(shownBefore) + Len(older)
        /\ InQueue(q) = InQueue(freeQueue) \cup InQueue(shownBefore) \cup InQueue(older)
        /\ ~ Duplicates(q)
    BY <1>0, <1>1, <1>2, <1>4, ConcatOfThree, Zenon
  <2>2. freeQueue' = q
    BY <1>3
  <2> HIDE DEF q
  <2> QED BY <2>1, <2>2
<1>6. Len(presentQueue') = 0 /\ InQueue(presentQueue') = {} /\ ~ Duplicates(presentQueue')
  BY <1>3, EmptyQueue
<1>7. TypeOK'
  BY <1>2, <1>3, <1>5 DEF IInv, TypeOK
<1>8. FramesConserved'
  BY <1>0, <1>1, <1>2, <1>3, <1>5, <1>6 DEF IInv, FramesConserved
<1>9. FramesCounted'
  <2>1. Len(freeQueue') = Len(freeQueue) + (IF previousFrame = NoFrame THEN 0 ELSE 1)
                          + (Len(presentQueue) - 1)
    BY <1>1, <1>2, <1>5, Zenon
  <2>2. Len(presentQueue') = 0 /\ previousFrame' # NoFrame
    BY <1>0, <1>2, <1>3, <1>6
  <2>3. Drawing' <=> Drawing
    BY <1>3 DEF Drawing
  <2>4. CASE previousFrame = NoFrame
    BY <1>0, <2>1, <2>2, <2>3, <2>4 DEF IInv, FramesCounted
  <2>5. CASE previousFrame # NoFrame
    BY <1>0, <2>1, <2>2, <2>3, <2>5 DEF IInv, FramesCounted
  <2> QED BY <2>4, <2>5
<1>10. FramesHeld' /\ PicturesInOrder'
  BY <1>0, <1>2, <1>3 DEF IInv, FramesHeld, PicturesInOrder
<1>11. previousFrame' \in Frames /\ picture[previousFrame'] = pushed
  BY <1>0, <1>2, <1>3 DEF IInv, PicturesInOrder
<1> QED BY <1>7, <1>8, <1>9, <1>10, <1>11 DEF IInv

\* The steps that move no frame.
LEMMA OthersKeep ==
    ASSUME IInv,
           EndRunFrame \/ GetPreviousFrame \/ WaitForFrame \/ EndPresentFrame \/ UNCHANGED vars
    PROVE  IInv' /\ UNCHANGED <<queues, picture, pushed>>
<1> USE DEF queues, emulatorVars, presenterVars, vars
<1>0. NoFrame \notin Frames
  BY SizeAssumption DEF Frames, NoFrame
<1>1. CASE EndRunFrame
  <2> USE <1>1 DEF EndRunFrame
  <2>1. TypeOK'
    BY DEF IInv, TypeOK
  <2>2. FramesConserved' /\ FramesCounted'
    BY DEF IInv, FramesConserved, FramesCounted, Drawing
  <2>3. FramesHeld' /\ PicturesInOrder'
    BY DEF IInv, FramesHeld, PicturesInOrder
  <2> QED BY <2>1, <2>2, <2>3 DEF IInv
<1>2. CASE GetPreviousFrame \/ WaitForFrame \/ EndPresentFrame \/ UNCHANGED vars
  <2>1. /\ UNCHANGED <<queues, emulatorVars, picture>>
        /\ presenter' \in {"waiting", "presenting", "idle", presenter}
        /\ presentFrame' \in {NoFrame, previousFrame, presentFrame}
    BY <1>2 DEF GetPreviousFrame, WaitForFrame, EndPresentFrame, Return
  <2>2. TypeOK'
    BY <2>1 DEF IInv, TypeOK
  <2>3. FramesConserved' /\ FramesCounted'
    BY <2>1 DEF IInv, FramesConserved, FramesCounted, Drawing
  <2>4. FramesHeld' /\ PicturesInOrder'
    BY <2>1 DEF IInv, FramesHeld, PicturesInOrder
  <2> QED BY <2>1, <2>2, <2>3, <2>4 DEF IInv
<1> QED BY <1>1, <1>2

LEMMA NextKeeps == IInv /\ [Next]_vars => IInv'
<1> SUFFICES ASSUME IInv, [Next]_vars PROVE IInv'
  OBVIOUS
<1>1. CASE GetRenderFrame
  BY <1>1, GetRenderFrameKeeps
<1>2. CASE Draw
  BY <1>2, DrawKeeps
<1>3. CASE PushRenderedFrame
  BY <1>3, PushRenderedFrameKeeps
<1>4. CASE DiscardRenderedFrame
  BY <1>4, DiscardRenderedFrameKeeps
<1>5. CASE GetPresentFrame \/ FrameReady
  BY <1>5, TakeNewestKeeps DEF GetPresentFrame, FrameReady
<1>6. CASE EndRunFrame \/ GetPreviousFrame \/ WaitForFrame \/ EndPresentFrame \/ UNCHANGED vars
  BY <1>6, OthersKeep
<1> QED BY <1>1, <1>2, <1>3, <1>4, <1>5, <1>6 DEF Next, EmulatorNext, PresenterNext

LEMMA InvariantHolds == Spec => []IInv
BY InitEstablishes, NextKeeps, PTL DEF Spec

-----------------------------------------------------------------------------
(* The theorems.                                                           *)

\* Types, and with them that no frame pointer is ever invented: what the queues
\* and the two threads hold are the frames of the array FrameQueue is built from.
THEOREM TypeCorrect == Spec => []TypeOK
<1>1. IInv => TypeOK
  BY DEF IInv
<1> QED BY <1>1, InvariantHolds, PTL

\* getRenderFrame, getPresentFrame, push and discard neither lose nor double a
\* frame, whatever the order the two threads call them in.
THEOREM FramesAreConserved == Spec => []FramesConserved
<1>1. IInv => FramesConserved
  BY DEF IInv
<1> QED BY <1>1, InvariantHolds, PTL

\* runFrame never draws into the frame presentFrame shows.
THEOREM NeverDrawsWhatIsShown == Spec => []NoDrawWhilePresented
<1>1. IInv => NoDrawWhilePresented
  <2> SUFFICES ASSUME IInv, emulator \in {"drawing", "drawn"} PROVE renderFrame # presentFrame
    BY DEF NoDrawWhilePresented
  <2>1. renderFrame # previousFrame /\ presentFrame \in {NoFrame, previousFrame}
    BY DEF IInv, FramesConserved, FramesHeld
  <2>2. renderFrame # NoFrame
    BY DEF IInv, FramesHeld
  <2> QED BY <2>1, <2>2
<1> QED BY <1>1, InvariantHolds, PTL

\* getRenderFrame never pops an empty deque, nor the newest picture, with any
\* number of frames from three on.
THEOREM AlwaysFindsFrame == Spec => []RenderFrameAvailable
<1>1. IInv => RenderFrameAvailable
  BY IdleFindsFrame DEF RenderFrameAvailable
<1> QED BY <1>1, InvariantHolds, PTL

\* The queue implements LatestFrame: the screen only moves forward, and to the
\* newest picture pushed.
THEOREM ImplementsLatestFrame == Spec => ShowsLatest
<1>1. Init => LF!Init
  BY DEF Init, LF!Init
<1>2. IInv /\ [Next]_vars => [LF!Next]_(LF!latestVars)
  <2> SUFFICES ASSUME IInv, [Next]_vars
               PROVE  LF!Next \/ UNCHANGED LF!latestVars
    OBVIOUS
  <2> USE DEF LF!Next, LF!Publish, LF!Show, LF!latestVars
  <2>0. NoFrame \notin Frames /\ previousFrame \in Frames \cup {NoFrame}
    BY SizeAssumption DEF Frames, NoFrame, IInv, TypeOK
  <2>1. CASE GetRenderFrame
    BY <2>1 DEF GetRenderFrame
  <2>2. CASE Draw
    <3>1. /\ UNCHANGED <<pushed, previousFrame>> /\ previousFrame # renderFrame
          /\ \A f \in Frames : f # renderFrame => picture'[f] = picture[f]
      BY <2>2, DrawKeeps DEF Draw, queues, IInv, FramesConserved
    <3> QED BY <2>0, <3>1
  <2>3. CASE PushRenderedFrame
    <3>1. pushed' > pushed /\ IInv' /\ UNCHANGED <<previousFrame, picture>>
      BY <2>3, PushRenderedFrameKeeps DEF PushRenderedFrame
    <3>2. pushed' \in Nat
      BY <3>1 DEF IInv, TypeOK
    <3> QED BY <3>1, <3>2
  <2>4. CASE DiscardRenderedFrame
    BY <2>4 DEF DiscardRenderedFrame
  <2>5. CASE GetPresentFrame \/ FrameReady
    <3>1. /\ previousFrame' \in Frames /\ picture[previousFrame'] = pushed
          /\ UNCHANGED <<pushed, picture>>
      BY <2>5, TakeNewestKeeps DEF GetPresentFrame, FrameReady, emulatorVars
    <3> QED BY <2>0, <3>1
  <2>6. CASE EndRunFrame \/ GetPreviousFrame \/ WaitForFrame \/ EndPresentFrame \/ UNCHANGED vars
    <3>1. UNCHANGED <<previousFrame, picture, pushed>>
      BY <2>6, OthersKeep DEF queues
    <3> QED BY <3>1
  <2> QED BY <2>1, <2>2, <2>3, <2>4, <2>5, <2>6 DEF Next, EmulatorNext, PresenterNext
<1> QED BY <1>1, <1>2, InvariantHolds, PTL DEF Spec, LF!Spec, ShowsLatest

-----------------------------------------------------------------------------
(* The frame queue together with the GPU.                                  *)
-----------------------------------------------------------------------------
(* The inductive invariant, besides what holds of the queue.               *)

\* A wait is for commands that are still in the other context.
Ahead ==
    /\ \A k \in DOMAIN drawStream : drawStream[k].after <= Len(showStream)
    /\ \A i \in DOMAIN showStream : showStream[i].after <= Len(drawStream)
    /\ \A f \in Frames : renderFence[f] <= Len(drawStream) /\ presentFence[f] <= Len(showStream)
    /\ drawAfter <= Len(showStream)

\* A frame's fences cover what is pending for it: its presentations, unless it is
\* being presented again, and its drawing, once it has been pushed.
Fenced ==
    /\ presenter # "presenting" => presentFrame = NoFrame
    /\ \A i \in DOMAIN showStream :
           /\ showStream[i].frame # presentFrame => presentFence[showStream[i].frame] >= i
           /\ emulator = "drawing" /\ showStream[i].frame = renderFrame => drawAfter >= i
    /\ \A k \in DOMAIN drawStream :
           drawStream[k].frame \in InQueue(presentQueue) \cup {previousFrame} =>
               renderFence[drawStream[k].frame] >= k

PicturesKnown ==
    /\ \A j, k \in DOMAIN drawStream : j < k => drawStream[j].picture < drawStream[k].picture
    /\ \A k \in DOMAIN drawStream : drawStream[k].picture <= picture[drawStream[k].frame]
    /\ \A f \in Frames : picture[f] <= drawn
    /\ \A i \in DOMAIN showStream : showStream[i].picture <= drawn

\* Of a drawing and a showing of one frame the one with the later picture waits;
\* no two commands wait for each other.
Separated ==
    \A k \in DOMAIN drawStream, i \in DOMAIN showStream :
        /\ drawStream[k].frame = showStream[i].frame =>
               IF drawStream[k].picture <= showStream[i].picture
               THEN showStream[i].after >= k ELSE drawStream[k].after >= i
        /\ ~ (drawStream[k].after >= i /\ showStream[i].after >= k)

\* Picture p of frame f is still to be drawn, or in its texture and to be
\* overdrawn by newer pictures only.
Available(f, p) ==
    \/ \E k \in DOMAIN drawStream : drawStream[k].frame = f /\ drawStream[k].picture = p
    \/ /\ texture[f] = p
       /\ \A k \in DOMAIN drawStream : drawStream[k].frame = f => drawStream[k].picture > p

PicturesAvailable ==
    /\ \A f \in Frames : Available(f, picture[f])
    /\ \A i \in DOMAIN showStream : Available(showStream[i].frame, showStream[i].picture)

Executing ==
    /\ gpuDraw # NoFrame => /\ drawStream # <<>> /\ gpuDraw = drawStream[1].frame
                            /\ drawStream[1].after = 0
    /\ gpuShow # NoFrame => /\ showStream # <<>> /\ gpuShow = showStream[1].frame
                            /\ showStream[1].after = 0

PInv == /\ IInv /\ PipelineTypeOK /\ Ahead /\ Fenced /\ PicturesKnown /\ Separated
        /\ PicturesAvailable /\ Executing

-----------------------------------------------------------------------------
(* Streams of commands and their fences.                                   *)

LEMMA NoFrameIsNone == NoFrame \notin Frames
BY SizeAssumption DEF Frames, NoFrame

LEMMA FinishedFirst ==
    ASSUME NEW S, NEW s \in Seq(S), s # <<>>
    PROVE  /\ Head(s) = s[1] /\ 1 \in DOMAIN s /\ Len(s) \in Nat \ {0}
           /\ Tail(s) \in Seq(S) /\ Len(Tail(s)) = Len(s) - 1
           /\ \A i \in DOMAIN Tail(s) : i + 1 \in DOMAIN s /\ Tail(s)[i] = s[i + 1] /\ i \in Nat \ {0}
           /\ \A i \in DOMAIN s : i # 1 => i - 1 \in DOMAIN Tail(s) /\ Tail(s)[i - 1] = s[i]
OBVIOUS

LEMMA QueuedLast ==
    ASSUME NEW S, NEW s \in Seq(S), NEW e \in S
    PROVE  /\ Append(s, e) \in Seq(S) /\ Len(Append(s, e)) = Len(s) + 1
           /\ DOMAIN Append(s, e) = DOMAIN s \cup {Len(s) + 1}
           /\ Append(s, e)[Len(s) + 1] = e
           /\ \A i \in DOMAIN s : Append(s, e)[i] = s[i] /\ i # Len(s) + 1 /\ i <= Len(s)
OBVIOUS

LEMMA LessIsNat == ASSUME NEW n \in Nat PROVE Less(n) \in Nat /\ Less(n) <= n /\ (n > 0 => Less(n) = n - 1)
BY DEF Less

LEMMA Advanced ==
    ASSUME NEW s \in Seq(Command)
    PROVE  /\ Advance(s) \in Seq(Command) /\ Len(Advance(s)) = Len(s) /\ DOMAIN Advance(s) = DOMAIN s
           /\ \A i \in DOMAIN s : /\ Advance(s)[i].frame = s[i].frame
                                  /\ Advance(s)[i].picture = s[i].picture
                                  /\ Advance(s)[i].after = Less(s[i].after)
<1>1. Len(s) \in Nat /\ DOMAIN s = 1..Len(s)
  OBVIOUS
<1>2. ASSUME NEW i \in DOMAIN s
      PROVE  /\ [s[i] EXCEPT !.after = Less(@)] \in Command
             /\ [s[i] EXCEPT !.after = Less(@)].frame = s[i].frame
             /\ [s[i] EXCEPT !.after = Less(@)].picture = s[i].picture
             /\ [s[i] EXCEPT !.after = Less(@)].after = Less(s[i].after)
  <2>1. s[i] \in Command
    BY <1>1
  <2>2. s[i].after \in Nat
    BY <2>1 DEF Command
  <2>3. Less(s[i].after) \in Nat
    BY <2>2, LessIsNat
  <2> QED BY <2>1, <2>3 DEF Command
<1>3. Advance(s) = [i \in 1..Len(s) |-> [s[i] EXCEPT !.after = Less(@)]]
  BY <1>1 DEF Advance
<1>4. Advance(s) \in [1..Len(s) -> Command]
  BY <1>1, <1>2, <1>3
<1>5. Advance(s) \in Seq(Command) /\ Len(Advance(s)) = Len(s) /\ DOMAIN Advance(s) = DOMAIN s
  BY <1>1, <1>4
<1> QED BY <1>1, <1>2, <1>3, <1>5

\* What the type invariant says of the parts of the state.
LEMMA Parts ==
    ASSUME PipelineTypeOK
    PROVE  /\ drawStream \in Seq(Command) /\ showStream \in Seq(Command)
           /\ Len(drawStream) \in Nat /\ DOMAIN drawStream = 1..Len(drawStream)
           /\ Len(showStream) \in Nat /\ DOMAIN showStream = 1..Len(showStream)
           /\ \A k \in DOMAIN drawStream : /\ drawStream[k].frame \in Frames
                                           /\ drawStream[k].picture \in Nat
                                           /\ drawStream[k].after \in Nat
           /\ \A i \in DOMAIN showStream : /\ showStream[i].frame \in Frames
                                           /\ showStream[i].picture \in Nat
                                           /\ showStream[i].after \in Nat
           /\ \A f \in Frames : renderFence[f] \in Nat /\ presentFence[f] \in Nat /\ picture[f] \in Nat
           /\ drawAfter \in Nat /\ drawn \in Nat /\ MaxPending \in Nat
<1>1. drawStream \in Seq(Command) /\ showStream \in Seq(Command)
  BY DEF PipelineTypeOK
<1>2. \A k \in DOMAIN drawStream : drawStream[k] \in Command
  BY <1>1
<1>3. \A i \in DOMAIN showStream : showStream[i] \in Command
  BY <1>1
<1>4. \A c \in Command : c.frame \in Frames /\ c.picture \in Nat /\ c.after \in Nat
  BY DEF Command
<1>5. \A f \in Frames : renderFence[f] \in Nat /\ presentFence[f] \in Nat /\ picture[f] \in Nat
  BY PendingAssumption DEF PipelineTypeOK, TypeOK
<1>6. drawAfter \in Nat /\ drawn \in Nat /\ MaxPending \in Nat
  BY PendingAssumption DEF PipelineTypeOK, TypeOK
<1>7. /\ Len(drawStream) \in Nat /\ DOMAIN drawStream = 1..Len(drawStream)
      /\ Len(showStream) \in Nat /\ DOMAIN showStream = 1..Len(showStream)
  BY <1>1
<1> QED BY <1>1, <1>2, <1>3, <1>4, <1>5, <1>6, <1>7

-----------------------------------------------------------------------------
(* Every step of the pipeline is a step of the queue, or leaves it alone.  *)

LEMMA PipelineStepsQueue == [PipelineNext]_pipelineVars => [Next]_vars
BY DEF PipelineNext, EmulatorStep, PresenterStep, GpuStep, pipelineVars,
       BeginDraw, QueueDraw, FenceAndPush, DiscardOrEnd, BeginPresent, QueueShow, ShowNothing, Wait,
       GpuBeginDraw, GpuEndDraw, GpuBeginShow, GpuEndShow, Next, EmulatorNext, PresenterNext

LEMMA PipelineInitEstablishes == PipelineInit => PInv
<1> SUFFICES ASSUME PipelineInit PROVE PInv
  OBVIOUS
<1> USE DEF PipelineInit
<1>1. IInv
  BY InitEstablishes
<1>2. PipelineTypeOK
  BY <1>1, PendingAssumption DEF PipelineTypeOK, IInv
<1>3. DOMAIN drawStream = {} /\ DOMAIN showStream = {} /\ Len(drawStream) = 0 /\ Len(showStream) = 0
  OBVIOUS
<1>4. picture = [f \in Frames |-> 0] /\ drawn = 0 /\ presentFrame = NoFrame
  BY DEF Init
<1>5. Ahead /\ Fenced /\ PicturesKnown /\ Separated /\ Executing
  BY <1>3, <1>4 DEF Ahead, Fenced, PicturesKnown, Separated, Executing
<1>6. PicturesAvailable
  BY <1>3, <1>4 DEF PicturesAvailable, Available
<1> QED BY <1>1, <1>2, <1>5, <1>6 DEF PInv

-----------------------------------------------------------------------------
(* The emulator thread.                                                    *)

\* A frame taken to be drawn: its last presentation is waited for.
LEMMA BeginDrawKeeps == ASSUME PInv, BeginDraw, IInv' PROVE PInv'
<1> DEFINE f == renderFrame'
<1>0. /\ GetRenderFrame /\ renderFence' = [renderFence EXCEPT ![f] = 0] /\ drawAfter' = presentFence[f]
      /\ UNCHANGED <<drawStream, showStream, presentFence, gpuDraw, gpuShow, texture>>
      /\ UNCHANGED <<previousFrame, drawn, presenter, presentFrame, picture>>
      /\ emulator' = "drawing"
  BY DEF BeginDraw, GetRenderFrame, presenterVars
<1>1. f \in Frames /\ f \notin InQueue(presentQueue') \cup {previousFrame} /\ f # presentFrame
  <2>1. f \in Frames \cup {NoFrame} /\ f # NoFrame
    BY <1>0 DEF IInv, TypeOK, FramesHeld
  <2>2. f \notin InQueue(presentQueue') \cup {previousFrame}
    BY <1>0 DEF IInv, FramesConserved
  <2>3. presentFrame \in {NoFrame, previousFrame}
    BY DEF PInv, IInv, FramesHeld
  <2> QED BY <2>1, <2>2, <2>3
<1>2. InQueue(presentQueue') \subseteq InQueue(presentQueue)
  <2>1. CASE presentQueue' = presentQueue
    BY <2>1
  <2>2. CASE presentQueue # <<>> /\ presentQueue' = SubSeq(presentQueue, 1, Len(presentQueue) - 1)
    <3>1. presentQueue \in Seq(Frames) /\ ~ Duplicates(presentQueue)
      BY DEF PInv, IInv, TypeOK, FramesConserved
    <3>2. InQueue(presentQueue) = {presentQueue[Len(presentQueue)]} \cup InQueue(Front(presentQueue))
      BY <2>2, <3>1, FrontAndLast
    <3> QED BY <2>2, <3>2 DEF Front
  <2> QED BY <1>0, <2>1, <2>2 DEF GetRenderFrame
<1> USE Parts DEF PInv
<1> HIDE DEF f
<1>3. renderFence \in [Frames -> 0..MaxPending] /\ presentFence \in [Frames -> 0..MaxPending]
  BY DEF PipelineTypeOK
<1>4. PipelineTypeOK'
  <2>1. 0 \in 0..MaxPending
    BY PendingAssumption
  <2> QED BY <1>0, <1>1, <1>3, <2>1 DEF PipelineTypeOK, IInv
<1>5. Ahead'
  BY <1>0, <1>1, <1>3 DEF Ahead
<1>6. Fenced'
  <2>1. \A i \in DOMAIN showStream :
            /\ showStream[i].frame # presentFrame => presentFence[showStream[i].frame] >= i
            /\ showStream[i].frame = f => drawAfter' >= i
    BY <1>0, <1>1 DEF Fenced
  <2>2. ASSUME NEW k \in DOMAIN drawStream,
               drawStream[k].frame \in InQueue(presentQueue') \cup {previousFrame}
        PROVE  renderFence'[drawStream[k].frame] >= k
    <3>1. drawStream[k].frame # f
      BY <1>1, <2>2
    <3>2. renderFence'[drawStream[k].frame] = renderFence[drawStream[k].frame]
      BY <1>0, <1>3, <3>1
    <3> QED BY <1>2, <2>2, <3>2 DEF Fenced
  <2> QED BY <1>0, <2>1, <2>2 DEF Fenced, f
<1>7. PicturesKnown' /\ Separated' /\ PicturesAvailable' /\ Executing'
  BY <1>0 DEF PicturesKnown, Separated, PicturesAvailable, Available, Executing
<1> QED BY <1>4, <1>5, <1>6, <1>7

\* The drawing is queued behind the wait, with a picture newer than all others.
LEMMA QueueDrawKeeps == ASSUME PInv, QueueDraw, IInv' PROVE PInv'
<1> DEFINE n == Len(drawStream) + 1
           e == [frame |-> renderFrame, picture |-> drawn + 1, after |-> drawAfter]
<1>0. /\ Draw /\ Len(drawStream) < MaxPending /\ drawStream' = Append(drawStream, e) /\ drawAfter' = 0
      /\ UNCHANGED <<showStream, renderFence, presentFence, gpuDraw, gpuShow, texture>>
      /\ UNCHANGED <<presentQueue, previousFrame, renderFrame, presenter, presentFrame>>
      /\ emulator = "drawing" /\ emulator' = "drawn" /\ drawn' = drawn + 1
      /\ picture' = [picture EXCEPT ![renderFrame] = drawn + 1]
  BY DEF QueueDraw, Draw, queues, presenterVars
<1> USE Parts DEF PInv
<1>1. /\ renderFrame \in Frames /\ picture \in [Frames -> Nat]
      /\ renderFrame \notin InQueue(presentQueue) \cup {previousFrame}
  BY <1>0, NoFrameIsNone DEF IInv, TypeOK, FramesConserved, FramesHeld
<1>2. e \in Command /\ e.frame = renderFrame /\ e.picture = drawn + 1 /\ e.after = drawAfter
  BY <1>1 DEF Command
<1> HIDE DEF e
<1>3. /\ drawStream' \in Seq(Command) /\ Len(drawStream') = n
      /\ DOMAIN drawStream' = DOMAIN drawStream \cup {n} /\ drawStream'[n] = e
      /\ \A k \in DOMAIN drawStream : drawStream'[k] = drawStream[k] /\ k # n /\ k <= Len(drawStream)
  BY <1>0, <1>2, QueuedLast
<1> HIDE DEF n
<1>4. n = Len(drawStream) + 1
  BY DEF n
<1>5. PipelineTypeOK'
  BY <1>0, <1>3, <1>4, PendingAssumption DEF PipelineTypeOK, IInv
<1>6. Ahead'
  BY <1>0, <1>2, <1>3, <1>4 DEF Ahead
<1>7. Fenced'
  BY <1>0, <1>1, <1>2, <1>3 DEF Fenced
<1>8. picture'[renderFrame] = drawn + 1 /\ \A g \in Frames : g # renderFrame => picture'[g] = picture[g]
  BY <1>0, <1>1
<1>9. PicturesKnown'
  <2>1. \A k \in DOMAIN drawStream : drawStream[k].picture <= drawn
    BY DEF PicturesKnown
  <2>2. \A j, k \in DOMAIN drawStream' : j < k => drawStream'[j].picture < drawStream'[k].picture
    BY <1>2, <1>3, <1>4, <2>1 DEF PicturesKnown
  <2>3. ASSUME NEW k \in DOMAIN drawStream'
        PROVE  drawStream'[k].picture <= picture'[drawStream'[k].frame]
    <3>1. CASE k = n
      BY <1>2, <1>3, <1>8, <3>1
    <3>2. CASE k \in DOMAIN drawStream
      BY <1>3, <1>8, <2>1, <3>2, SMTT(30) DEF PicturesKnown
    <3> QED BY <1>3, <3>1, <3>2
  <2>4. \A g \in Frames : picture'[g] <= drawn + 1
    BY <1>8 DEF PicturesKnown
  <2>5. \A i \in DOMAIN showStream : showStream[i].picture <= drawn + 1
    BY DEF PicturesKnown
  <2> QED BY <1>0, <2>2, <2>3, <2>4, <2>5 DEF PicturesKnown
<1>10. Separated'
  <2>1. ASSUME NEW i \in DOMAIN showStream
        PROVE  /\ e.frame = showStream[i].frame => e.after >= i
               /\ ~ (e.picture <= showStream[i].picture) /\ ~ (showStream[i].after >= n)
    <3>1. showStream[i].picture <= drawn /\ showStream[i].after <= Len(drawStream)
      BY DEF PicturesKnown, Ahead
    <3>2. e.frame = showStream[i].frame => e.after >= i
      BY <1>0, <1>2 DEF Fenced
    <3> QED BY <1>2, <1>4, <3>1, <3>2
  <2>2. ASSUME NEW k \in DOMAIN drawStream', NEW i \in DOMAIN showStream
        PROVE  /\ drawStream'[k].frame = showStream[i].frame =>
                      IF drawStream'[k].picture <= showStream[i].picture
                      THEN showStream[i].after >= k ELSE drawStream'[k].after >= i
               /\ ~ (drawStream'[k].after >= i /\ showStream[i].after >= k)
    <3>1. CASE k = n
      BY <1>3, <2>1, <3>1
    <3>2. CASE k \in DOMAIN drawStream
      BY <1>3, <3>2 DEF Separated
    <3> QED BY <1>3, <3>1, <3>2
  <2> QED BY <1>0, <2>2 DEF Separated
<1>11. ASSUME NEW g \in Frames, NEW p \in Nat, Available(g, p), p <= drawn
       PROVE  Available(g, p)'
  <2>1. CASE \E k \in DOMAIN drawStream : drawStream[k].frame = g /\ drawStream[k].picture = p
    BY <1>3, <2>1 DEF Available
  <2>2. CASE /\ texture[g] = p
             /\ \A k \in DOMAIN drawStream : drawStream[k].frame = g => drawStream[k].picture > p
    BY <1>0, <1>2, <1>3, <1>11, <2>2 DEF Available
  <2> QED BY <1>11, <2>1, <2>2 DEF Available
<1>12. PicturesAvailable'
  <2>1. ASSUME NEW g \in Frames, NEW p \in Nat, p = picture'[g] PROVE Available(g, p)'
    <3>1. CASE g = renderFrame
      <4>1. n \in DOMAIN drawStream' /\ drawStream'[n].frame = g /\ drawStream'[n].picture = p
        BY <1>2, <1>3, <1>8, <2>1, <3>1
      <4> QED BY <4>1 DEF Available
    <3>2. CASE g # renderFrame
      <4>1. p = picture[g] /\ p <= drawn /\ Available(g, p)
        BY <1>8, <2>1, <3>2 DEF PicturesAvailable, PicturesKnown
      <4> QED BY <1>11, <4>1
    <3> QED BY <3>1, <3>2
  <2>2. ASSUME NEW i \in DOMAIN showStream, NEW g \in Frames, NEW p \in Nat,
               g = showStream[i].frame, p = showStream[i].picture
        PROVE  Available(g, p)'
    <3>1. Available(g, p) /\ p <= drawn
      BY <2>2 DEF PicturesAvailable, PicturesKnown
    <3> QED BY <1>11, <3>1
  <2>3. \A g \in Frames : picture'[g] \in Nat
    BY <1>8
  <2> QED BY <1>0, <2>1, <2>2, <2>3 DEF PicturesAvailable
<1>13. Executing'
  BY <1>0, <1>3 DEF Executing
<1> QED BY <1>5, <1>6, <1>7, <1>9, <1>10, <1>12, <1>13

LEMMA FenceAndPushKeeps == ASSUME PInv, FenceAndPush, IInv' PROVE PInv'
<1>0. /\ emulator' = "handedOver"
      /\ presentQueue' = <<renderFrame>> \o presentQueue
      /\ renderFence' = [renderFence EXCEPT ![renderFrame] = Len(drawStream)]
      /\ UNCHANGED <<drawStream, showStream, presentFence, drawAfter, gpuDraw, gpuShow, texture>>
      /\ UNCHANGED <<previousFrame, renderFrame, drawn, presenter, presentFrame, picture>>
      /\ emulator = "drawn"
  BY DEF FenceAndPush, PushRenderedFrame, presenterVars
<1> USE Parts DEF PInv
<1>1. renderFrame \in Frames /\ presentQueue \in Seq(Frames)
  BY <1>0, NoFrameIsNone DEF IInv, TypeOK, FramesHeld
<1>2. InQueue(presentQueue') = {renderFrame} \cup InQueue(presentQueue)
  <2> DEFINE one == <<renderFrame>>
  <2>1. one \in Seq(Frames) /\ InQueue(one) = {renderFrame} /\ presentQueue' = one \o presentQueue
    BY <1>0, <1>1, SingletonQueue
  <2> HIDE DEF one
  <2>2. InQueue(one \o presentQueue) = InQueue(one) \cup InQueue(presentQueue)
    BY <1>1, <2>1, ConcatIsUnion
  <2> QED BY <2>1, <2>2
<1>3. renderFence \in [Frames -> 0..MaxPending] /\ Len(drawStream) \in 0..MaxPending
  BY DEF PipelineTypeOK
<1>4. PipelineTypeOK'
  BY <1>0, <1>1, <1>3 DEF PipelineTypeOK, IInv
<1>5. Ahead'
  BY <1>0, <1>1, <1>3 DEF Ahead
<1>6. \A k \in DOMAIN drawStream :
          drawStream[k].frame \in InQueue(presentQueue') \cup {previousFrame} =>
              renderFence'[drawStream[k].frame] >= k
  <2> SUFFICES ASSUME NEW k \in DOMAIN drawStream,
                      drawStream[k].frame \in InQueue(presentQueue') \cup {previousFrame}
               PROVE  renderFence'[drawStream[k].frame] >= k
    OBVIOUS
  <2>1. CASE drawStream[k].frame = renderFrame
    BY <1>0, <1>1, <1>3, <2>1
  <2>2. CASE drawStream[k].frame # renderFrame
    <3>1. renderFence'[drawStream[k].frame] = renderFence[drawStream[k].frame]
      BY <1>0, <1>3, <2>2
    <3> QED BY <1>2, <2>2, <3>1 DEF Fenced
  <2> QED BY <2>1, <2>2
<1>7. Fenced'
  BY <1>0, <1>6 DEF Fenced
<1>8. PicturesKnown' /\ Separated' /\ PicturesAvailable' /\ Executing'
  BY <1>0 DEF PicturesKnown, Separated, PicturesAvailable, Available, Executing
<1> QED BY <1>4, <1>5, <1>7, <1>8

\* Steps that touch neither a fence nor a stream, nor the pictures queued.
LEMMA QuietKeeps ==
    ASSUME PInv, DiscardOrEnd \/ ShowNothing \/ Wait \/ UNCHANGED pipelineVars, IInv'
    PROVE  PInv'
<1>0. /\ UNCHANGED <<drawStream, showStream, renderFence, presentFence, drawAfter, gpuDraw, gpuShow, texture>>
      /\ UNCHANGED <<presentQueue, previousFrame, drawn, picture, presentFrame>>
      /\ emulator' = "drawing" => emulator = "drawing" /\ renderFrame' = renderFrame
  BY DEF DiscardOrEnd, DiscardRenderedFrame, EndRunFrame, ShowNothing, EndPresentFrame, Wait, WaitForFrame,
         pipelineVars, vars, gpuVars, queues, emulatorVars, presenterVars
<1>1. presenter' # "presenting" => presentFrame' = NoFrame
  BY DEF PInv, Fenced, DiscardOrEnd, DiscardRenderedFrame, EndRunFrame, ShowNothing, EndPresentFrame, Wait,
         WaitForFrame, pipelineVars, vars, presenterVars
<1> USE DEF PInv
<1>2. PipelineTypeOK' /\ Ahead'
  BY <1>0 DEF PipelineTypeOK, Ahead, IInv
<1>3. Fenced'
  BY <1>0, <1>1 DEF Fenced
<1>4. PicturesKnown' /\ Separated' /\ PicturesAvailable' /\ Executing'
  BY <1>0 DEF PicturesKnown, Separated, PicturesAvailable, Available, Executing
<1> QED BY <1>2, <1>3, <1>4

-----------------------------------------------------------------------------
(* The render thread.                                                      *)

LEMMA BeginPresentKeeps == ASSUME PInv, BeginPresent, IInv' PROVE PInv'
<1>0. /\ UNCHANGED <<drawStream, showStream, renderFence, drawAfter, gpuDraw, gpuShow, texture>>
      /\ UNCHANGED <<emulator, renderFrame, drawn, picture>>
      /\ presenter # "presenting" /\ presenter' = "presenting"
  BY DEF BeginPresent, GetPresentFrame, FrameReady, GetPreviousFrame, TakeNewest, Return, emulatorVars
<1>1. presentFence' = IF presentFrame' = NoFrame THEN presentFence
                      ELSE [presentFence EXCEPT ![presentFrame'] = 0]
  BY DEF BeginPresent
<1>2. InQueue(presentQueue') \cup {previousFrame'} \subseteq InQueue(presentQueue) \cup {previousFrame}
  <2>1. CASE TakeNewest
    <3>1. presentQueue \in Seq(Frames) /\ ~ Duplicates(presentQueue) /\ presentQueue # <<>>
      BY <2>1 DEF PInv, IInv, TypeOK, FramesConserved, TakeNewest
    <3>2. Head(presentQueue) \in InQueue(presentQueue)
      BY <3>1, HeadAndTail
    <3> QED BY <2>1, <3>2, EmptyQueue DEF TakeNewest
  <2>2. CASE UNCHANGED queues
    BY <2>2 DEF queues
  <2> QED BY <2>1, <2>2 DEF BeginPresent, GetPresentFrame, FrameReady, GetPreviousFrame
<1> USE Parts DEF PInv
<1>3. presentFrame = NoFrame /\ presentFrame' \in Frames \cup {NoFrame}
  BY <1>0 DEF Fenced, IInv, TypeOK
<1>4. /\ presentFence \in [Frames -> 0..MaxPending] /\ presentFence' \in [Frames -> 0..MaxPending]
      /\ \A g \in Frames : presentFence'[g] <= presentFence[g]
      /\ \A g \in Frames : g # presentFrame' => presentFence'[g] = presentFence[g]
  <2>1. presentFence \in [Frames -> 0..MaxPending] /\ 0 \in 0..MaxPending
    BY PendingAssumption DEF PipelineTypeOK
  <2>2. CASE presentFrame' = NoFrame
    BY <1>1, <2>1, <2>2
  <2>3. CASE presentFrame' # NoFrame
    BY <1>1, <1>3, <2>1, <2>3
  <2> QED BY <2>2, <2>3
<1>5. PipelineTypeOK'
  BY <1>0, <1>4 DEF PipelineTypeOK, IInv
<1>6. Ahead'
  <2>1. \A g \in Frames : presentFence'[g] <= Len(showStream)
    BY <1>4 DEF Ahead
  <2> QED BY <1>0, <2>1 DEF Ahead
<1>7. Fenced'
  <2>1. \A i \in DOMAIN showStream : presentFence[showStream[i].frame] >= i
    BY <1>3, NoFrameIsNone DEF Fenced
  <2>2. \A i \in DOMAIN showStream :
            showStream[i].frame # presentFrame' => presentFence'[showStream[i].frame] >= i
    BY <1>4, <2>1
  <2>3. \A k \in DOMAIN drawStream :
            drawStream[k].frame \in InQueue(presentQueue') \cup {previousFrame'} =>
                renderFence[drawStream[k].frame] >= k
    BY <1>2 DEF Fenced
  <2> QED BY <1>0, <2>2, <2>3 DEF Fenced
<1>8. PicturesKnown' /\ Separated' /\ PicturesAvailable' /\ Executing'
  BY <1>0 DEF PicturesKnown, Separated, PicturesAvailable, Available, Executing
<1> QED BY <1>5, <1>6, <1>7, <1>8

\* The showing is queued behind the drawing of its picture.
LEMMA QueueShowKeeps == ASSUME PInv, QueueShow, IInv' PROVE PInv'
<1> DEFINE f == presentFrame
           n == Len(showStream) + 1
           e == [frame |-> presentFrame, picture |-> picture[presentFrame],
                 after |-> renderFence[presentFrame]]
<1>0. /\ f # NoFrame /\ Len(showStream) < MaxPending /\ showStream' = Append(showStream, e)
      /\ presentFence' = [presentFence EXCEPT ![f] = n]
      /\ UNCHANGED <<drawStream, renderFence, drawAfter, gpuDraw, gpuShow, texture>>
      /\ UNCHANGED <<presentQueue, previousFrame, emulator, renderFrame, drawn, picture>>
      /\ presenter' = "idle" /\ presentFrame' = NoFrame
  BY DEF QueueShow, EndPresentFrame, queues, emulatorVars
<1> USE Parts DEF PInv
<1>1. f \in Frames /\ f = previousFrame /\ (emulator = "drawing" => f # renderFrame)
  BY <1>0 DEF IInv, TypeOK, FramesConserved, FramesHeld
<1>2. e \in Command /\ e.frame = f /\ e.picture = picture[f] /\ e.after = renderFence[f]
  BY <1>1 DEF Command
<1> HIDE DEF e
<1>3. /\ showStream' \in Seq(Command) /\ Len(showStream') = n
      /\ DOMAIN showStream' = DOMAIN showStream \cup {n} /\ showStream'[n] = e
      /\ \A i \in DOMAIN showStream : showStream'[i] = showStream[i] /\ i # n /\ i <= Len(showStream)
  BY <1>0, <1>2, QueuedLast
<1> HIDE DEF n, f
<1>4. n = Len(showStream) + 1
  BY DEF n
<1>5. presentFence \in [Frames -> 0..MaxPending] /\ n \in 0..MaxPending
  BY <1>0, <1>4 DEF PipelineTypeOK
<1>6. /\ presentFence' \in [Frames -> 0..MaxPending] /\ presentFence'[f] = n
      /\ \A g \in Frames : g # f => presentFence'[g] = presentFence[g]
  BY <1>0, <1>1, <1>5
<1>7. PipelineTypeOK'
  BY <1>0, <1>3, <1>5, <1>6 DEF PipelineTypeOK, IInv
<1>8. Ahead'
  BY <1>0, <1>1, <1>2, <1>3, <1>4, <1>6 DEF Ahead
<1>9. Fenced'
  <2>1. ASSUME NEW i \in DOMAIN showStream'
        PROVE  /\ presentFence'[showStream'[i].frame] >= i
               /\ emulator = "drawing" /\ showStream'[i].frame = renderFrame => drawAfter >= i
    <3>1. CASE i = n
      BY <1>1, <1>2, <1>3, <1>4, <1>6, <3>1
    <3>2. CASE i \in DOMAIN showStream
      <4>1. showStream'[i] = showStream[i] /\ i <= n
        BY <1>3, <1>4, <3>2
      <4>2. CASE showStream[i].frame = f
        BY <1>1, <1>4, <1>6, <3>2, <4>1, <4>2
      <4>3. CASE showStream[i].frame # f
        BY <1>6, <3>2, <4>1, <4>3 DEF Fenced, f
      <4> QED BY <3>2, <4>1, <4>2, <4>3 DEF Fenced
    <3> QED BY <1>3, <3>1, <3>2
  <2> QED BY <1>0, <2>1 DEF Fenced
<1>10. PicturesKnown'
  BY <1>0, <1>1, <1>2, <1>3 DEF PicturesKnown
<1>11. Separated'
  <2>1. ASSUME NEW k \in DOMAIN drawStream
        PROVE  /\ drawStream[k].frame = f => drawStream[k].picture <= e.picture /\ e.after >= k
               /\ ~ (drawStream[k].after >= n)
    <3>1. drawStream[k].after <= Len(showStream)
      BY DEF Ahead
    <3>2. drawStream[k].frame = f => drawStream[k].picture <= e.picture /\ e.after >= k
      BY <1>1, <1>2 DEF PicturesKnown, Fenced
    <3> QED BY <1>4, <3>1, <3>2
  <2> QED BY <1>0, <1>2, <1>3, <2>1 DEF Separated
<1>12. PicturesAvailable'
  <2>1. \A g, p : Available(g, p)' <=> Available(g, p)
    BY <1>0 DEF Available
  <2>2. Available(e.frame, e.picture)
    BY <1>1, <1>2 DEF PicturesAvailable
  <2>3. \A i \in DOMAIN showStream' : Available(showStream'[i].frame, showStream'[i].picture)
    BY <1>3, <2>2 DEF PicturesAvailable
  <2>4. \A g \in Frames : Available(g, picture'[g])
    BY <1>0 DEF PicturesAvailable
  <2> HIDE DEF Available
  <2> QED BY <2>1, <2>3, <2>4 DEF PicturesAvailable
<1>13. Executing'
  BY <1>0, <1>3 DEF Executing
<1> QED BY <1>7, <1>8, <1>9, <1>10, <1>11, <1>12, <1>13

-----------------------------------------------------------------------------
(* The GPU.                                                                *)

LEMMA GpuBeginKeeps == ASSUME PInv, GpuBeginDraw \/ GpuBeginShow, IInv' PROVE PInv'
<1>0. /\ UNCHANGED <<vars, drawStream, showStream, renderFence, presentFence, drawAfter, texture>>
      /\ \/ /\ drawStream # <<>> /\ Head(drawStream).after = 0 /\ gpuDraw' = Head(drawStream).frame
            /\ gpuShow' = gpuShow
         \/ /\ showStream # <<>> /\ Head(showStream).after = 0 /\ gpuShow' = Head(showStream).frame
            /\ gpuDraw' = gpuDraw
  BY DEF GpuBeginDraw, GpuBeginShow
<1> USE Parts DEF PInv
<1>1. /\ drawStream # <<>> => 1 \in DOMAIN drawStream /\ Head(drawStream) = drawStream[1]
      /\ showStream # <<>> => 1 \in DOMAIN showStream /\ Head(showStream) = showStream[1]
  BY FinishedFirst
<1>2. gpuDraw' \in Frames \cup {NoFrame} /\ gpuShow' \in Frames \cup {NoFrame}
  BY <1>0, <1>1 DEF PipelineTypeOK
<1>3. PipelineTypeOK'
  BY <1>0, <1>2 DEF PipelineTypeOK, IInv
<1>4. Executing'
  BY <1>0, <1>1 DEF Executing
<1>5. Ahead' /\ Fenced' /\ PicturesKnown' /\ Separated' /\ PicturesAvailable'
  BY <1>0 DEF Ahead, Fenced, PicturesKnown, Separated, PicturesAvailable, Available,
              vars, queues, emulatorVars, presenterVars
<1> QED BY <1>3, <1>4, <1>5

\* Every command and fence that waits for the drawing context waits for one less.
LEMMA GpuEndDrawKeeps == ASSUME PInv, GpuEndDraw, IInv' PROVE PInv'
<1>0. /\ gpuDraw # NoFrame /\ gpuDraw' = NoFrame
      /\ texture' = [texture EXCEPT ![gpuDraw] = Head(drawStream).picture]
      /\ drawStream' = Tail(drawStream) /\ renderFence' = Signal(renderFence)
      /\ showStream' = Advance(showStream)
      /\ UNCHANGED <<presentQueue, previousFrame, emulator, renderFrame, drawn, picture, presenter, presentFrame>>
      /\ UNCHANGED <<presentFence, drawAfter, gpuShow>>
  BY DEF GpuEndDraw, vars, queues, emulatorVars, presenterVars
<1> USE Parts DEF PInv
<1> DEFINE first == drawStream[1]
<1>1. drawStream # <<>> /\ gpuDraw = first.frame /\ first.after = 0
  BY <1>0 DEF Executing
<1>2. /\ Head(drawStream) = first /\ 1 \in DOMAIN drawStream
      /\ drawStream' \in Seq(Command) /\ Len(drawStream') = Len(drawStream) - 1
      /\ \A k \in DOMAIN drawStream' : /\ k + 1 \in DOMAIN drawStream /\ drawStream'[k] = drawStream[k + 1]
                                       /\ k \in Nat \ {0}
      /\ \A k \in DOMAIN drawStream : k # 1 => k - 1 \in DOMAIN drawStream' /\ drawStream'[k - 1] = drawStream[k]
  BY <1>0, <1>1, FinishedFirst
<1> HIDE DEF first
<1>3. /\ showStream' \in Seq(Command) /\ Len(showStream') = Len(showStream)
      /\ DOMAIN showStream' = DOMAIN showStream
      /\ \A i \in DOMAIN showStream : /\ showStream'[i].frame = showStream[i].frame
                                      /\ showStream'[i].picture = showStream[i].picture
                                      /\ showStream'[i].after = Less(showStream[i].after)
  BY <1>0, Advanced
<1>4. /\ first.frame \in Frames /\ first.picture \in Nat
      /\ \A k \in DOMAIN drawStream : k # 1 => drawStream[k].picture > first.picture
      /\ first.picture <= picture[first.frame]
  BY <1>2 DEF first, PicturesKnown
<1>5. renderFence \in [Frames -> 0..MaxPending] /\ renderFence' = [g \in Frames |-> Less(renderFence[g])]
  BY <1>0 DEF PipelineTypeOK, Signal
<1>6. /\ texture \in [Frames -> Nat] /\ texture'[first.frame] = first.picture
      /\ \A g \in Frames : g # first.frame => texture'[g] = texture[g]
      /\ texture' \in [Frames -> Nat]
  <2>1. texture \in [Frames -> Nat]
    BY DEF PipelineTypeOK
  <2>2. texture' = [texture EXCEPT ![first.frame] = first.picture]
    BY <1>0, <1>1, <1>2
  <2> QED
    <3> HIDE DEF PInv
    <3> QED BY <1>4, <2>1, <2>2
<1>7. PipelineTypeOK'
  <2>1. renderFence' \in [Frames -> 0..MaxPending]
    <3>1. \A g \in Frames : Less(renderFence[g]) \in 0..MaxPending
      BY <1>5, LessIsNat
    <3> QED BY <1>5, <3>1
  <2>2. /\ drawStream' \in Seq(Command) /\ Len(drawStream') <= MaxPending
        /\ showStream' \in Seq(Command) /\ Len(showStream') <= MaxPending
    BY <1>2, <1>3 DEF PipelineTypeOK
  <2>3. TypeOK'
    BY DEF IInv
  <2> QED BY <1>0, <1>6, <2>1, <2>2, <2>3 DEF PipelineTypeOK
<1>8. Ahead'
  <2>1. \A k \in DOMAIN drawStream' : drawStream'[k].after <= Len(showStream')
    BY <1>2, <1>3 DEF Ahead
  <2>2. \A m \in Nat : m <= Len(drawStream) => Less(m) <= Len(drawStream')
    BY <1>2 DEF Less
  <2>3. \A i \in DOMAIN showStream' : showStream'[i].after <= Len(drawStream')
    BY <1>3, <2>2 DEF Ahead
  <2>4. \A g \in Frames : renderFence'[g] <= Len(drawStream')
    BY <1>5, <2>2 DEF Ahead
  <2> QED BY <1>0, <1>3, <2>1, <2>3, <2>4 DEF Ahead
<1>9. Fenced'
  <2>1. ASSUME NEW k \in DOMAIN drawStream',
               drawStream'[k].frame \in InQueue(presentQueue) \cup {previousFrame}
        PROVE  renderFence'[drawStream'[k].frame] >= k
    <3>1. k + 1 \in DOMAIN drawStream /\ drawStream'[k] = drawStream[k + 1] /\ k \in Nat \ {0}
      BY <1>2
    <3>2. renderFence[drawStream[k + 1].frame] >= k + 1
      BY <2>1, <3>1 DEF Fenced
    <3>3. renderFence[drawStream[k + 1].frame] \in Nat /\ drawStream[k + 1].frame \in Frames
      BY <3>1
    <3> QED BY <1>5, <3>1, <3>2, <3>3 DEF Less
  <2> QED BY <1>0, <1>3, <2>1 DEF Fenced
<1>10. PicturesKnown'
  <2>1. \A j, k \in DOMAIN drawStream' : j < k => drawStream'[j].picture < drawStream'[k].picture
    <3> SUFFICES ASSUME NEW j \in DOMAIN drawStream', NEW k \in DOMAIN drawStream', j < k
                 PROVE  drawStream'[j].picture < drawStream'[k].picture
      OBVIOUS
    <3>1. j + 1 \in DOMAIN drawStream /\ k + 1 \in DOMAIN drawStream /\ j + 1 < k + 1
      BY <1>2
    <3> QED BY <1>2, <3>1 DEF PicturesKnown
  <2> QED BY <1>0, <1>2, <1>3, <2>1 DEF PicturesKnown
<1>11. Separated'
  <2> SUFFICES ASSUME NEW k \in DOMAIN drawStream', NEW i \in DOMAIN showStream'
               PROVE  /\ drawStream'[k].frame = showStream'[i].frame =>
                             IF drawStream'[k].picture <= showStream'[i].picture
                             THEN showStream'[i].after >= k ELSE drawStream'[k].after >= i
                      /\ ~ (drawStream'[k].after >= i /\ showStream'[i].after >= k)
    BY DEF Separated
  <2>1. /\ k + 1 \in DOMAIN drawStream /\ drawStream'[k] = drawStream[k + 1] /\ k \in Nat \ {0}
        /\ i \in DOMAIN showStream
    BY <1>2, <1>3
  <2>2. showStream'[i].after >= k <=> showStream[i].after >= k + 1
    <3>1. showStream[i].after \in Nat /\ showStream'[i].after = Less(showStream[i].after)
      BY <1>3, <2>1
    <3> QED BY <2>1, <3>1 DEF Less
  <2>3. /\ drawStream[k + 1].frame = showStream[i].frame =>
               IF drawStream[k + 1].picture <= showStream[i].picture
               THEN showStream[i].after >= k + 1 ELSE drawStream[k + 1].after >= i
        /\ ~ (drawStream[k + 1].after >= i /\ showStream[i].after >= k + 1)
    BY <2>1 DEF Separated
  <2> QED BY <1>3, <2>1, <2>2, <2>3
<1>12. ASSUME NEW g \in Frames, NEW p \in Nat, Available(g, p), g = first.frame => first.picture <= p
       PROVE  Available(g, p)'
  <2>1. CASE \E k \in DOMAIN drawStream : k # 1 /\ drawStream[k].frame = g /\ drawStream[k].picture = p
    BY <1>2, <2>1 DEF Available
  <2>2. CASE g = first.frame /\ first.picture = p
    <3>1. \A k \in DOMAIN drawStream' : drawStream'[k].picture > p
      BY <1>2, <1>4, <2>2
    <3> QED BY <1>6, <2>2, <3>1 DEF Available
  <2>3. CASE /\ texture[g] = p
             /\ \A k \in DOMAIN drawStream : drawStream[k].frame = g => drawStream[k].picture > p
    <3>1. g # first.frame
      BY <1>2, <1>4, <1>12, <2>3 DEF first
    <3> QED BY <1>2, <1>6, <2>3, <3>1 DEF Available
  <2> QED BY <1>12, <2>1, <2>2, <2>3 DEF Available, first
<1>13. PicturesAvailable'
  <2>1. ASSUME NEW g \in Frames, NEW p \in Nat, p = picture[g] PROVE Available(g, p)'
    <3>1. Available(g, p) /\ (g = first.frame => first.picture <= p)
      BY <1>4, <2>1 DEF PicturesAvailable
    <3> QED BY <1>12, <3>1
  <2>2. ASSUME NEW i \in DOMAIN showStream, NEW g \in Frames, NEW p \in Nat,
               g = showStream[i].frame, p = showStream[i].picture
        PROVE  Available(g, p)'
    <3>1. g = first.frame => first.picture <= p
      <4>1. i \in Nat \ {0} /\ ~ (first.after >= i)
        BY <1>1
      <4>2. first.frame = showStream[i].frame =>
                IF first.picture <= showStream[i].picture
                THEN showStream[i].after >= 1 ELSE first.after >= i
        BY <1>2 DEF Separated, first
      <4> QED BY <2>2, <4>1, <4>2
    <3>2. Available(g, p)
      BY <2>2 DEF PicturesAvailable
    <3> QED BY <1>12, <3>1, <3>2
  <2> QED BY <1>0, <1>3, <2>1, <2>2 DEF PicturesAvailable
<1>14. Executing'
  <2>1. gpuShow # NoFrame => /\ showStream' # <<>> /\ gpuShow = showStream'[1].frame
                             /\ showStream'[1].after = 0
    <3> SUFFICES ASSUME gpuShow # NoFrame
                 PROVE  showStream' # <<>> /\ gpuShow = showStream'[1].frame /\ showStream'[1].after = 0
      OBVIOUS
    <3>1. showStream # <<>> /\ gpuShow = showStream[1].frame /\ showStream[1].after = 0
      BY DEF Executing
    <3>2. 1 \in DOMAIN showStream
      BY <3>1
    <3> QED BY <1>3, <3>1, <3>2, SMTT(30) DEF Less
  <2> QED BY <1>0, <2>1 DEF Executing
<1> QED BY <1>7, <1>8, <1>9, <1>10, <1>11, <1>13, <1>14

LEMMA GpuEndShowKeeps == ASSUME PInv, GpuEndShow, IInv' PROVE PInv'
<1>0. /\ gpuShow # NoFrame /\ gpuShow' = NoFrame
      /\ showStream' = Tail(showStream) /\ presentFence' = Signal(presentFence)
      /\ drawStream' = Advance(drawStream) /\ drawAfter' = Less(drawAfter)
      /\ UNCHANGED <<presentQueue, previousFrame, emulator, renderFrame, drawn, picture, presenter, presentFrame>>
      /\ UNCHANGED <<renderFence, gpuDraw, texture>>
  BY DEF GpuEndShow, vars, queues, emulatorVars, presenterVars
<1> USE Parts DEF PInv
<1>1. showStream # <<>>
  BY <1>0 DEF Executing
<1>2. /\ showStream' \in Seq(Command) /\ Len(showStream') = Len(showStream) - 1
      /\ \A i \in DOMAIN showStream' : /\ i + 1 \in DOMAIN showStream /\ showStream'[i] = showStream[i + 1]
                                       /\ i \in Nat \ {0}
  BY <1>0, <1>1, FinishedFirst
<1>3. /\ drawStream' \in Seq(Command) /\ Len(drawStream') = Len(drawStream)
      /\ DOMAIN drawStream' = DOMAIN drawStream
      /\ \A k \in DOMAIN drawStream : /\ drawStream'[k].frame = drawStream[k].frame
                                      /\ drawStream'[k].picture = drawStream[k].picture
                                      /\ drawStream'[k].after = Less(drawStream[k].after)
  BY <1>0, Advanced
<1>5. presentFence \in [Frames -> 0..MaxPending] /\ presentFence' = [g \in Frames |-> Less(presentFence[g])]
  BY <1>0 DEF PipelineTypeOK, Signal
<1>7. PipelineTypeOK'
  <2>1. presentFence' \in [Frames -> 0..MaxPending]
    <3>1. \A g \in Frames : Less(presentFence[g]) \in 0..MaxPending
      BY <1>5, LessIsNat
    <3> QED BY <1>5, <3>1
  <2>2. drawAfter' \in 0..MaxPending
    <3>1. drawAfter \in 0..MaxPending
      BY DEF PipelineTypeOK
    <3> QED BY <1>0, <3>1, LessIsNat
  <2>3. /\ drawStream' \in Seq(Command) /\ Len(drawStream') <= MaxPending
        /\ showStream' \in Seq(Command) /\ Len(showStream') <= MaxPending
    BY <1>2, <1>3 DEF PipelineTypeOK
  <2>4. TypeOK'
    BY DEF IInv
  <2> QED BY <1>0, <2>1, <2>2, <2>3, <2>4 DEF PipelineTypeOK
<1>8. Ahead'
  <2>1. \A i \in DOMAIN showStream' : showStream'[i].after <= Len(drawStream')
    BY <1>2, <1>3 DEF Ahead
  <2>2. \A m \in Nat : m <= Len(showStream) => Less(m) <= Len(showStream')
    <3>1. Len(showStream) > 0
      BY <1>1
    <3> QED BY <1>2, <3>1 DEF Less
  <2>3. \A k \in DOMAIN drawStream' : drawStream'[k].after <= Len(showStream')
    BY <1>3, <2>2 DEF Ahead
  <2>4. \A g \in Frames : presentFence'[g] <= Len(showStream')
    BY <1>5, <2>2 DEF Ahead
  <2>5. drawAfter' <= Len(showStream')
    BY <1>0, <2>2 DEF Ahead
  <2> QED BY <1>0, <1>3, <2>1, <2>3, <2>4, <2>5 DEF Ahead
<1>9. Fenced'
  <2>1. ASSUME NEW i \in DOMAIN showStream'
        PROVE  /\ showStream'[i].frame # presentFrame => presentFence'[showStream'[i].frame] >= i
               /\ emulator = "drawing" /\ showStream'[i].frame = renderFrame => drawAfter' >= i
    <3>1. i + 1 \in DOMAIN showStream /\ showStream'[i] = showStream[i + 1] /\ i \in Nat \ {0}
      BY <1>2
    <3>2. /\ showStream[i + 1].frame # presentFrame => presentFence[showStream[i + 1].frame] >= i + 1
          /\ emulator = "drawing" /\ showStream[i + 1].frame = renderFrame => drawAfter >= i + 1
      BY <3>1 DEF Fenced
    <3>3. \A m \in Nat : m >= i + 1 => Less(m) >= i
      BY <3>1 DEF Less
    <3> DEFINE f == showStream[i + 1].frame
    <3>4. f \in Frames /\ presentFence[f] \in Nat /\ presentFence'[f] = Less(presentFence[f])
      BY <1>5, <3>1
    <3>5. ASSUME f # presentFrame PROVE presentFence'[f] >= i
      BY <3>2, <3>3, <3>4, <3>5
    <3>6. ASSUME emulator = "drawing", f = renderFrame PROVE drawAfter' >= i
      BY <1>0, <3>2, <3>3, <3>6
    <3> QED BY <3>1, <3>5, <3>6
  <2> QED BY <1>0, <1>3, <2>1 DEF Fenced
<1>10. PicturesKnown'
  <2>1. \A i \in DOMAIN showStream' : showStream'[i].picture <= drawn
    BY <1>2 DEF PicturesKnown
  <2>2. /\ \A j, k \in DOMAIN drawStream' : j < k => drawStream'[j].picture < drawStream'[k].picture
        /\ \A k \in DOMAIN drawStream' : drawStream'[k].picture <= picture[drawStream'[k].frame]
    BY <1>3 DEF PicturesKnown
  <2>3. \A g \in Frames : picture[g] <= drawn
    BY DEF PicturesKnown
  <2> QED BY <1>0, <2>1, <2>2, <2>3 DEF PicturesKnown
<1>11. Separated'
  <2> SUFFICES ASSUME NEW k \in DOMAIN drawStream', NEW i \in DOMAIN showStream'
               PROVE  /\ drawStream'[k].frame = showStream'[i].frame =>
                             IF drawStream'[k].picture <= showStream'[i].picture
                             THEN showStream'[i].after >= k ELSE drawStream'[k].after >= i
                      /\ ~ (drawStream'[k].after >= i /\ showStream'[i].after >= k)
    BY DEF Separated
  <2>1. /\ i + 1 \in DOMAIN showStream /\ showStream'[i] = showStream[i + 1] /\ i \in Nat \ {0}
        /\ k \in DOMAIN drawStream
    BY <1>2, <1>3
  <2>2. drawStream'[k].after >= i <=> drawStream[k].after >= i + 1
    <3>1. drawStream[k].after \in Nat /\ drawStream'[k].after = Less(drawStream[k].after)
      BY <1>3, <2>1
    <3> QED BY <2>1, <3>1 DEF Less
  <2>3. /\ drawStream[k].frame = showStream[i + 1].frame =>
               IF drawStream[k].picture <= showStream[i + 1].picture
               THEN showStream[i + 1].after >= k ELSE drawStream[k].after >= i + 1
        /\ ~ (drawStream[k].after >= i + 1 /\ showStream[i + 1].after >= k)
    BY <2>1 DEF Separated
  <2> QED BY <1>3, <2>1, <2>2, <2>3
<1>12. \A g, p : Available(g, p) => Available(g, p)'
  BY <1>0, <1>3 DEF Available
<1>13. PicturesAvailable'
  BY <1>0, <1>2, <1>12 DEF PicturesAvailable
<1>14. Executing'
  <2>1. gpuDraw # NoFrame => /\ drawStream' # <<>> /\ gpuDraw = drawStream'[1].frame
                             /\ drawStream'[1].after = 0
    <3> SUFFICES ASSUME gpuDraw # NoFrame
                 PROVE  drawStream' # <<>> /\ gpuDraw = drawStream'[1].frame /\ drawStream'[1].after = 0
      OBVIOUS
    <3>1. drawStream # <<>> /\ gpuDraw = drawStream[1].frame /\ drawStream[1].after = 0
      BY DEF Executing
    <3>2. 1 \in DOMAIN drawStream
      BY <3>1
    <3> QED BY <1>3, <3>1, <3>2, SMTT(30) DEF Less
  <2> QED BY <1>0, <2>1 DEF Executing
<1> QED BY <1>7, <1>8, <1>9, <1>10, <1>11, <1>13, <1>14

LEMMA PipelineInvariantHolds == PipelineSpec => []PInv
<1>1. PInv /\ [PipelineNext]_pipelineVars => PInv'
  <2> SUFFICES ASSUME PInv, [PipelineNext]_pipelineVars PROVE PInv'
    OBVIOUS
  <2>1. IInv'
    BY PipelineStepsQueue, NextKeeps DEF PInv
  <2> QED BY <2>1, BeginDrawKeeps, QueueDrawKeeps, FenceAndPushKeeps, QuietKeeps, BeginPresentKeeps,
             QueueShowKeeps, GpuBeginKeeps, GpuEndDrawKeeps, GpuEndShowKeeps
          DEF PipelineNext, EmulatorStep, PresenterStep, GpuStep
<1> QED BY <1>1, PipelineInitEstablishes, PTL DEF PipelineSpec

-----------------------------------------------------------------------------
(* The theorems.                                                           *)

\* The two threads use the queue as FrameQueue says, whatever the GPU does: all
\* that is proved of the queue holds in the pipeline.
THEOREM PipelineUsesQueue == PipelineSpec => Spec
<1>1. PipelineInit => Init
  BY DEF PipelineInit
<1> QED BY <1>1, PipelineStepsQueue, PTL DEF PipelineSpec, Spec

\* Types: a context never holds more commands than the driver lets it, and a fence
\* counts commands that are there.
THEOREM PipelineTypeCorrect == PipelineSpec => []PipelineTypeOK
<1>1. PInv => PipelineTypeOK
  BY DEF PInv
<1> QED BY <1>1, PipelineInvariantHolds, PTL

\* The wait on presentFence in runFrame and the one on renderFence in presentFrame
\* keep the GPU from writing a texture while it reads it.
THEOREM NeverTears == PipelineSpec => []NoTearing
<1>1. PInv => NoTearing
  <2> SUFFICES ASSUME PInv, gpuShow # NoFrame, gpuDraw = gpuShow PROVE FALSE
    BY DEF NoTearing
  <2>1. /\ drawStream # <<>> /\ gpuDraw = drawStream[1].frame /\ drawStream[1].after = 0
        /\ showStream # <<>> /\ gpuShow = showStream[1].frame /\ showStream[1].after = 0
    BY DEF PInv, Executing
  <2>2. 1 \in DOMAIN drawStream /\ 1 \in DOMAIN showStream
    BY <2>1, Parts DEF PInv
  <2> QED BY <2>1, <2>2 DEF PInv, Separated
<1> QED BY <1>1, PipelineInvariantHolds, PTL

\* The texture the GPU reads for presentFrame holds the picture that was taken from
\* the queue, neither an older one nor one drawn later.
THEOREM AlwaysShowsItsPicture == PipelineSpec => []ShowsItsPicture
<1>1. PInv => ShowsItsPicture
  <2> SUFFICES ASSUME PInv, gpuShow # NoFrame PROVE texture[gpuShow] = Head(showStream).picture
    BY DEF ShowsItsPicture
  <2>1. showStream # <<>> /\ gpuShow = showStream[1].frame /\ showStream[1].after = 0
    BY DEF PInv, Executing
  <2>2. 1 \in DOMAIN showStream /\ Head(showStream) = showStream[1]
    BY <2>1, Parts, FinishedFirst DEF PInv
  <2>3. ASSUME NEW k \in DOMAIN drawStream, drawStream[k].frame = gpuShow,
               drawStream[k].picture = showStream[1].picture
        PROVE  FALSE
    <3>1. k \in Nat \ {0} /\ drawStream[k].picture \in Nat
      BY Parts DEF PInv
    <3>2. showStream[1].after >= k
      BY <2>1, <2>2, <2>3, <3>1 DEF PInv, Separated
    <3> QED BY <2>1, <3>1, <3>2
  <2>4. Available(gpuShow, showStream[1].picture)
    BY <2>1, <2>2 DEF PInv, PicturesAvailable
  <2> QED BY <2>2, <2>3, <2>4 DEF Available
<1> QED BY <1>1, PipelineInvariantHolds, PTL

\* The two waits never form a circle: the GPU always has something it can do.
THEOREM GpuGoesOn == PipelineSpec => []GpuNeverStuck
<1>1. PInv => GpuNeverStuck
  <2> SUFFICES ASSUME PInv, drawStream # <<>> \/ showStream # <<>>
               PROVE  \/ drawStream # <<>> /\ Head(drawStream).after = 0
                      \/ showStream # <<>> /\ Head(showStream).after = 0
    BY DEF GpuNeverStuck
  <2> USE Parts DEF PInv
  <2>1. /\ drawStream # <<>> => 1 \in DOMAIN drawStream /\ Head(drawStream) = drawStream[1]
        /\ showStream # <<>> => 1 \in DOMAIN showStream /\ Head(showStream) = showStream[1]
    BY FinishedFirst
  <2>2. CASE drawStream = <<>>
    BY <2>1, <2>2 DEF Ahead
  <2>3. CASE showStream = <<>>
    BY <2>1, <2>3 DEF Ahead
  <2>4. CASE drawStream # <<>> /\ showStream # <<>>
    BY <2>1, <2>4 DEF Separated
  <2> QED BY <2>2, <2>3, <2>4
<1> QED BY <1>1, PipelineInvariantHolds, PTL
=============================================================================
