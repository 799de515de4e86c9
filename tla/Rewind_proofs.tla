--------------------------- MODULE Rewind_proofs ---------------------------
(***************************************************************************)
(* Proofs about Rewind, for every set of settings and buffers and every    *)
(* number of frames: the rewind window is ordered, bounded and owns its    *)
(* buffers, and what the rewind screen offers stays what it was, but for   *)
(* the one state that was about to be used again.                          *)
(***************************************************************************)
EXTENDS Rewind, TLAPS

-----------------------------------------------------------------------------
(* Parts of a sequence, and the size of the window.                        *)

LEMMA PartOf ==
    ASSUME NEW S, NEW s \in Seq(S), NEW m \in 1..(Len(s) + 1), NEW n \in (m - 1)..Len(s)
    PROVE  /\ SubSeq(s, m, n) \in Seq(S)
           /\ Len(SubSeq(s, m, n)) = n - m + 1
           /\ \A i \in 1..(n - m + 1) : SubSeq(s, m, n)[i] = s[i + m - 1]
OBVIOUS

\* What is left when the first n elements are taken away.
LEMMA RestOf ==
    ASSUME NEW S, NEW s \in Seq(S), NEW n \in 0..Len(s), NEW rest, rest = SubSeq(s, n + 1, Len(s))
    PROVE  /\ rest \in Seq(S) /\ Len(rest) = Len(s) - n
           /\ \A i \in 1..(Len(s) - n) : rest[i] = s[i + n]
OBVIOUS

LEMMA PushedOn ==
    ASSUME NEW S, NEW s \in Seq(S), NEW x \in S
    PROVE  /\ <<x>> \o s \in Seq(S)
           /\ Len(<<x>> \o s) = Len(s) + 1
           /\ (<<x>> \o s)[1] = x
           /\ \A i \in 2..(Len(s) + 1) : (<<x>> \o s)[i] = s[i - 1]
OBVIOUS

LEMMA QuotientIsNat == ASSUME NEW a \in Nat, NEW b \in Nat \ {0} PROVE a \div b \in Nat
BY Z3

LEMMA SizeIsNat == ASSUME NEW r \in Settings PROVE r.length \div r.interval \in Nat
BY SettingsAssumption, QuotientIsNat DEF Setting

-----------------------------------------------------------------------------
(* The inductive invariant.                                                *)

\* A state is captured only when there is room for one, newer than all the others;
\* the one being written is the newest.
Capturing ==
    /\ emu = "choosing" => /\ rewind.enabled /\ RewindWindowSize # 0
                           /\ \A i \in DOMAIN window : window[i].frame < frame
                           /\ frame > 0
    /\ emu = "capturing" => window # <<>>
    /\ emu = "inFrame" => clock < MaxFrames

\* Frames of the window are frames that were run, and what the screen offers is no
\* newer than the game.
FramesRun ==
    /\ \A i \in DOMAIN window : window[i].frame > 0
    /\ \A i \in DOMAIN screen : screen[i].frame <= frame /\ screen[i].frame > 0
    /\ main = "rewind" => screen # <<>>

\* No operation that deletes a state the screen points into begins while it is open.
Shown ==
    /\ \A i \in DOMAIN screen : screen[i].buffer \in BuffersOf(window)
    /\ screen # Closed => main # "reset"

IInv == TypeOK /\ WindowOrdered /\ WindowBounded /\ BuffersOwned /\ Capturing /\ FramesRun /\ Shown
-----------------------------------------------------------------------------
(* What the operations of RewindManager do to a window that owns its       *)
(* buffers.                                                                *)

Typed(w, mem) == w \in Seq(State) /\ mem \in [Buffers -> Contents \cup {Freed, Unusable}]

\* The buffers of the states that are not between the m-th and the n-th.
Outside(m, n) == {window[i].buffer : i \in DOMAIN window \ (m..n)}

\* Some states are kept and the others deleted.
LEMMA DeletedOnce ==
    ASSUME Typed(window, memory), BuffersOwned,
           NEW m \in 1..(Len(window) + 1), NEW n \in (m - 1)..Len(window),
           window' = SubSeq(window, m, n),
           memory' = [b \in Buffers |-> IF b \in Outside(m, n) THEN Freed ELSE memory[b]]
    PROVE  /\ Typed(window, memory)' /\ BuffersOwned'
           /\ Len(window') = n - m + 1
           /\ \A i \in 1..(n - m + 1) : window'[i] = window[i + m - 1]
<1> DEFINE gone == Outside(m, n)
<1>0. \A k \in 1..(n - m + 1) : k + m - 1 \in 1..Len(window)
  BY DEF Typed
<1>1. /\ window' \in Seq(State) /\ Len(window') = n - m + 1
      /\ \A i \in 1..(n - m + 1) : window'[i] = window[i + m - 1]
  BY PartOf DEF Typed
<1>2. /\ DOMAIN window = 1..Len(window) /\ DOMAIN window' = 1..(n - m + 1)
      /\ Len(window) \in Nat /\ m \in Nat /\ n \in Nat
  BY <1>1 DEF Typed
<1>3. memory' \in [Buffers -> Contents \cup {Freed, Unusable}]
  BY DEF Typed
<1>4. \A i, j \in DOMAIN window' : window'[i].buffer = window'[j].buffer => i = j
  <2> SUFFICES ASSUME NEW i \in DOMAIN window', NEW j \in DOMAIN window',
                      window'[i].buffer = window'[j].buffer
               PROVE  i = j
    OBVIOUS
  <2>1. i + m - 1 \in DOMAIN window /\ j + m - 1 \in DOMAIN window
    BY <1>0, <1>2
  <2>2. i + m - 1 = j + m - 1
    BY <1>1, <1>2, <2>1 DEF BuffersOwned
  <2> QED BY <1>2, <2>2
<1>5. BuffersOf(window) \ gone = BuffersOf(window')
  <2>1. ASSUME NEW i \in DOMAIN window, window[i].buffer \notin gone
        PROVE  window[i].buffer \in BuffersOf(window')
    <3>1. i \in m..n
      BY <2>1 DEF Outside
    <3>2. i - m + 1 \in DOMAIN window' /\ window'[i - m + 1] = window[i]
      BY <1>1, <1>2, <3>1, SMTT(30)
    <3> QED BY <3>2 DEF BuffersOf
  <2>2. ASSUME NEW i \in DOMAIN window'
        PROVE  window'[i].buffer \in BuffersOf(window) \ gone
    <3>1. i + m - 1 \in DOMAIN window /\ i + m - 1 \in m..n
      BY <1>2
    <3>2. window'[i] = window[i + m - 1]
      BY <1>1, <1>2
    <3>3. window[i + m - 1].buffer \notin gone
      BY <3>1 DEF BuffersOwned, Outside
    <3> QED BY <3>1, <3>2, <3>3 DEF BuffersOf
  <2> HIDE DEF gone
  <2>3. BuffersOf(window) \ gone \subseteq BuffersOf(window')
    <3> SUFFICES ASSUME NEW i \in DOMAIN window, window[i].buffer \notin gone
                 PROVE  window[i].buffer \in BuffersOf(window')
      BY DEF BuffersOf
    <3> QED BY <2>1
  <2>4. BuffersOf(window') \subseteq BuffersOf(window) \ gone
    <3> SUFFICES ASSUME NEW i \in DOMAIN window'
                 PROVE  window'[i].buffer \in BuffersOf(window) \ gone
      BY DEF BuffersOf
    <3> QED BY <2>2
  <2> QED BY <2>3, <2>4
<1>6. {b \in Buffers : memory'[b] # Freed} = BuffersOf(window) \ gone
  BY DEF BuffersOwned
<1> QED BY <1>1, <1>3, <1>4, <1>5, <1>6 DEF Typed, BuffersOwned

\* Keep(n): the first n states are kept.
LEMMA KeepDeletesOnce ==
    ASSUME Typed(window, memory), BuffersOwned, NEW n \in 0..Len(window), Keep(n)
    PROVE  /\ Typed(window, memory)' /\ BuffersOwned'
           /\ Len(window') = n
           /\ \A i \in 1..n : window'[i] = window[i]
<1> DEFINE rest == SubSeq(window, n + 1, Len(window))
<1>0. Len(window) \in Nat /\ DOMAIN window = 1..Len(window)
  BY DEF Typed
<1>1. /\ rest \in Seq(State) /\ Len(rest) = Len(window) - n
      /\ \A i \in 1..(Len(window) - n) : rest[i] = window[i + n]
  BY RestOf DEF Typed
<1>4. /\ window' = SubSeq(window, 1, n)
      /\ memory' = [b \in Buffers |-> IF b \in BuffersOf(rest) THEN Freed ELSE memory[b]]
  BY DEF Keep, Delete
<1> HIDE DEF rest
<1>2. BuffersOf(rest) = Outside(1, n)
  <2>1. DOMAIN rest = 1..(Len(window) - n)
    BY <1>1
  <2>2. ASSUME NEW i \in DOMAIN window \ (1..n) PROVE window[i].buffer \in BuffersOf(rest)
    <3>1. i - n \in DOMAIN rest /\ i - n + n = i
      BY <1>0, <2>1
    <3>2. rest[i - n] = window[i]
      BY <1>1, <2>1, <3>1
    <3> QED BY <3>1, <3>2 DEF BuffersOf
  <2>3. ASSUME NEW i \in DOMAIN rest
        PROVE  rest[i].buffer \in {window[j].buffer : j \in DOMAIN window \ (1..n)}
    <3>1. i \in 1..(Len(window) - n) /\ i \in Int /\ n \in Nat
      BY <1>0, <2>1
    <3>2. i + n \in DOMAIN window \ (1..n)
      BY <1>0, <3>1
    <3>3. rest[i] = window[i + n]
      BY <1>1, <3>1
    <3> QED BY <3>2, <3>3
  <2> QED BY <2>2, <2>3 DEF BuffersOf, Outside
<1>5. 1 \in 1..(Len(window) + 1) /\ n \in (1 - 1)..Len(window)
  BY <1>0
<1>6. /\ Typed(window, memory)' /\ BuffersOwned' /\ Len(window') = n - 1 + 1
      /\ \A i \in 1..(n - 1 + 1) : window'[i] = window[i + 1 - 1]
  BY <1>2, <1>4, <1>5, DeletedOnce
<1> QED BY <1>0, <1>6

\* OnRewindFromState: the newest states go, up to the first that is not newer.
LEMMA RewindDeletesOnce ==
    ASSUME Typed(window, memory), BuffersOwned, WindowOrdered,
           NEW f \in Nat, OnRewindFromState(f)
    PROVE  /\ Typed(window, memory)' /\ BuffersOwned'
           /\ \E n \in 0..Len(window) :
                  /\ Len(window') = Len(window) - n
                  /\ \A i \in 1..Len(window') : window'[i] = window[i + n] /\ window[i + n].frame <= f
<1>0. Len(window) \in Nat /\ DOMAIN window = 1..Len(window) /\ window \in Seq(State)
  BY DEF Typed
<1>1. PICK n \in 0..Len(window) :
          /\ NewerThan(f, n)
          /\ window' = SubSeq(window, n + 1, Len(window))
          /\ Delete(SubSeq(window, 1, n))
  BY DEF OnRewindFromState
<1> DEFINE newer == SubSeq(window, 1, n)
<1>2. newer \in Seq(State) /\ Len(newer) = n /\ \A i \in 1..n : newer[i] = window[i]
  BY <1>0, PartOf
<1>3. BuffersOf(newer) = Outside(n + 1, Len(window))
  <2>1. DOMAIN newer = 1..n
    BY <1>2
  <2>2. ASSUME NEW i \in DOMAIN window \ ((n + 1)..Len(window))
        PROVE  window[i].buffer \in BuffersOf(newer)
    <3>1. i \in DOMAIN newer /\ newer[i] = window[i]
      BY <1>0, <1>2, <2>1
    <3> HIDE DEF newer
    <3> QED BY <3>1 DEF BuffersOf
  <2>3. ASSUME NEW i \in DOMAIN newer
        PROVE  newer[i].buffer \in {window[j].buffer : j \in DOMAIN window \ ((n + 1)..Len(window))}
    <3>1. i \in DOMAIN window \ ((n + 1)..Len(window)) /\ newer[i] = window[i]
      BY <1>0, <1>2, <2>1
    <3> HIDE DEF newer
    <3> QED BY <3>1
  <2> HIDE DEF newer
  <2> QED BY <2>2, <2>3 DEF BuffersOf, Outside
<1>4. memory' = [b \in Buffers |-> IF b \in BuffersOf(newer) THEN Freed ELSE memory[b]]
  BY <1>1 DEF Delete
<1>5. /\ Typed(window, memory)' /\ BuffersOwned' /\ Len(window') = Len(window) - n
      /\ \A i \in 1..(Len(window) - n) : window'[i] = window[i + n]
  <2> DEFINE m == n + 1
  <2>1. m \in 1..(Len(window) + 1) /\ Len(window) \in (m - 1)..Len(window)
    BY <1>0
  <2>2. window' = SubSeq(window, m, Len(window))
    BY <1>1
  <2>3. memory' = [b \in Buffers |-> IF b \in Outside(m, Len(window)) THEN Freed ELSE memory[b]]
    BY <1>3, <1>4
  <2>4. m = n + 1
    OBVIOUS
  <2> HIDE DEF newer, m
  <2>5. /\ Typed(window, memory)' /\ BuffersOwned' /\ Len(window') = Len(window) - m + 1
        /\ \A i \in 1..(Len(window) - m + 1) : window'[i] = window[i + m - 1]
    BY <2>1, <2>2, <2>3, DeletedOnce
  <2> QED BY <1>0, <2>4, <2>5
<1>6. \A i \in 1..(Len(window) - n) : window[i + n].frame <= f
  <2> SUFFICES ASSUME NEW i \in 1..(Len(window) - n) PROVE window[i + n].frame <= f
    OBVIOUS
  <2>1. n + 1 \in DOMAIN window /\ i + n \in DOMAIN window /\ n < Len(window)
    BY <1>0
  <2>2. window[n + 1].frame <= f
    BY <1>1, <2>1 DEF NewerThan
  <2>3. window[n + 1].frame \in Nat /\ window[i + n].frame \in Nat
    <3>1. window[n + 1] \in State /\ window[i + n] \in State
      BY <1>0, <2>1
    <3>2. \A x \in State : x.frame \in Nat
      BY BoundsAssumption DEF State
    <3> QED BY <3>1, <3>2
  <2>4. i + n = n + 1 \/ window[n + 1].frame > window[i + n].frame
    BY <1>0, <2>1 DEF WindowOrdered
  <2> QED BY <2>2, <2>3, <2>4
<1> QED BY <1>5, <1>6

\* GetNextRewindSaveState: a state of its own for this frame, at the front.
LEMMA NextOwnsItsBuffer ==
    ASSUME Typed(window, memory), BuffersOwned, frame \in 0..MaxFrames, GetNextRewindSaveState
    PROVE  /\ Typed(window, memory)' /\ BuffersOwned'
           /\ Len(window') = IF Len(window) < RewindWindowSize THEN Len(window) + 1 ELSE Len(window)
           /\ window' # <<>> /\ window'[1].frame = frame
           /\ \A i \in 2..Len(window') : i - 1 \in DOMAIN window /\ window'[i] = window[i - 1]
           /\ BuffersOf(window) \subseteq BuffersOf(window')
<1>0. Len(window) \in Nat /\ DOMAIN window = 1..Len(window) /\ window \in Seq(State)
  BY DEF Typed
<1>1. CASE Len(window) < RewindWindowSize
  <2>1. PICK b \in Buffers :
            /\ memory[b] = Freed
            /\ memory' = [memory EXCEPT ![b] = Unusable]
            /\ window' = <<[frame |-> frame, buffer |-> b]>> \o window
    BY <1>1 DEF GetNextRewindSaveState
  <2>2. [frame |-> frame, buffer |-> b] \in State
    BY DEF State
  <2>3. /\ window' \in Seq(State) /\ Len(window') = Len(window) + 1
        /\ window'[1] = [frame |-> frame, buffer |-> b]
        /\ \A i \in 2..(Len(window) + 1) : window'[i] = window[i - 1]
    BY <1>0, <2>1, <2>2, PushedOn
  <2>4. DOMAIN window' = 1..(Len(window) + 1)
    BY <1>0, <2>3
  <2>5. memory' \in [Buffers -> Contents \cup {Freed, Unusable}]
    BY <2>1 DEF Typed
  <2>6. b \notin BuffersOf(window)
    BY <2>1 DEF BuffersOwned
  <2>7. \A i \in 2..(Len(window) + 1) : i - 1 \in DOMAIN window /\ window'[i].buffer # b
    BY <1>0, <2>3, <2>6 DEF BuffersOf
  <2>8. \A i, j \in DOMAIN window' : window'[i].buffer = window'[j].buffer => i = j
    <3> SUFFICES ASSUME NEW i \in DOMAIN window', NEW j \in DOMAIN window',
                        window'[i].buffer = window'[j].buffer
                 PROVE  i = j
      OBVIOUS
    <3>1. CASE i = 1 \/ j = 1
      BY <2>3, <2>4, <2>7, <3>1
    <3>2. CASE i \in 2..(Len(window) + 1) /\ j \in 2..(Len(window) + 1)
      <4>1. i - 1 = j - 1
        BY <2>3, <2>7, <3>2 DEF BuffersOwned
      <4> QED BY <3>2, <4>1
    <3> QED BY <1>0, <2>4, <3>1, <3>2
  <2>9. BuffersOf(window') = BuffersOf(window) \cup {b}
    <3>1. ASSUME NEW i \in DOMAIN window' PROVE window'[i].buffer \in BuffersOf(window) \cup {b}
      <4>1. CASE i = 1
        BY <2>3, <4>1
      <4>2. CASE i \in 2..(Len(window) + 1)
        BY <2>3, <2>7, <4>2 DEF BuffersOf
      <4> QED BY <1>0, <2>4, <4>1, <4>2
    <3>2. ASSUME NEW i \in DOMAIN window PROVE window[i].buffer \in BuffersOf(window')
      <4>1. i + 1 \in DOMAIN window' /\ window'[i + 1] = window[i]
        BY <1>0, <2>3, <2>4
      <4> QED BY <4>1 DEF BuffersOf
    <3>3. b \in BuffersOf(window')
      <4>1. 1 \in DOMAIN window' /\ window'[1].buffer = b
        BY <1>0, <2>3, <2>4
      <4> QED BY <4>1 DEF BuffersOf
    <3> QED BY <3>1, <3>2, <3>3 DEF BuffersOf
  <2>10. {c \in Buffers : memory'[c] # Freed} = BuffersOf(window) \cup {b}
    BY <2>1 DEF BuffersOwned, Typed, Freed, Unusable
  <2>11. Typed(window, memory)' /\ BuffersOwned'
    BY <2>3, <2>5, <2>8, <2>9, <2>10 DEF Typed, BuffersOwned
  <2> QED BY <1>0, <1>1, <2>3, <2>4, <2>7, <2>9, <2>11
<1>2. CASE ~ (Len(window) < RewindWindowSize)
  <2> DEFINE oldest == [window[Len(window)] EXCEPT !.frame = frame]
             others == SubSeq(window, 1, Len(window) - 1)
  <2>1. window # <<>> /\ window' = <<oldest>> \o others /\ memory' = memory
    BY <1>2 DEF GetNextRewindSaveState
  <2>2. Len(window) >= 1 /\ window[Len(window)] \in State
    BY <1>0, <2>1
  <2>3. oldest \in State /\ oldest.frame = frame /\ oldest.buffer = window[Len(window)].buffer
    BY <2>2 DEF State
  <2>4. /\ others \in Seq(State) /\ Len(others) = Len(window) - 1
        /\ \A i \in 1..(Len(window) - 1) : others[i] = window[i]
    BY <1>0, <2>2, PartOf
  <2> HIDE DEF oldest, others
  <2>5. /\ window' \in Seq(State) /\ Len(window') = Len(window) /\ window'[1] = oldest
        /\ \A i \in 2..Len(window) : window'[i] = window[i - 1]
    <3>1. /\ window' \in Seq(State) /\ Len(window') = Len(others) + 1 /\ window'[1] = oldest
          /\ \A i \in 2..(Len(others) + 1) : window'[i] = others[i - 1]
      BY <2>1, <2>3, <2>4, PushedOn
    <3> QED BY <1>0, <2>4, <3>1
  <2>6. DOMAIN window' = 1..Len(window)
    BY <2>5
  <2> DEFINE was(i) == IF i = 1 THEN Len(window) ELSE i - 1
  <2>7. \A i \in DOMAIN window' : was(i) \in DOMAIN window /\ window'[i].buffer = window[was(i)].buffer
    BY <1>0, <2>2, <2>3, <2>5, <2>6
  <2>8. \A i, j \in DOMAIN window' : was(i) = was(j) => i = j
    BY <1>0, <2>6
  <2>9. \A j \in DOMAIN window : \E i \in DOMAIN window' : was(i) = j
    <3> SUFFICES ASSUME NEW j \in DOMAIN window PROVE \E i \in DOMAIN window' : was(i) = j
      OBVIOUS
    <3>1. CASE j = Len(window)
      <4>1. 1 \in DOMAIN window' /\ was(1) = j
        BY <1>0, <2>2, <2>6, <3>1
      <4> QED BY <4>1
    <3>2. CASE j # Len(window)
      <4>1. j + 1 \in DOMAIN window' /\ was(j + 1) = j
        BY <1>0, <2>6, <3>2
      <4> QED BY <4>1
    <3> QED BY <3>1, <3>2
  <2> HIDE DEF was
  <2>10. \A i, j \in DOMAIN window' : window'[i].buffer = window'[j].buffer => i = j
    BY <2>7, <2>8 DEF BuffersOwned
  <2>11. BuffersOf(window') = BuffersOf(window)
    BY <2>7, <2>9 DEF BuffersOf
  <2>12. Typed(window, memory)' /\ BuffersOwned'
    BY <2>1, <2>5, <2>10, <2>11 DEF Typed, BuffersOwned
  <2>13. \A i \in 2..Len(window) : i - 1 \in DOMAIN window
    BY <1>0
  <2> QED BY <1>0, <1>2, <2>2, <2>3, <2>5, <2>6, <2>11, <2>12, <2>13
<1> QED BY <1>1, <1>2
-----------------------------------------------------------------------------
(* The steps.                                                              *)

LEMMA InitEstablishes == Init => IInv
<1> SUFFICES ASSUME Init PROVE IInv
  OBVIOUS
<1>1. TypeOK
  <2>1. /\ window \in Seq(State) /\ history \in Seq(Contents) /\ Len(history) >= frame
        /\ screen \in Seq(Offer)
    BY DEF Init, Closed
  <2>2. machine \in Contents /\ clock \in 0..MaxFrames /\ frame \in 0..clock
    BY BoundsAssumption DEF Init, Contents
  <2>3. memory \in [Buffers -> Contents \cup {Freed, Unusable}]
    BY DEF Init
  <2> QED BY <2>1, <2>2, <2>3 DEF Init, TypeOK
<1>2. WindowOrdered /\ Capturing /\ FramesRun /\ Shown
  BY DEF Init, WindowOrdered, Capturing, FramesRun, Shown, Closed
<1>3. WindowBounded
  BY SizeIsNat DEF Init, WindowBounded, RewindWindowSize
<1>4. BuffersOwned
  BY DEF Init, BuffersOwned, BuffersOf
<1> QED BY <1>1, <1>2, <1>3, <1>4 DEF IInv

\* Steps that leave the window and its memory, the settings and the screen alone.
LEMMA QuietKeeps ==
    ASSUME IInv, BeginFrame \/ Park \/ Pause \/ Resume \/ AskReset \/ QuickKey
                 \/ SaveState \/ LoadState \/ ResumeAfterJob \/ UNCHANGED vars
    PROVE  IInv'
<1> USE DEF IInv
<1>0. UNCHANGED <<rewind, window, memory, frame, history, clock, screen>>
  BY DEF BeginFrame, Park, Pause, Resume, AskReset, QuickKey, SaveState, LoadState,
         ResumeAfterJob, vars, gameVars, windowVars, uiVars
<1>1. machine' \in Contents
  BY DEF TypeOK, BeginFrame, Park, Pause, Resume, AskReset, QuickKey, SaveState, LoadState,
         LoadBackup, Contents, ResumeAfterJob, vars, gameVars
<1>2. slot' \in Contents \cup {Unusable, Incomplete}
  BY DEF TypeOK, BeginFrame, Park, Pause, Resume, AskReset, QuickKey, SaveState, LoadState,
         ResumeAfterJob, vars
<1>3. /\ emu' \in {emu, "inFrame", "parked"} /\ paused' \in BOOLEAN /\ behind' \in BOOLEAN
      /\ main' \in {main, "reset"} /\ job' \in {job, "none", "save", "load", "done"}
      /\ emu' = "inFrame" => clock < MaxFrames
      /\ main' = main \/ screen = Closed
  BY DEF TypeOK, Capturing, BeginFrame, Park, Pause, Resume, AskReset, QuickKey, SaveState,
         LoadState, ResumeAfterJob, Playing, vars, gameVars, uiVars
<1>4. TypeOK'
  BY <1>0, <1>1, <1>2, <1>3 DEF TypeOK
<1>5. WindowOrdered' /\ BuffersOwned'
  BY <1>0 DEF WindowOrdered, BuffersOwned, BuffersOf
<1>6. WindowBounded'
  BY <1>0 DEF WindowBounded, RewindWindowSize
<1>7. Capturing'
  BY <1>0, <1>3 DEF Capturing, RewindWindowSize
<1>8. FramesRun' /\ Shown'
  BY <1>0, <1>3 DEF FramesRun, Shown, BuffersOf
<1> QED BY <1>4, <1>5, <1>6, <1>7, <1>8

\* The screen closes, or only the chosen state is left of it.
LEMMA ScreenKeeps ==
    ASSUME IInv, CloseScreen \/ \E i \in DOMAIN screen : AskRewind(i)
    PROVE  IInv'
<1> USE DEF IInv
<1>0. UNCHANGED <<gameVars, rewind, windowVars, emu, behind, job, slot>>
  BY DEF CloseScreen, AskRewind, uiVars
<1>1. /\ screen' \in Seq(Offer) /\ paused' \in BOOLEAN /\ main' \in {"idle", "rewind"}
      /\ \A i \in DOMAIN screen' : /\ screen'[i].frame <= frame /\ screen'[i].frame > 0
                                   /\ screen'[i].buffer \in BuffersOf(window)
      /\ main' = "rewind" => screen' # <<>>
  <2>1. CASE CloseScreen
    <3>1. screen' = <<>> /\ main' = "idle" /\ paused' = FALSE
      BY <2>1 DEF CloseScreen, Closed
    <3>2. screen' \in Seq(Offer) /\ DOMAIN screen' = {}
      BY <3>1
    <3>3. \A i \in DOMAIN screen' : /\ screen'[i].frame <= frame /\ screen'[i].frame > 0
                                     /\ screen'[i].buffer \in BuffersOf(window)
      BY <3>2, Zenon
    <3>4. main' # "rewind"
      BY <3>1
    <3> QED BY <3>1, <3>2, <3>3, <3>4, Zenon
  <2>2. CASE \E i \in DOMAIN screen : AskRewind(i)
    <3>1. PICK i \in DOMAIN screen : AskRewind(i)
      BY <2>2
    <3>2. /\ screen[i] \in Offer /\ screen[i].frame <= frame /\ screen[i].frame > 0
          /\ screen[i].buffer \in BuffersOf(window)
      BY DEF TypeOK, FramesRun, Shown
    <3> QED BY <3>1, <3>2 DEF AskRewind
  <2> QED BY <2>1, <2>2
<1>2. TypeOK'
  BY <1>0, <1>1 DEF TypeOK, gameVars, windowVars
<1>3. WindowOrdered' /\ BuffersOwned'
  BY <1>0 DEF WindowOrdered, BuffersOwned, BuffersOf, gameVars, windowVars
<1>4. WindowBounded'
  BY <1>0 DEF WindowBounded, RewindWindowSize, windowVars
<1>5. Capturing'
  BY <1>0 DEF Capturing, RewindWindowSize, gameVars, windowVars
<1>6. FramesRun' /\ Shown'
  BY <1>0, <1>1 DEF FramesRun, Shown, BuffersOf, gameVars, windowVars
<1> QED BY <1>2, <1>3, <1>4, <1>5, <1>6

\* A frame is run: every state of the window is older than it.
LEMMA RunFrameKeeps == ASSUME IInv, RunFrame PROVE IInv'
<1> USE DEF IInv
<1>0. /\ emu = "inFrame" /\ clock < MaxFrames /\ clock' = clock + 1 /\ machine' = clock + 1
      /\ frame' = frame + 1 /\ history' = Append(SubSeq(history, 1, frame), clock + 1)
      /\ emu' = IF ShouldCaptureState(frame + 1) THEN "choosing" ELSE "between"
      /\ UNCHANGED <<rewind, window, memory, paused, main, screen, behind, job, slot>>
  BY DEF RunFrame, Capturing, windowVars, uiVars
<1>1. /\ MaxFrames \in Nat /\ clock \in 0..MaxFrames /\ frame \in 0..clock
      /\ history \in Seq(Contents) /\ Len(history) >= frame
  BY BoundsAssumption DEF TypeOK
<1>2. clock + 1 \in 0..MaxFrames /\ clock + 1 \in Contents /\ frame + 1 \in 0..(clock + 1)
  BY <1>0, <1>1 DEF Contents
<1>3. history' \in Seq(Contents) /\ Len(history') = frame + 1
  <2>1. SubSeq(history, 1, frame) \in Seq(Contents) /\ Len(SubSeq(history, 1, frame)) = frame
    BY <1>1
  <2> QED BY <1>0, <1>1, <1>2, <2>1
<1>4. TypeOK'
  BY <1>0, <1>1, <1>2, <1>3 DEF TypeOK
<1>5. \A i \in DOMAIN window : window[i].frame \in Nat /\ window[i].frame <= frame
  <2>1. \A i \in DOMAIN window : window[i] \in State
    BY DEF TypeOK
  <2> QED BY <1>1, <2>1 DEF State, WindowOrdered
<1>6. WindowOrdered'
  BY <1>0, <1>1, <1>5 DEF WindowOrdered
<1>7. BuffersOwned' /\ WindowBounded'
  BY <1>0 DEF BuffersOwned, BuffersOf, WindowBounded, RewindWindowSize
<1>8. Capturing'
  BY <1>0, <1>1, <1>5 DEF Capturing, ShouldCaptureState, RewindWindowSize
<1>9. FramesRun'
  <2>1. \A i \in DOMAIN screen : screen[i].frame \in Nat
    <3>1. \A i \in DOMAIN screen : screen[i] \in Offer
      BY DEF TypeOK
    <3> QED BY <1>1, <3>1 DEF Offer
  <2> QED BY <1>0, <1>1, <2>1 DEF FramesRun
<1>10. Shown'
  BY <1>0 DEF Shown, BuffersOf
<1> QED BY <1>4, <1>6, <1>7, <1>8, <1>9, <1>10

\* A state for the new frame: in front of older ones, where there is room.
LEMMA ChooseStateKeeps == ASSUME IInv, ChooseState PROVE IInv'
<1> USE DEF IInv
<1>0. /\ emu = "choosing" /\ emu' = "capturing" /\ GetNextRewindSaveState
      /\ UNCHANGED <<machine, clock, frame, history, rewind, paused, main, screen, behind, job, slot>>
  BY DEF ChooseState, gameVars, uiVars
<1>1. Typed(window, memory) /\ frame \in 0..MaxFrames /\ frame > 0 /\ frame \in Nat
  BY <1>0, BoundsAssumption DEF TypeOK, Typed, Capturing
<1>2. /\ Typed(window, memory)' /\ BuffersOwned'
      /\ Len(window') = IF Len(window) < RewindWindowSize THEN Len(window) + 1 ELSE Len(window)
      /\ window' # <<>> /\ window'[1].frame = frame
      /\ \A i \in 2..Len(window') : i - 1 \in DOMAIN window /\ window'[i] = window[i - 1]
      /\ BuffersOf(window) \subseteq BuffersOf(window')
  BY <1>0, <1>1, NextOwnsItsBuffer
<1>3. TypeOK'
  BY <1>0, <1>2 DEF TypeOK, Typed
<1>4. DOMAIN window' = 1..Len(window') /\ Len(window') \in Nat
  BY <1>2 DEF Typed
<1>5. WindowOrdered'
  <2>1. \A i \in DOMAIN window' : i = 1 \/ i \in 2..Len(window')
    BY <1>4
  <2>2. \A i \in DOMAIN window' : window'[i].frame <= frame
    BY <1>1, <1>2, <2>1 DEF WindowOrdered
  <2>3. ASSUME NEW i \in DOMAIN window', NEW j \in DOMAIN window', i < j
        PROVE  window'[i].frame > window'[j].frame
    <3>1. j \in 2..Len(window') /\ j - 1 \in DOMAIN window /\ window'[j] = window[j - 1]
      BY <1>2, <1>4, <2>3
    <3>2. CASE i = 1
      BY <1>0, <1>2, <3>1, <3>2 DEF Capturing
    <3>3. CASE i \in 2..Len(window')
      <4>1. i - 1 \in DOMAIN window /\ window'[i] = window[i - 1] /\ i - 1 < j - 1
        BY <1>2, <1>4, <2>3, <3>3
      <4> QED BY <3>1, <4>1 DEF WindowOrdered
    <3> QED BY <2>1, <3>2, <3>3
  <2> QED BY <1>0, <2>2, <2>3 DEF WindowOrdered
<1>6. WindowBounded'
  <2>1. RewindWindowSize' = RewindWindowSize /\ RewindWindowSize \in Nat
    BY <1>0, SizeIsNat DEF RewindWindowSize, TypeOK
  <2>2. rewind.enabled /\ rewind' = rewind /\ Len(window) \in Nat /\ Len(window) <= RewindWindowSize
    BY <1>0, <1>1 DEF Capturing, WindowBounded, Typed
  <2> QED BY <1>2, <2>1, <2>2 DEF WindowBounded
<1>7. Capturing'
  BY <1>0, <1>2 DEF Capturing
<1>8. FramesRun'
  <2>1. \A i \in DOMAIN window' : window'[i].frame > 0
    <3>1. \A i \in DOMAIN window' : i = 1 \/ i \in 2..Len(window')
      BY <1>4
    <3> QED BY <1>1, <1>2, <3>1 DEF FramesRun
  <2> QED BY <1>0, <2>1 DEF FramesRun
<1>9. Shown'
  BY <1>0, <1>2 DEF Shown
<1> QED BY <1>2, <1>3, <1>5, <1>6, <1>7, <1>8, <1>9

LEMMA SaveRewindStateKeeps == ASSUME IInv, SaveRewindState PROVE IInv'
<1> USE DEF IInv
<1>0. /\ emu' = "between" /\ window # <<>>
      /\ UNCHANGED <<machine, clock, frame, history, rewind, window, paused, main, screen, behind, job, slot>>
  BY DEF SaveRewindState, Capturing, gameVars, uiVars
<1>1. PICK saved \in {machine, Unusable} : memory' = [memory EXCEPT ![Head(window).buffer] = saved]
  BY DEF SaveRewindState
<1>2. saved # Freed /\ saved \in Contents \cup {Freed, Unusable}
  BY BoundsAssumption DEF TypeOK, Contents, Freed, Unusable, Half
<1>3. memory' \in [Buffers -> Contents \cup {Freed, Unusable}]
  BY <1>1, <1>2 DEF TypeOK
<1>4. TypeOK'
  BY <1>0, <1>3 DEF TypeOK
<1>5. WindowOrdered' /\ WindowBounded' /\ Capturing' /\ FramesRun' /\ Shown'
  BY <1>0 DEF WindowOrdered, WindowBounded, RewindWindowSize, Capturing, FramesRun, Shown, BuffersOf
<1>6. {b \in Buffers : memory'[b] # Freed} = {b \in Buffers : memory[b] # Freed}
  <2>1. 1 \in DOMAIN window /\ Head(window) = window[1]
    BY <1>0 DEF TypeOK
  <2>2. Head(window).buffer \in BuffersOf(window)
    BY <2>1 DEF BuffersOf
  <2>3. memory[Head(window).buffer] # Freed
    BY <2>2 DEF BuffersOwned
  <2> QED BY <1>0, <1>1, <1>2, <2>3 DEF TypeOK
<1>7. BuffersOwned'
  BY <1>0, <1>6 DEF BuffersOwned, BuffersOf
<1> QED BY <1>4, <1>5, <1>7

\* The screen opens: what it offers are frames that were run.
LEMMA OpenRewindKeeps == ASSUME IInv, OpenRewind PROVE IInv'
<1> USE DEF IInv
<1>0. /\ main = "idle" /\ paused' = TRUE
      /\ screen' = [i \in DOMAIN window |->
                       [frame |-> window[i].frame, buffer |-> window[i].buffer,
                        contents |-> history[window[i].frame], exposed |-> AboutToReuse(i)]]
      /\ behind' = FALSE
      /\ UNCHANGED <<machine, clock, frame, history, rewind, window, memory, emu, main, job, slot>>
  BY DEF OpenRewind, Playing, gameVars, windowVars
<1>1. window \in Seq(State) /\ DOMAIN window = 1..Len(window) /\ Len(window) \in Nat
  BY DEF TypeOK
<1>2. \A i \in DOMAIN window : /\ screen'[i] \in Offer
                                /\ screen'[i].frame <= frame /\ screen'[i].frame > 0
                                /\ screen'[i].buffer = window[i].buffer
  <2> SUFFICES ASSUME NEW i \in DOMAIN window
               PROVE  /\ screen'[i] \in Offer /\ screen'[i].frame <= frame /\ screen'[i].frame > 0
                      /\ screen'[i].buffer = window[i].buffer
    OBVIOUS
  <2>1. window[i] \in State
    BY <1>1
  <2>2. window[i].frame \in 0..MaxFrames /\ window[i].buffer \in Buffers
    BY <2>1 DEF State
  <2>3. window[i].frame <= frame /\ window[i].frame > 0
    BY DEF WindowOrdered, FramesRun
  <2>4. history[window[i].frame] \in Contents
    <3>1. history \in Seq(Contents) /\ frame <= Len(history) /\ frame \in Nat
      BY BoundsAssumption DEF TypeOK
    <3>2. window[i].frame \in 1..Len(history)
      BY <2>2, <2>3, <3>1, BoundsAssumption
    <3> QED BY <3>1, <3>2
  <2>5. AboutToReuse(i) \in BOOLEAN
    BY DEF AboutToReuse
  <2>6. screen'[i] = [frame |-> window[i].frame, buffer |-> window[i].buffer,
                      contents |-> history[window[i].frame], exposed |-> AboutToReuse(i)]
    BY <1>0
  <2> HIDE DEF AboutToReuse
  <2> QED BY <2>2, <2>3, <2>4, <2>5, <2>6 DEF Offer
<1>3. screen' \in Seq(Offer) /\ DOMAIN screen' = DOMAIN window
  BY <1>0, <1>1, <1>2
<1>4. TypeOK'
  BY <1>0, <1>3 DEF TypeOK
<1>5. WindowOrdered' /\ WindowBounded' /\ BuffersOwned' /\ Capturing'
  BY <1>0 DEF WindowOrdered, WindowBounded, RewindWindowSize, BuffersOwned, BuffersOf, Capturing
<1>6. FramesRun' /\ Shown'
  BY <1>0, <1>2, <1>3 DEF FramesRun, Shown, BuffersOf
<1> QED BY <1>4, <1>5, <1>6
\* Frames and order survive when states are taken off the ends of the window.
LEMMA PartsStayOrdered ==
    ASSUME IInv, window' \in Seq(State), NEW k \in 0..Len(window),
           Len(window') <= Len(window) - k,
           \A i \in 1..Len(window') : window'[i] = window[i + k]
    PROVE  /\ \A i, j \in DOMAIN window' : i < j => window'[i].frame > window'[j].frame
           /\ \A i \in DOMAIN window' : window'[i].frame <= frame /\ window'[i].frame > 0
<1>1. /\ DOMAIN window' = 1..Len(window') /\ Len(window') \in Nat
      /\ DOMAIN window = 1..Len(window) /\ Len(window) \in Nat
  BY DEF IInv, TypeOK
<1>2. \A i \in DOMAIN window' : i + k \in DOMAIN window /\ window'[i] = window[i + k]
  BY <1>1
<1>3. \A i, j \in DOMAIN window' : i < j => i + k < j + k
  BY <1>1
<1> QED BY <1>2, <1>3 DEF IInv, WindowOrdered, FramesRun

\* New settings: the window is emptied, or trimmed to the new size, or was empty.
LEMMA UpdateRewindSettingsKeeps == ASSUME IInv, UpdateRewindSettings PROVE IInv'
<1> USE DEF IInv
<1>0. /\ emu = "parked" /\ rewind' \in Settings /\ screen = <<>>
      /\ UNCHANGED <<machine, clock, frame, history, emu, paused, main, screen, behind, job, slot>>
  BY DEF UpdateRewindSettings, Playing, Closed, Still, gameVars, uiVars
<1>1. Typed(window, memory) /\ Len(window) \in Nat
  BY DEF TypeOK, Typed
<1> DEFINE room == rewind'.length \div rewind'.interval
<1>2. room \in Nat /\ RewindWindowSize' = room
  BY <1>0, SizeIsNat DEF RewindWindowSize
<1>3. /\ Typed(window, memory)' /\ BuffersOwned' /\ Len(window') <= Len(window)
      /\ \A i \in 1..Len(window') : window'[i] = window[i]
      /\ rewind'.enabled => Len(window') <= room
      /\ ~ rewind'.enabled => Len(window') = 0
  <2>1. CASE ~ rewind.enabled
    <3>1. window' = window /\ memory' = memory
      BY <2>1 DEF UpdateRewindSettings, windowVars
    <3>2. Len(window) = 0
      BY <1>1, <2>1 DEF WindowBounded
    <3> HIDE DEF room
    <3> QED BY <1>1, <1>2, <3>1, <3>2 DEF Typed, BuffersOwned, BuffersOf
  <2>2. CASE rewind.enabled /\ ~ rewind'.enabled
    <3>1. Keep(0) /\ 0 \in 0..Len(window)
      BY <1>1, <2>2 DEF UpdateRewindSettings
    <3>2. Typed(window, memory)' /\ BuffersOwned' /\ Len(window') = 0
      BY <1>1, <3>1, KeepDeletesOnce
    <3> QED BY <1>1, <2>2, <3>2
  <2>3. CASE rewind.enabled /\ rewind'.enabled
    <3> DEFINE n == IF Len(window) > room THEN room ELSE Len(window)
    <3>1. Keep(n)
      BY <2>3 DEF UpdateRewindSettings
    <3> HIDE DEF room
    <3>2. n \in 0..Len(window) /\ n <= room
      BY <1>1, <1>2
    <3> HIDE DEF n
    <3>3. /\ Typed(window, memory)' /\ BuffersOwned' /\ Len(window') = n
          /\ \A i \in 1..n : window'[i] = window[i]
      BY <1>1, <3>1, <3>2, KeepDeletesOnce
    <3> QED BY <1>1, <2>3, <3>2, <3>3
  <2> QED BY <2>1, <2>2, <2>3
<1> HIDE DEF room
<1>4. TypeOK'
  BY <1>0, <1>3 DEF TypeOK, Typed
<1>5. /\ \A i, j \in DOMAIN window' : i < j => window'[i].frame > window'[j].frame
      /\ \A i \in DOMAIN window' : window'[i].frame <= frame /\ window'[i].frame > 0
  <2>1. /\ window' \in Seq(State) /\ Len(window') \in Nat /\ 0 \in 0..Len(window)
        /\ Len(window') <= Len(window) - 0
        /\ \A i \in 1..Len(window') : window'[i] = window[i + 0]
    <3>1. Len(window') \in Nat /\ \A i \in 1..Len(window') : i + 0 = i
      BY <1>3 DEF Typed
    <3> QED BY <1>1, <1>3, <3>1 DEF Typed
  <2> QED BY <2>1, PartsStayOrdered
<1>6. WindowOrdered' /\ FramesRun' /\ Capturing' /\ Shown'
  BY <1>0, <1>5 DEF WindowOrdered, FramesRun, Capturing, Shown, Closed
<1>7. WindowBounded'
  BY <1>2, <1>3 DEF WindowBounded
<1> QED BY <1>3, <1>4, <1>6, <1>7

LEMMA ResetKeeps == ASSUME IInv, Reset PROVE IInv'
<1> USE DEF IInv
<1>0. /\ main = "reset" /\ emu = "parked" /\ machine' = 0 /\ Keep(0) /\ screen = <<>>
      /\ main' = "idle" /\ paused' = FALSE
      /\ UNCHANGED <<clock, frame, history, rewind, emu, screen, behind, job, slot>>
  BY DEF Reset, Shown, Closed
<1>1. Typed(window, memory) /\ 0 \in 0..Len(window)
  BY DEF TypeOK, Typed
<1>2. Typed(window, memory)' /\ BuffersOwned' /\ Len(window') = 0
  BY <1>0, <1>1, KeepDeletesOnce
<1>3. DOMAIN window' = {} /\ 0 \in Contents
  BY <1>2, BoundsAssumption DEF Typed, Contents
<1>4. TypeOK'
  BY <1>0, <1>2, <1>3 DEF TypeOK, Typed
<1>5. WindowOrdered' /\ FramesRun' /\ Capturing' /\ Shown'
  BY <1>0, <1>3 DEF WindowOrdered, FramesRun, Capturing, Shown, Closed
<1>6. WindowBounded'
  BY <1>0, <1>2, SizeIsNat DEF WindowBounded, RewindWindowSize, TypeOK
<1> QED BY <1>2, <1>4, <1>5, <1>6

\* The game goes back: the newer states are gone, and the game is as new as the
\* newest of those that are left.
LEMMA RewindToKeeps == ASSUME IInv, RewindTo PROVE IInv'
<1> USE DEF IInv
<1> DEFINE chosen == Head(screen)
<1>0. /\ main = "rewind" /\ emu = "parked" /\ LoadRewindState(chosen)
      /\ main' = "idle" /\ screen' = <<>> /\ paused' = FALSE
      /\ UNCHANGED <<clock, history, rewind, emu, behind, job, slot>>
  BY DEF RewindTo, Closed
<1>1. /\ Typed(window, memory) /\ Len(window) \in Nat /\ clock \in Nat /\ frame \in 0..clock
      /\ Len(history) >= frame /\ history \in Seq(Contents)
  BY BoundsAssumption DEF TypeOK, Typed
<1>2. chosen \in Offer /\ chosen.frame <= frame /\ memory[chosen.buffer] # Freed
  <2>1. 1 \in DOMAIN screen /\ chosen = screen[1] /\ screen[1] \in Offer
    BY <1>0 DEF FramesRun, TypeOK
  <2> HIDE DEF chosen
  <2>2. chosen.buffer \in BuffersOf(window) /\ chosen.buffer \in Buffers
    BY <2>1 DEF Shown, Offer
  <2> QED BY <2>1, <2>2 DEF FramesRun, BuffersOwned
<1>3. CASE machine' \in {machine, Half} /\ UNCHANGED <<frame, windowVars>>
  <2>1. machine' \in Contents /\ UNCHANGED <<frame, window, memory>>
    BY <1>3 DEF windowVars, TypeOK, Contents
  <2> HIDE DEF chosen
  <2>2. TypeOK'
    <3>1. screen' \in Seq(Offer)
      BY <1>0
    <3> QED BY <1>0, <2>1, <3>1 DEF TypeOK
  <2>3. WindowOrdered' /\ WindowBounded' /\ BuffersOwned'
    BY <1>0, <2>1 DEF WindowOrdered, WindowBounded, RewindWindowSize, BuffersOwned, BuffersOf
  <2>4. Capturing' /\ FramesRun' /\ Shown'
    BY <1>0, <2>1 DEF Capturing, FramesRun, Shown, Closed
  <2> QED BY <2>2, <2>3, <2>4
<1>4. CASE /\ memory[chosen.buffer] # Unusable /\ machine' = memory[chosen.buffer]
           /\ frame' = chosen.frame /\ OnRewindFromState(chosen.frame)
  <2>1. machine' = memory[chosen.buffer] /\ frame' = chosen.frame /\ OnRewindFromState(chosen.frame)
    BY <1>4
  <2> HIDE DEF chosen
  <2>2. chosen.buffer \in Buffers /\ chosen.frame \in Nat /\ chosen.frame \in 0..clock
    <3>1. chosen.buffer \in Buffers /\ chosen.frame \in 0..MaxFrames
      BY <1>2 DEF Offer
    <3> QED BY <1>1, <1>2, <3>1, BoundsAssumption
  <2>3. machine' \in Contents
    BY <1>1, <1>2, <1>4, <2>1, <2>2 DEF Typed
  <2>4. /\ Typed(window, memory)' /\ BuffersOwned'
        /\ \E n \in 0..Len(window) :
               /\ Len(window') = Len(window) - n
               /\ \A i \in 1..Len(window') : window'[i] = window[i + n] /\ window[i + n].frame <= chosen.frame
    BY <1>1, <2>1, <2>2, RewindDeletesOnce
  <2>5. PICK n \in 0..Len(window) :
               /\ Len(window') = Len(window) - n
               /\ \A i \in 1..Len(window') : window'[i] = window[i + n] /\ window[i + n].frame <= chosen.frame
    BY <2>4
  <2>6. DOMAIN window' = 1..Len(window') /\ Len(window') \in Nat /\ window' \in Seq(State)
    BY <2>4 DEF Typed
  <2>7. /\ \A i, j \in DOMAIN window' : i < j => window'[i].frame > window'[j].frame
        /\ \A i \in DOMAIN window' : window'[i].frame > 0
    <3>1. Len(window') <= Len(window) - n /\ \A i \in 1..Len(window') : window'[i] = window[i + n]
      BY <1>1, <2>5, <2>6
    <3> QED BY <2>6, <3>1, PartsStayOrdered
  <2>8. \A i \in DOMAIN window' : window'[i].frame <= chosen.frame
    BY <2>5, <2>6
  <2>9. TypeOK'
    <3>1. frame' \in 0..clock /\ Len(history) >= frame'
      BY <1>1, <1>2, <2>1, <2>2
    <3>2. screen' \in Seq(Offer)
      BY <1>0
    <3> QED BY <1>0, <2>3, <2>4, <3>1, <3>2 DEF TypeOK, Typed
  <2>10. WindowOrdered' /\ FramesRun' /\ Capturing' /\ Shown'
    BY <1>0, <2>1, <2>7, <2>8 DEF WindowOrdered, FramesRun, Capturing, Shown, Closed
  <2>11. WindowBounded'
    <3>1. Len(window') <= Len(window) /\ RewindWindowSize' = RewindWindowSize /\ RewindWindowSize \in Nat
      BY <1>0, <1>1, <2>5, SizeIsNat DEF RewindWindowSize, TypeOK
    <3> QED BY <1>0, <1>1, <2>6, <3>1 DEF WindowBounded
  <2> QED BY <2>4, <2>9, <2>10, <2>11
<1> QED BY <1>0, <1>3, <1>4 DEF LoadRewindState, LoadBackup, windowVars

LEMMA InvariantHolds == Spec => []IInv
<1>1. IInv /\ [Next]_vars => IInv'
  BY QuietKeeps, ScreenKeeps, RunFrameKeeps, ChooseStateKeeps, SaveRewindStateKeeps, OpenRewindKeeps,
     UpdateRewindSettingsKeeps, ResetKeeps, RewindToKeeps
  DEF Next, EmuNext, UiNext
<1> QED BY <1>1, InitEstablishes, PTL DEF Spec

-----------------------------------------------------------------------------
(* What the screen offers, and the thread that may still be in a frame.    *)

\* A buffer of the window holds the game as it was at the end of the state's frame,
\* or nothing that loads; but for the one being written, which is for this frame.
Truthful ==
    /\ \A j \in DOMAIN window :
           (emu = "capturing" => j # 1) => memory[window[j].buffer] \in {history[window[j].frame], Unusable}
    /\ emu \in {"choosing", "capturing"} => frame > 0 /\ machine = history[frame]
    /\ emu = "capturing" => window[1].frame = frame

\* The offer is in the window, and outlives the capture the thread may be about to
\* make.
Lasting(offer) ==
    \E j \in DOMAIN window :
        /\ window[j].frame = offer.frame /\ window[j].buffer = offer.buffer
        /\ emu \in {"inFrame", "choosing"} => j < Len(window) \/ Len(window) < RewindWindowSize

\* While the screen is open the emulator is paused, unless it is resumed behind it.
ScreenStill ==
    screen # Closed =>
        /\ \A i \in DOMAIN screen : screen[i].contents = history[screen[i].frame]
        /\ ~ behind => /\ paused
                       /\ \A i \in DOMAIN screen : ~ screen[i].exposed => Lasting(screen[i])

SInv == IInv /\ Truthful /\ ScreenStill

\* Taking states off the window does not touch the memory of those that stay.
LEMMA PartsStayTruthful ==
    ASSUME IInv, Truthful, emu = "parked", emu' = emu, history' = history,
           window' \in Seq(State), BuffersOwned',
           \A b \in Buffers : memory'[b] \in {Freed, memory[b]},
           NEW k \in 0..Len(window), Len(window') <= Len(window) - k,
           \A i \in 1..Len(window') : window'[i] = window[i + k]
    PROVE  Truthful'
<1>1. /\ DOMAIN window' = 1..Len(window') /\ Len(window') \in Nat
      /\ DOMAIN window = 1..Len(window) /\ Len(window) \in Nat
  BY DEF IInv, TypeOK
<1>2. ASSUME NEW j \in DOMAIN window'
      PROVE  memory'[window'[j].buffer] \in {history[window'[j].frame], Unusable}
  <2>1. j + k \in DOMAIN window /\ window'[j] = window[j + k]
    BY <1>1
  <2>2. window'[j].buffer \in Buffers
    <3>1. window'[j] \in State
      OBVIOUS
    <3> QED BY <3>1 DEF State
  <2>3. window'[j].buffer \in BuffersOf(window')
    BY DEF BuffersOf
  <2>4. memory'[window'[j].buffer] # Freed
    BY <2>2, <2>3 DEF BuffersOwned
  <2>5. memory[window'[j].buffer] \in {history[window'[j].frame], Unusable}
    BY <2>1 DEF Truthful
  <2> QED BY <2>2, <2>4, <2>5
<1> QED BY <1>2 DEF Truthful

LEMMA QuietKeepsTrue ==
    ASSUME SInv, BeginFrame \/ Park \/ Pause \/ Resume \/ AskReset \/ QuickKey
                 \/ SaveState \/ LoadState \/ ResumeAfterJob \/ UNCHANGED vars
    PROVE  Truthful' /\ ScreenStill'
<1>0. UNCHANGED <<rewind, window, memory, frame, history, clock, screen>>
  BY DEF BeginFrame, Park, Pause, Resume, AskReset, QuickKey, SaveState, LoadState,
         ResumeAfterJob, vars, gameVars, windowVars, uiVars
<1>1. \/ emu' = emu /\ (machine' = machine \/ emu = "parked")
      \/ emu' \in {"inFrame", "parked"} /\ emu # "capturing"
  BY DEF BeginFrame, Park, Pause, Resume, AskReset, QuickKey, SaveState, LoadState,
         ResumeAfterJob, vars, gameVars
<1>2. Truthful'
  BY <1>0, <1>1 DEF SInv, Truthful
<1>3. screen # Closed /\ ~ behind' =>
          /\ ~ behind /\ (paused => paused')
          /\ paused => emu' = emu \/ emu' = "parked"
  BY DEF Playing, BeginFrame, Park, Pause, Resume, AskReset, QuickKey,
         SaveState, LoadState, ResumeAfterJob, vars, uiVars
<1>4. ASSUME screen # Closed, ~ behind' PROVE \A i \in DOMAIN screen : Lasting(screen[i]) => Lasting(screen[i])'
  <2>1. emu' \in {"inFrame", "choosing"} => emu \in {"inFrame", "choosing"}
    BY <1>3, <1>4 DEF SInv, ScreenStill
  <2> QED BY <1>0, <2>1 DEF Lasting, RewindWindowSize
<1>5. ScreenStill'
  BY <1>0, <1>3, <1>4 DEF SInv, ScreenStill
<1> QED BY <1>2, <1>5

LEMMA ScreenKeepsTrue ==
    ASSUME SInv, CloseScreen \/ \E i \in DOMAIN screen : AskRewind(i)
    PROVE  Truthful' /\ ScreenStill'
<1>0. UNCHANGED <<machine, clock, frame, history, rewind, window, memory, emu, behind, job, slot>>
  BY DEF CloseScreen, AskRewind, gameVars, windowVars
<1>1. Truthful'
  BY <1>0 DEF SInv, Truthful
<1>2. CASE CloseScreen
  <2>1. screen' = Closed
    BY <1>2 DEF CloseScreen
  <2> QED BY <1>1, <2>1 DEF ScreenStill
<1>3. CASE \E i \in DOMAIN screen : AskRewind(i)
  <2>1. PICK i \in DOMAIN screen : AskRewind(i)
    BY <1>3
  <2>2. screen \in Seq(Offer)
    BY DEF SInv, IInv, TypeOK
  <2>3. screen # Closed
    BY <2>1, <2>2 DEF Closed
  <2>4. main' = "rewind" /\ paused' = TRUE /\ screen' = <<screen[i]>>
    BY <2>1 DEF AskRewind
  <2>5. DOMAIN screen' = {1} /\ screen'[1] = screen[i]
    BY <2>4
  <2>6. screen'[1].contents = history'[screen'[1].frame]
    BY <1>0, <2>1, <2>3, <2>5 DEF SInv, ScreenStill
  <2>7. ASSUME ~ behind', ~ screen'[1].exposed PROVE Lasting(screen[1])'
    <3>1. Lasting(screen[i])
      BY <1>0, <2>1, <2>3, <2>5, <2>7 DEF SInv, ScreenStill
    <3> QED BY <1>0, <2>5, <3>1 DEF Lasting, RewindWindowSize
  <2> QED BY <1>1, <2>4, <2>5, <2>6, <2>7 DEF ScreenStill
<1> QED BY <1>1, <1>2, <1>3

\* A new frame is added to the history behind those of the window.
LEMMA RunFrameKeepsTrue == ASSUME SInv, RunFrame PROVE Truthful' /\ ScreenStill'
<1>0. /\ emu = "inFrame" /\ machine' = clock + 1 /\ frame' = frame + 1
      /\ history' = Append(SubSeq(history, 1, frame), clock + 1)
      /\ emu' \in {"choosing", "between"}
      /\ UNCHANGED <<rewind, window, memory, paused, screen, behind>>
  BY DEF RunFrame, windowVars, uiVars
<1>1. history \in Seq(Contents) /\ frame \in Nat /\ frame <= Len(history) /\ Len(history) \in Nat
  BY BoundsAssumption DEF SInv, IInv, TypeOK
<1>2. history'[frame + 1] = clock + 1 /\ \A k \in 1..frame : history'[k] = history[k]
  <2>1. /\ Len(SubSeq(history, 1, frame)) = frame
        /\ \A k \in 1..frame : SubSeq(history, 1, frame)[k] = history[k]
    BY <1>1
  <2> QED BY <1>0, <1>1, <2>1
<1>3. \A j \in DOMAIN window : window[j].frame \in 1..frame
  <2>1. \A j \in DOMAIN window : window[j] \in State
    BY DEF SInv, IInv, TypeOK
  <2> QED BY <1>1, <2>1 DEF SInv, IInv, WindowOrdered, FramesRun, State
<1>4. Truthful'
  <2>1. \A j \in DOMAIN window : memory[window[j].buffer] \in {history[window[j].frame], Unusable}
    BY <1>0 DEF SInv, Truthful
  <2>2. \A j \in DOMAIN window' : memory'[window'[j].buffer] \in {history'[window'[j].frame], Unusable}
    BY <1>0, <1>2, <1>3, <2>1
  <2>3. frame' > 0 /\ machine' = history'[frame']
    BY <1>0, <1>1, <1>2
  <2> QED BY <1>0, <2>2, <2>3 DEF Truthful
<1>5. \A i \in DOMAIN screen : Lasting(screen[i]) => Lasting(screen[i])'
  BY <1>0 DEF Lasting, RewindWindowSize
<1>6. \A i \in DOMAIN screen : screen[i].frame \in 1..frame
  <2>1. \A i \in DOMAIN screen : screen[i] \in Offer
    BY DEF SInv, IInv, TypeOK
  <2> QED BY <1>1, <2>1 DEF SInv, IInv, FramesRun, Offer
<1>7. \A i \in DOMAIN screen : history'[screen[i].frame] = history[screen[i].frame]
  BY <1>2, <1>6
<1>8. ScreenStill'
  BY <1>0, <1>5, <1>7 DEF SInv, ScreenStill
<1> QED BY <1>4, <1>8

\* Only the state at the front is in a buffer that changes.
LEMMA ChooseStateKeepsTrue == ASSUME SInv, ChooseState PROVE Truthful' /\ ScreenStill'
<1>0. /\ emu = "choosing" /\ emu' = "capturing" /\ GetNextRewindSaveState
      /\ UNCHANGED <<machine, frame, history, rewind, paused, screen, behind>>
  BY DEF ChooseState, gameVars, uiVars
<1>1. Typed(window, memory) /\ BuffersOwned /\ frame \in 0..MaxFrames
  BY BoundsAssumption DEF SInv, IInv, TypeOK, Typed
<1>2. /\ window' \in Seq(State) /\ window' # <<>> /\ window'[1].frame = frame
      /\ Len(window') = IF Len(window) < RewindWindowSize THEN Len(window) + 1 ELSE Len(window)
      /\ \A i \in 2..Len(window') : i - 1 \in DOMAIN window /\ window'[i] = window[i - 1]
  BY <1>0, <1>1, NextOwnsItsBuffer DEF Typed
<1>3. \A c \in BuffersOf(window) : memory'[c] = memory[c]
  BY <1>0, <1>1 DEF GetNextRewindSaveState, BuffersOwned, Typed
<1>4. ASSUME NEW j \in DOMAIN window', j # 1
      PROVE  memory'[window'[j].buffer] \in {history[window'[j].frame], Unusable}
  <2>1. j \in 2..Len(window')
    BY <1>2, <1>4
  <2>2. j - 1 \in DOMAIN window /\ window'[j] = window[j - 1]
    BY <1>2, <2>1
  <2>3. memory'[window'[j].buffer] = memory[window'[j].buffer]
    BY <1>3, <2>2 DEF BuffersOf
  <2> QED BY <1>0, <2>2, <2>3 DEF SInv, Truthful
<1>5. Truthful'
  BY <1>0, <1>2, <1>4 DEF SInv, Truthful
<1>6. \A i \in DOMAIN screen : Lasting(screen[i]) => Lasting(screen[i])'
  <2> SUFFICES ASSUME NEW i \in DOMAIN screen, Lasting(screen[i]) PROVE Lasting(screen[i])'
    OBVIOUS
  <2>1. PICK j \in DOMAIN window :
            /\ window[j].frame = screen[i].frame /\ window[j].buffer = screen[i].buffer
            /\ j < Len(window) \/ Len(window) < RewindWindowSize
    BY <1>0 DEF Lasting
  <2>2. j + 1 \in 2..Len(window') /\ j + 1 \in DOMAIN window' /\ j + 1 - 1 = j
    BY <1>1, <1>2, <2>1 DEF Typed
  <2>3. window'[j + 1] = window[j]
    BY <1>2, <2>2
  <2> QED BY <1>0, <2>1, <2>2, <2>3 DEF Lasting
<1>7. ScreenStill'
  BY <1>0, <1>6 DEF SInv, ScreenStill
<1> QED BY <1>5, <1>7

LEMMA SaveRewindStateKeepsTrue == ASSUME SInv, SaveRewindState PROVE Truthful' /\ ScreenStill'
<1>0. /\ emu = "capturing" /\ emu' = "between" /\ window # <<>>
      /\ UNCHANGED <<machine, frame, history, rewind, window, paused, screen, behind>>
  BY DEF SaveRewindState, SInv, IInv, Capturing, gameVars, uiVars
<1>1. window \in Seq(State) /\ memory \in [Buffers -> Contents \cup {Freed, Unusable}]
  BY DEF SInv, IInv, TypeOK
<1>2. PICK saved \in {machine, Unusable} : memory' = [memory EXCEPT ![window[1].buffer] = saved]
  <2>1. Head(window) = window[1]
    BY <1>0, <1>1
  <2> QED BY <2>1 DEF SaveRewindState
<1>3. ASSUME NEW j \in DOMAIN window
      PROVE  memory'[window[j].buffer] \in {history[window[j].frame], Unusable}
  <2>1. window[j].buffer \in Buffers /\ window[1].buffer \in Buffers /\ 1 \in DOMAIN window
    <3>1. 1 \in DOMAIN window /\ window[1] \in State /\ window[j] \in State
      BY <1>0, <1>1
    <3> QED BY <3>1 DEF State
  <2>2. CASE j = 1
    <3>1. machine = history[window[1].frame]
      BY <1>0 DEF SInv, Truthful
    <3>2. memory'[window[1].buffer] = saved
      BY <1>1, <1>2, <2>1, <2>2
    <3> QED BY <2>2, <3>1, <3>2
  <2>3. CASE j # 1
    <3>1. window[j].buffer # window[1].buffer
      BY <2>1, <2>3 DEF SInv, IInv, BuffersOwned
    <3>2. memory'[window[j].buffer] = memory[window[j].buffer]
      BY <1>1, <1>2, <2>1, <3>1
    <3> QED BY <2>3, <3>2 DEF SInv, Truthful
  <2> QED BY <2>2, <2>3
<1>4. Truthful'
  BY <1>0, <1>3 DEF Truthful
<1>5. \A i \in DOMAIN screen : Lasting(screen[i]) => Lasting(screen[i])'
  BY <1>0 DEF Lasting
<1>6. ScreenStill'
  BY <1>0, <1>5 DEF SInv, ScreenStill
<1> QED BY <1>4, <1>6

\* What is about to be used again is marked; everything else lasts.
LEMMA OpenRewindKeepsTrue == ASSUME SInv, OpenRewind PROVE Truthful' /\ ScreenStill'
<1>0. /\ paused' = TRUE
      /\ screen' = [i \in DOMAIN window |->
                       [frame |-> window[i].frame, buffer |-> window[i].buffer,
                        contents |-> history[window[i].frame], exposed |-> AboutToReuse(i)]]
      /\ UNCHANGED <<machine, frame, history, rewind, window, memory, emu>>
  BY DEF OpenRewind, gameVars, windowVars
<1>1. Truthful'
  BY <1>0 DEF SInv, Truthful
<1>2. DOMAIN screen' = DOMAIN window /\ DOMAIN window = 1..Len(window) /\ Len(window) \in Nat
  BY <1>0 DEF SInv, IInv, TypeOK
<1>3. ASSUME NEW i \in DOMAIN window
      PROVE  /\ window[i].frame = screen'[i].frame /\ window[i].buffer = screen'[i].buffer
             /\ screen'[i].contents = history[screen'[i].frame]
             /\ screen'[i].exposed = AboutToReuse(i)
  BY <1>0
<1>4. RewindWindowSize \in Nat /\ RewindWindowSize' = RewindWindowSize
  BY <1>0, SizeIsNat DEF SInv, IInv, TypeOK, RewindWindowSize
<1>5. ASSUME NEW i \in DOMAIN window, ~ screen'[i].exposed PROVE Lasting(screen[i])'
  <2>0. ~ AboutToReuse(i)
    BY <1>3, <1>5, Zenon
  <2>1. emu \in {"inFrame", "choosing"} => i < Len(window) \/ Len(window) < RewindWindowSize
    BY <1>2, <1>4, <2>0 DEF AboutToReuse
  <2> QED BY <1>0, <1>3, <1>4, <2>1 DEF Lasting
<1>6. ScreenStill'
  BY <1>0, <1>2, <1>3, <1>5 DEF ScreenStill
<1> QED BY <1>1, <1>6

\* Deleting a state touches no other buffer.
LEMMA DeletingFrees ==
    ASSUME NEW states, Delete(states) PROVE \A b \in Buffers : memory'[b] \in {Freed, memory[b]}
BY DEF Delete

\* Keep(n) as a part of the window.
LEMMA KeepIsTrue ==
    ASSUME SInv, emu = "parked", emu' = emu, history' = history, NEW n \in 0..Len(window), Keep(n)
    PROVE  Truthful'
<1>1. Typed(window, memory) /\ BuffersOwned /\ Len(window) \in Nat
  BY DEF SInv, IInv, TypeOK, Typed
<1>2. /\ window' \in Seq(State) /\ BuffersOwned' /\ Len(window') = n
      /\ \A i \in 1..n : window'[i] = window[i]
  BY <1>1, KeepDeletesOnce DEF Typed
<1>3. \A b \in Buffers : memory'[b] \in {Freed, memory[b]}
  BY DeletingFrees DEF Keep
<1>4. /\ 0 \in 0..Len(window) /\ Len(window') <= Len(window) - 0
      /\ \A i \in 1..Len(window') : window'[i] = window[i + 0]
  <2>1. \A i \in 1..n : i + 0 = i
    BY <1>1
  <2> QED BY <1>1, <1>2, <2>1
<1> QED BY <1>2, <1>3, <1>4, PartsStayTruthful DEF SInv

LEMMA UpdateRewindSettingsKeepsTrue == ASSUME SInv, UpdateRewindSettings PROVE Truthful' /\ ScreenStill'
<1>0. /\ emu = "parked" /\ rewind' \in Settings /\ screen = Closed
      /\ UNCHANGED <<machine, frame, history, emu, screen>>
  BY DEF UpdateRewindSettings, Playing, Still, gameVars, uiVars
<1>1. ScreenStill'
  BY <1>0 DEF ScreenStill
<1> DEFINE room == rewind'.length \div rewind'.interval
<1>2. Len(window) \in Nat /\ room \in Nat
  BY <1>0, SizeIsNat DEF SInv, IInv, TypeOK
<1>3. CASE ~ rewind.enabled
  <2>1. window' = window /\ memory' = memory
    BY <1>3 DEF UpdateRewindSettings, windowVars
  <2> QED BY <1>0, <1>1, <2>1 DEF SInv, Truthful
<1>4. CASE rewind.enabled /\ ~ rewind'.enabled
  <2>1. Keep(0) /\ 0 \in 0..Len(window)
    BY <1>2, <1>4 DEF UpdateRewindSettings
  <2> QED BY <1>0, <1>1, <2>1, KeepIsTrue
<1>5. CASE rewind.enabled /\ rewind'.enabled
  <2> DEFINE n == IF Len(window) > room THEN room ELSE Len(window)
  <2>1. Keep(n)
    BY <1>5 DEF UpdateRewindSettings
  <2> HIDE DEF room
  <2>2. n \in 0..Len(window)
    BY <1>2
  <2> HIDE DEF n
  <2> QED BY <1>0, <1>1, <2>1, <2>2, KeepIsTrue
<1> QED BY <1>3, <1>4, <1>5

LEMMA ResetKeepsTrue == ASSUME SInv, Reset PROVE Truthful' /\ ScreenStill'
<1>0. /\ emu = "parked" /\ Keep(0) /\ screen = Closed /\ UNCHANGED <<history, emu, screen>>
  BY DEF Reset, SInv, IInv, Shown
<1>1. 0 \in 0..Len(window)
  BY DEF SInv, IInv, TypeOK
<1>2. Truthful'
  BY <1>0, <1>1, KeepIsTrue
<1>3. ScreenStill'
  BY <1>0 DEF ScreenStill
<1> QED BY <1>2, <1>3

\* What is chosen is still in the window, and its buffer holds what was offered.
LEMMA ChosenIsThere ==
    ASSUME SInv, main = "rewind", emu = "parked", ~ behind, ~ Head(screen).exposed
    PROVE  /\ InWindow(Head(screen))
           /\ memory[Head(screen).buffer] \in {Head(screen).contents, Unusable}
<1>1. screen \in Seq(Offer) /\ screen # Closed
  BY DEF SInv, IInv, TypeOK, FramesRun, Closed
<1>2. 1 \in DOMAIN screen /\ Head(screen) = screen[1]
  BY <1>1 DEF Closed
<1>3. Lasting(screen[1]) /\ screen[1].contents = history[screen[1].frame]
  BY <1>1, <1>2 DEF SInv, ScreenStill
<1>4. PICK j \in DOMAIN window : window[j].frame = screen[1].frame /\ window[j].buffer = screen[1].buffer
  BY <1>3 DEF Lasting
<1>5. memory[window[j].buffer] \in {history[window[j].frame], Unusable}
  BY DEF SInv, Truthful
<1> QED BY <1>2, <1>3, <1>4, <1>5 DEF InWindow

\* OnRewindFromState stops at the state it is given, when the window has it.
LEMMA StopsAtChosen ==
    ASSUME SInv, NEW offer, InWindow(offer), OnRewindFromState(offer.frame)
    PROVE  window' # <<>> /\ Head(window').buffer = offer.buffer
<1>0. window \in Seq(State) /\ Len(window) \in Nat /\ DOMAIN window = 1..Len(window) /\ WindowOrdered
  BY DEF SInv, IInv, TypeOK
<1>1. PICK j \in DOMAIN window : window[j].frame = offer.frame /\ window[j].buffer = offer.buffer
  BY DEF InWindow
<1>2. PICK n \in 0..Len(window) : NewerThan(offer.frame, n) /\ window' = SubSeq(window, n + 1, Len(window))
  BY DEF OnRewindFromState
<1>3. \A i \in DOMAIN window : window[i].frame \in Nat
  <2>1. \A i \in DOMAIN window : window[i] \in State
    BY <1>0
  <2> QED BY <2>1, BoundsAssumption DEF State
<1>4. n < j
  <2>1. ~ (window[j].frame > offer.frame)
    BY <1>1, <1>3
  <2> QED BY <1>0, <1>2, <2>1 DEF NewerThan
<1>5. n + 1 = j
  <2>1. n + 1 \in DOMAIN window /\ window[n + 1].frame <= offer.frame
    BY <1>0, <1>2, <1>4 DEF NewerThan
  <2>2. ~ (n + 1 < j)
    BY <1>0, <1>1, <1>3, <2>1 DEF WindowOrdered
  <2> QED BY <1>0, <1>4, <2>2
<1>6. window' \in Seq(State) /\ Len(window') = Len(window) - (n + 1) + 1 /\ window'[1] = window[n + 1]
  <2>1. window \in Seq(State) /\ n \in 0..Len(window) /\ window' = SubSeq(window, n + 1, Len(window))
    BY <1>0, <1>2
  <2>2. /\ window' \in Seq(State) /\ Len(window') = Len(window) - n
        /\ \A i \in 1..(Len(window) - n) : window'[i] = window[i + n]
    BY <2>1, RestOf
  <2>3. 1 \in 1..(Len(window) - n) /\ 1 + n = n + 1 /\ Len(window) - n = Len(window) - (n + 1) + 1
    BY <1>0, <1>4
  <2> QED BY <2>2, <2>3
<1>7. window' # <<>> /\ Head(window') = window'[1]
  BY <1>0, <1>4, <1>6
<1> QED BY <1>1, <1>5, <1>6, <1>7

LEMMA RewindToKeepsTrue == ASSUME SInv, RewindTo PROVE Truthful' /\ ScreenStill'
<1> DEFINE chosen == Head(screen)
<1>0. /\ main = "rewind" /\ emu = "parked" /\ screen' = Closed /\ LoadRewindState(chosen)
      /\ UNCHANGED <<history, emu>>
  BY DEF RewindTo
<1>1. ScreenStill'
  BY <1>0 DEF ScreenStill
<1>2. Typed(window, memory) /\ BuffersOwned /\ WindowOrdered /\ Len(window) \in Nat
  BY DEF SInv, IInv, TypeOK, Typed
<1>3. CASE UNCHANGED <<frame, windowVars>>
  BY <1>0, <1>1, <1>3 DEF SInv, Truthful, windowVars
<1>4. CASE OnRewindFromState(chosen.frame)
  <2>1. chosen.frame \in Nat
    <3>1. screen \in Seq(Offer) /\ screen # <<>>
      BY <1>0 DEF SInv, IInv, TypeOK, FramesRun
    <3>2. chosen \in Offer
      BY <3>1
    <3> HIDE DEF chosen
    <3> QED BY <3>2, BoundsAssumption DEF Offer
  <2> HIDE DEF chosen
  <2>2. window' \in Seq(State) /\ BuffersOwned' /\ Len(window') \in Nat
    BY <1>2, <1>4, <2>1, RewindDeletesOnce DEF Typed
  <2>3. PICK n \in 0..Len(window) :
            /\ Len(window') = Len(window) - n
            /\ \A i \in 1..Len(window') : window'[i] = window[i + n]
    BY <1>2, <1>4, <2>1, RewindDeletesOnce
  <2>4. \A b \in Buffers : memory'[b] \in {Freed, memory[b]}
    BY <1>4, DeletingFrees DEF OnRewindFromState
  <2>5. Len(window') <= Len(window) - n
    BY <1>2, <2>2, <2>3
  <2> QED BY <1>0, <1>1, <2>2, <2>3, <2>4, <2>5, PartsStayTruthful DEF SInv
<1> QED BY <1>0, <1>3, <1>4 DEF LoadRewindState

LEMMA ScreenInvariantHolds == Spec => []SInv
<1>1. Init => SInv
  BY InitEstablishes DEF Init, SInv, Truthful, ScreenStill
<1>2. ASSUME SInv, [Next]_vars PROVE Truthful' /\ ScreenStill'
  BY <1>2, QuietKeepsTrue, ScreenKeepsTrue, RunFrameKeepsTrue, ChooseStateKeepsTrue,
     SaveRewindStateKeepsTrue, OpenRewindKeepsTrue, UpdateRewindSettingsKeepsTrue, ResetKeepsTrue,
     RewindToKeepsTrue
  DEF Next, EmuNext, UiNext
<1>3. IInv /\ IInv' /\ SInv /\ [Next]_vars => SInv'
  BY <1>2 DEF SInv
<1> QED BY <1>1, <1>3, InvariantHolds, PTL DEF Spec

-----------------------------------------------------------------------------
(* The theorems.                                                           *)

\* Types: no state of a machine is invented, and no frame the game did not run.
THEOREM TypeCorrect == Spec => []TypeOK
<1>1. IInv => TypeOK
  BY DEF IInv
<1> QED BY <1>1, InvariantHolds, PTL

\* RewindManager keeps its window in the order OnRewindFromState counts on, through
\* rewinds that set the frame counter back.
THEOREM WindowIsOrdered == Spec => []WindowOrdered
<1>1. IInv => WindowOrdered
  BY DEF IInv
<1> QED BY <1>1, InvariantHolds, PTL

\* The window never outgrows the settings in force.
THEOREM WindowIsBounded == Spec => []WindowBounded
<1>1. IInv => WindowBounded
  BY DEF IInv
<1> QED BY <1>1, InvariantHolds, PTL

\* RewindManager neither leaks a buffer nor deletes one twice.
THEOREM BuffersAreOwned == Spec => []BuffersOwned
<1>1. IInv => BuffersOwned
  BY DEF IInv
<1> QED BY <1>1, InvariantHolds, PTL

\* However the screen opens, what it points to is not freed under it; and unless the
\* game is resumed behind it, all but the state about to be used again stays in the
\* window.
THEOREM ScreenOffersWhatIsThere == Spec => []ScreenIsTrue
<1>1. SInv => ScreenIsTrue
  <2> SUFFICES ASSUME SInv, NEW i \in DOMAIN screen
               PROVE  /\ screen[i].buffer \in BuffersOf(window)
                      /\ ~ behind /\ ~ screen[i].exposed => InWindow(screen[i])
    BY DEF ScreenIsTrue
  <2>1. screen # Closed
    BY DEF Closed
  <2>2. ~ behind /\ ~ screen[i].exposed => Lasting(screen[i])
    BY <2>1 DEF SInv, ScreenStill
  <2> QED BY <2>2 DEF SInv, IInv, Shown, Lasting, InWindow
<1> QED BY <1>1, ScreenInvariantHolds, PTL

\* The game resumes as it was at the end of the chosen frame, whatever was captured,
\* trimmed, reset or rewound before and while the screen opened, and the chosen state
\* becomes the newest; or it did not load, and frame and window are as before.
THEOREM ResumesAsChosen == Spec => ResumesFromChosen
<1> DEFINE Resumed ==
          \/ /\ machine' = Head(screen).contents /\ frame' = Head(screen).frame
             /\ window' # <<>> /\ Head(window').buffer = Head(screen).buffer
          \/ machine' \in {machine, Half} /\ UNCHANGED <<frame, windowVars>>
<1>1. ASSUME SInv, RewindTo, ~ behind, ~ Head(screen).exposed PROVE Resumed
  <2>1. main = "rewind" /\ emu = "parked" /\ LoadRewindState(Head(screen))
    BY <1>1 DEF RewindTo
  <2>2. /\ InWindow(Head(screen))
        /\ memory[Head(screen).buffer] \in {Head(screen).contents, Unusable}
    BY <1>1, <2>1, ChosenIsThere
  <2>3. OnRewindFromState(Head(screen).frame) =>
            window' # <<>> /\ Head(window').buffer = Head(screen).buffer
    BY <1>1, <2>2, StopsAtChosen
  <2> QED BY <2>1, <2>2, <2>3 DEF LoadRewindState, LoadBackup
<1>2. SInv /\ [Next]_vars => [RewindTo /\ ~ behind /\ ~ Head(screen).exposed => Resumed]_vars
  BY <1>1
<1> QED BY <1>2, ScreenInvariantHolds, PTL DEF Spec, ResumesFromChosen
=============================================================================
