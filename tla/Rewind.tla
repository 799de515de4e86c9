------------------------------- MODULE Rewind -------------------------------
(***************************************************************************)
(* Going back in the game: the window of rewind states the emulator thread *)
(* keeps (RewindManager.cpp), the rewind screen that shows it, and the save*)
(* state in a slot (saveState and loadState of MelonDS.cpp).               *)
(*                                                                         *)
(* The rewind screen gets a copy of the window, but the copies hold the    *)
(* window's own buffers: what is captured, trimmed, reset or rewound while *)
(* the screen is open changes or frees what it offers.  The screen pauses  *)
(* the emulator and takes its copy at once: the thread may be in a frame   *)
(* and capture one more state, and a quick save or load that is not done   *)
(* will resume the game behind the screen.                                 *)
(*                                                                         *)
(* The contents of the machine are abstracted to a number, new with every  *)
(* frame.  The pause protocol is the one of EmulatorThread, whose findings *)
(* are not repeated here: a reset, a rewind or a save state waits for the  *)
(* thread to park.                                                         *)
(***************************************************************************)
EXTENDS Integers, Sequences

CONSTANTS
    Settings,   \* rewind settings the user may choose; times in frames
    Buffers,    \* addresses a rewind buffer may be allocated at
    MaxFrames   \* bound on the frames run

Setting == [enabled : BOOLEAN, length : Nat, interval : Nat \ {0}]

ASSUME SettingsAssumption == Settings \subseteq Setting
ASSUME BoundsAssumption == MaxFrames \in Nat

\* What a buffer or a slot may hold besides a machine's contents.
Freed == -1
Unusable == -2    \* rejected by the header check or the configuration word
Incomplete == -3  \* a section is missing: the load fails half way
Half == -4        \* contents of a machine loaded half way

VARIABLES
    machine,   \* contents of the machine
    clock,     \* frames run so far
    frame,     \* MelonInstance's frame counter: it goes back with a rewind
    history,   \* history[f]: contents of the machine at the end of frame f
    rewind,    \* the settings in force
    window,    \* RewindWindow, newest first: the frame of a state, and its buffer
    memory,    \* memory[b]: what the buffer at b holds
    emu,       \* "between" | "inFrame" | "choosing" | "capturing" | "parked"
    paused,
    main,      \* "idle", or the call that waits for the thread to park
    screen,    \* what the rewind screen offers while it is open
    behind,    \* history: the game has been resumed behind the open screen
    job,       \* a quick save or load is under way
    slot       \* what the save state file holds

gameVars == <<machine, clock, frame, history>>
windowVars == <<window, memory>>
uiVars == <<main, screen, behind, job>>
vars == <<gameVars, rewind, windowVars, emu, paused, uiVars, slot>>

Closed == <<>>
State == [frame : 0..MaxFrames, buffer : Buffers]
Contents == 0..MaxFrames \cup {Half}

\* A state the screen offers and two facts about it at the time: the game at the end
\* of its frame, and whether the thread was about to use the state again.
Offer == [frame : 0..MaxFrames, buffer : Buffers, contents : Contents, exposed : BOOLEAN]

TypeOK ==
    /\ machine \in Contents /\ clock \in 0..MaxFrames /\ frame \in 0..clock
    /\ history \in Seq(Contents) /\ Len(history) >= frame
    /\ rewind \in Settings
    /\ window \in Seq(State)
    /\ memory \in [Buffers -> Contents \cup {Freed, Unusable}]
    /\ emu \in {"between", "inFrame", "choosing", "capturing", "parked"}
    /\ paused \in BOOLEAN
    /\ main \in {"idle", "reset", "rewind"}
    /\ screen \in Seq(Offer) /\ behind \in BOOLEAN
    /\ job \in {"none", "save", "load", "done"}
    /\ slot \in Contents \cup {Unusable, Incomplete}

Init ==
    /\ machine = 0 /\ clock = 0 /\ frame = 0 /\ history = <<>>
    /\ rewind \in Settings
    /\ window = <<>> /\ memory = [b \in Buffers |-> Freed]
    /\ emu = "between" /\ paused = FALSE
    /\ main = "idle" /\ screen = Closed /\ behind = FALSE /\ job = "none"
    /\ slot \in {Unusable, Incomplete}

-----------------------------------------------------------------------------
(* RewindManager.                                                          *)

RewindWindowSize == rewind.length \div rewind.interval

ShouldCaptureState(f) == rewind.enabled /\ RewindWindowSize # 0 /\ f % rewind.interval = 0

BuffersOf(states) == {states[i].buffer : i \in DOMAIN states}

\* DeleteRewindSaveState of the states.
Delete(states) == memory' = [b \in Buffers |-> IF b \in BuffersOf(states) THEN Freed ELSE memory[b]]

\* Keep the newest n states.
Keep(n) ==
    /\ window' = SubSeq(window, 1, n)
    /\ Delete(SubSeq(window, n + 1, Len(window)))

\* Mutants of GetNextRewindSaveState: the oldest state keeps its frame number when
\* it is used again; the window may grow by one state too many.
ReuseWithoutFrame ==
    IF Len(window) < RewindWindowSize
    THEN \E b \in Buffers :
             /\ memory[b] = Freed
             /\ memory' = [memory EXCEPT ![b] = Unusable]
             /\ window' = <<[frame |-> frame, buffer |-> b]>> \o window
    ELSE /\ window # <<>>
         /\ window' = <<window[Len(window)]>> \o SubSeq(window, 1, Len(window) - 1)
         /\ UNCHANGED memory

GrowByOneMore ==
    IF Len(window) <= RewindWindowSize
    THEN \E b \in Buffers :
             /\ memory[b] = Freed
             /\ memory' = [memory EXCEPT ![b] = Unusable]
             /\ window' = <<[frame |-> frame, buffer |-> b]>> \o window
    ELSE /\ window' = <<[window[Len(window)] EXCEPT !.frame = frame]>>
                      \o SubSeq(window, 1, Len(window) - 1)
         /\ UNCHANGED memory

\* A new state while there is room, else the oldest one again.
GetNextRewindSaveState ==
    IF Len(window) < RewindWindowSize
    THEN \E b \in Buffers :
             /\ memory[b] = Freed
             /\ memory' = [memory EXCEPT ![b] = Unusable]
             /\ window' = <<[frame |-> frame, buffer |-> b]>> \o window
    ELSE /\ window # <<>>
         /\ window' = <<[window[Len(window)] EXCEPT !.frame = frame]>>
                      \o SubSeq(window, 1, Len(window) - 1)
         /\ UNCHANGED memory

\* The first n states of the window are newer than frame f, and no more.
NewerThan(f, n) ==
    /\ n \in 0..Len(window)
    /\ \A i \in 1..n : window[i].frame > f
    /\ n < Len(window) => window[n + 1].frame <= f

\* Mutants of OnRewindFromState: the states stay; they are dropped and not deleted.
NewerStay(f) == UNCHANGED windowVars

DropNewer(f) ==
    \E n \in 0..Len(window) :
        /\ NewerThan(f, n)
        /\ window' = SubSeq(window, n + 1, Len(window))
        /\ UNCHANGED memory

\* The states newer than the one gone back to are popped and deleted.  Without that
\* state or an older one the loop looks at one element past the end of the list, and
\* stops.
OnRewindFromState(f) ==
    \E n \in 0..Len(window) :
        /\ NewerThan(f, n)
        /\ window' = SubSeq(window, n + 1, Len(window))
        /\ Delete(SubSeq(window, 1, n))

-----------------------------------------------------------------------------
(* The emulator thread.                                                    *)

BeginFrame ==
    /\ \/ emu = "between" /\ ~ paused
       \/ emu = "parked" /\ ~ paused
    /\ clock < MaxFrames
    /\ emu' = "inFrame"
    /\ UNCHANGED <<gameVars, rewind, windowVars, paused, uiVars, slot>>

Park ==
    /\ emu = "between" /\ paused
    /\ emu' = "parked"
    /\ UNCHANGED <<gameVars, rewind, windowVars, paused, uiVars, slot>>

RunFrame ==
    /\ emu = "inFrame"
    /\ clock' = clock + 1
    /\ machine' = clock + 1
    /\ frame' = frame + 1
    /\ history' = Append(SubSeq(history, 1, frame), clock + 1)
    /\ emu' = IF ShouldCaptureState(frame + 1) THEN "choosing" ELSE "between"
    /\ UNCHANGED <<rewind, windowVars, paused, uiVars, slot>>

ChooseState ==
    /\ emu = "choosing"
    /\ GetNextRewindSaveState
    /\ emu' = "capturing"
    /\ UNCHANGED <<gameVars, rewind, paused, uiVars, slot>>

\* saveRewindState; a machine too large for the buffer, or achievements that do
\* not serialise, leave a buffer whose header does not fit its length.
SaveRewindState ==
    /\ emu = "capturing"
    /\ \E saved \in {machine, Unusable} :
           memory' = [memory EXCEPT ![Head(window).buffer] = saved]
    /\ emu' = "between"
    /\ UNCHANGED <<gameVars, rewind, window, paused, uiVars, slot>>

EmuNext == BeginFrame \/ Park \/ RunFrame \/ ChooseState \/ SaveRewindState

-----------------------------------------------------------------------------
(* The user interface.  Hot keys work only while no overlay is shown.      *)

Playing == main = "idle" /\ screen = Closed
Still == emu = "parked" /\ paused

Pause ==
    /\ Playing
    /\ paused' = TRUE
    /\ UNCHANGED <<gameVars, rewind, windowVars, emu, uiVars, slot>>

\* Mutant of Resume: the overlay is not looked at.
ResumeBehindScreen ==
    /\ main = "idle" /\ paused /\ job = "none"
    /\ paused' = FALSE
    /\ UNCHANGED <<gameVars, rewind, windowVars, emu, uiVars, slot>>

Resume ==
    /\ Playing /\ paused /\ job = "none"
    /\ paused' = FALSE
    /\ UNCHANGED <<gameVars, rewind, windowVars, emu, uiVars, slot>>

\* updateConfiguration, on the way back from the settings.
UpdateRewindSettings ==
    /\ Playing /\ Still
    /\ rewind' \in Settings
    /\ IF ~ rewind.enabled THEN UNCHANGED windowVars
       ELSE IF ~ rewind'.enabled THEN Keep(0)
       ELSE LET room == rewind'.length \div rewind'.interval
            IN Keep(IF Len(window) > room THEN room ELSE Len(window))
    /\ UNCHANGED <<gameVars, emu, paused, uiVars, slot>>

\* The next capture takes the buffer of the oldest state of a full window.
AboutToReuse(i) ==
    /\ emu \in {"inFrame", "choosing"}
    /\ i = Len(window) /\ i >= RewindWindowSize

\* The screen's list: what it will go back to is the game as it was at the end of
\* the frame it names.  Nothing waits for the thread, or for a quick save.
OpenRewind ==
    /\ Playing /\ rewind.enabled
    /\ paused' = TRUE
    /\ screen' = [i \in DOMAIN window |->
                     [frame |-> window[i].frame, buffer |-> window[i].buffer,
                      contents |-> history[window[i].frame], exposed |-> AboutToReuse(i)]]
    /\ behind' = FALSE
    /\ UNCHANGED <<gameVars, rewind, windowVars, emu, main, job, slot>>

CloseScreen ==
    /\ main = "idle" /\ screen # Closed
    /\ screen' = Closed
    /\ paused' = FALSE
    /\ UNCHANGED <<gameVars, rewind, windowVars, emu, main, behind, job, slot>>

\* rewindToState pauses and waits, as a reset does; of what the screen offers only
\* the chosen state matters from then on.
AskRewind(i) ==
    /\ main = "idle"
    /\ main' = "rewind" /\ paused' = TRUE
    /\ screen' = <<screen[i]>>
    /\ UNCHANGED <<gameVars, rewind, windowVars, emu, behind, job, slot>>

\* A Savestate that has been written to is finished and still saving: DoSavestate
\* passes over all of it, so loading the backup changes nothing.
LoadBackup(contents) == contents

\* A state whose header does not fit is rejected before the machine is touched; one
\* that the machine refuses later, the achievements say, fails half way, and then
\* the backup is loaded.
LoadRewindState(state) ==
    \/ /\ memory[state.buffer] = Unusable
       /\ UNCHANGED <<machine, frame, windowVars>>
    \/ /\ memory[state.buffer] # Unusable
       /\ machine' = LoadBackup(Half)
       /\ UNCHANGED <<frame, windowVars>>
    \/ /\ memory[state.buffer] # Unusable
       /\ machine' = memory[state.buffer]
       /\ frame' = state.frame
       /\ OnRewindFromState(state.frame)

\* The state is loaded, the screen closes, the game goes on.
RewindTo ==
    /\ main = "rewind" /\ emu = "parked"
    /\ LoadRewindState(Head(screen))
    /\ main' = "idle" /\ screen' = Closed
    /\ paused' = FALSE
    /\ UNCHANGED <<clock, history, rewind, emu, behind, job, slot>>

\* resetEmulation waits, resets and resumes.
AskReset ==
    /\ Playing
    /\ main' = "reset" /\ paused' = TRUE
    /\ UNCHANGED <<gameVars, rewind, windowVars, emu, screen, behind, job, slot>>

Reset ==
    /\ main = "reset" /\ emu = "parked"
    /\ machine' = 0
    /\ Keep(0)
    /\ main' = "idle" /\ paused' = FALSE
    /\ UNCHANGED <<clock, frame, history, rewind, emu, screen, behind, job, slot>>

-----------------------------------------------------------------------------
(* Quick save and quick load: pause, a worker's call, resume.              *)

QuickKey ==
    /\ Playing /\ job = "none"
    /\ job' \in {"save", "load"}
    /\ paused' = TRUE
    /\ UNCHANGED <<gameVars, rewind, windowVars, emu, main, screen, behind, slot>>

\* The file is truncated first; a save that fails leaves one that is rejected.
SaveState ==
    /\ job = "save" /\ emu = "parked"
    /\ slot' \in {machine, Unusable}
    /\ job' = "done"
    /\ UNCHANGED <<gameVars, rewind, windowVars, emu, paused, main, screen, behind>>

\* A file with a section missing fails after other sections have been loaded, and
\* then the backup is loaded.
LoadState ==
    /\ job = "load" /\ emu = "parked"
    /\ machine' = CASE slot = Unusable -> LoadBackup(machine)
                    [] slot = Incomplete -> LoadBackup(Half)
                    [] OTHER -> slot
    /\ job' = "done"
    /\ UNCHANGED <<clock, frame, history, rewind, windowVars, emu, paused, main, screen, behind, slot>>

\* The worker's caller resumes the game, whatever is shown by now.
ResumeAfterJob ==
    /\ main = "idle" /\ job = "done"
    /\ job' = "none"
    /\ paused' = FALSE
    /\ behind' = (screen # Closed)
    /\ UNCHANGED <<gameVars, rewind, windowVars, emu, main, screen, slot>>

UiNext == Pause \/ Resume \/ UpdateRewindSettings \/ OpenRewind \/ CloseScreen
          \/ (\E i \in DOMAIN screen : AskRewind(i)) \/ RewindTo \/ AskReset \/ Reset
          \/ QuickKey \/ SaveState \/ LoadState \/ ResumeAfterJob

Next == EmuNext \/ UiNext

Spec == Init /\ [][Next]_vars
-----------------------------------------------------------------------------
\* The window goes back in time without repeating itself, although the frame
\* counter jumps back with each rewind: the screen keys its list by the frame, and
\* OnRewindFromState stops at the first state that is not newer.
WindowOrdered ==
    /\ \A i, j \in DOMAIN window : i < j => window[i].frame > window[j].frame
    /\ \A i \in DOMAIN window : window[i].frame <= frame

\* The memory promised by the settings is kept to, through every change of them,
\* and a rewind that is switched off keeps none.
WindowBounded ==
    Len(window) <= IF rewind.enabled THEN RewindWindowSize ELSE 0

\* Every state owns its buffer, and every allocated buffer belongs to a state of
\* the window: nothing is leaked, freed twice, or used after it was freed.
BuffersOwned ==
    /\ \A i, j \in DOMAIN window : window[i].buffer = window[j].buffer => i = j
    /\ {b \in Buffers : memory[b] # Freed} = BuffersOf(window)

InWindow(offer) ==
    \E j \in DOMAIN window : window[j].frame = offer.frame /\ window[j].buffer = offer.buffer

\* The screen points into buffers that stay allocated while it is open, whenever it
\* was opened and whatever happens behind it.  Unless the game is resumed behind it,
\* what it offers also stays in the window under the frame it names, all but the one
\* state the thread was about to use again.
ScreenIsTrue ==
    \A i \in DOMAIN screen :
        /\ screen[i].buffer \in BuffersOf(window)
        /\ ~ behind /\ ~ screen[i].exposed => InWindow(screen[i])

\* Unless it is that state, or the game was resumed behind the screen, the game goes
\* on as it was at the end of the chosen frame, with the chosen state the newest of
\* the window: the loop of OnRewindFromState stops there, not past the end of the
\* list.  Or the state did not load, and frame and window are as before.
ResumesFromChosen ==
    [][RewindTo /\ ~ behind /\ ~ Head(screen).exposed =>
          \/ /\ machine' = Head(screen).contents /\ frame' = Head(screen).frame
             /\ window' # <<>> /\ Head(window').buffer = Head(screen).buffer
          \/ machine' \in {machine, Half} /\ UNCHANGED <<frame, windowVars>>]_vars

\* "Open the rewind screen and select the state that you want to resume from": of any
\* screen, the game resumes as it was at the end of the chosen frame, or the state
\* did not load.
ResumesAsSelected == [][RewindTo => machine' \in {Head(screen).contents, machine, Half}]_vars
=============================================================================
