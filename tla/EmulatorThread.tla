--------------------------- MODULE EmulatorThread ---------------------------
(***************************************************************************)
(* The life of the native emulator thread and the calls that pause, resume,*)
(* reset, rewind, save and stop it (MelonDSAndroidJNI.cpp, driven by       *)
(* AndroidEmulatorManager and EmulatorViewModel).                          *)
(*                                                                         *)
(* Four threads take part.  The emulator thread runs emulate().  The main  *)
(* thread makes the JNI calls of the user interface, one at a time.  One   *)
(* worker of Dispatchers.IO launches a game, another writes or reads a     *)
(* save state.  The flags started, stop and paused are plain globals:      *)
(* emuThreadMutex protects them only as far as the code takes it.          *)
(*                                                                         *)
(* A step is a stretch of code that no other thread can tell apart from    *)
(* one moment: it ends where a lock is taken or freed, a flag another      *)
(* thread reads without the lock is written, or the machine is entered or  *)
(* left.                                                                   *)
(***************************************************************************)
EXTENDS Naturals

CONSTANT MaxLaunches   \* bound on the number of games launched

ASSUME ConstantsAssumption == MaxLaunches \in Nat

Emu == "emulator"
Main == "main"

VARIABLES
    started, stop, paused,  \* the globals of the JNI layer
    isThreadReallyPaused,
    mutex,      \* "none" | "free" | "destroyed" | the thread that holds it
    signalled,  \* a broadcast reached the waiting emulator thread
    emu,        \* where emulate() is
    main,       \* where the main thread is in the call it makes
    op,         \* the call it makes
    wasPaused,  \* loadRewindState's local
    launch,     \* where the launching worker is
    job,        \* where the save state coroutine is
    menu,       \* the pause menu is open
    state,      \* EmulatorViewModel's emulatorState
    instance,   \* the machine exists
    launches,   \* number of games launched
    slipped     \* history: a call slipped past the emulator thread, see Slips

flags == <<started, stop, paused, isThreadReallyPaused, mutex, signalled>>
mainVars == <<main, op, wasPaused>>
appVars == <<menu, state, instance, launches>>
vars == <<flags, emu, mainVars, launch, job, appVars, slipped>>

EmuStates == {"none", "starting", "running", "parking", "asleep", "waiting", "leaving",
              "inFrame", "stopping", "exited"}
MainStates == {"idle", "pauseLock", "pauseSet", "pauseUnlock", "resumeLock", "resumeSet",
               "resumeUnlock", "lock", "spin", "inMachine", "stopLock", "join", "cleanup", "crashed"}

TypeOK ==
    /\ started \in BOOLEAN /\ stop \in BOOLEAN /\ paused \in BOOLEAN
    /\ isThreadReallyPaused \in BOOLEAN
    /\ mutex \in {"none", "free", "destroyed", Emu, Main}
    /\ signalled \in BOOLEAN
    /\ emu \in EmuStates
    /\ main \in MainStates
    /\ op \in {"none", "pause", "resume", "reset", "rewind", "stop"}
    /\ op = "none" <=> main = "idle"
    /\ wasPaused \in BOOLEAN
    /\ launch \in {"idle", "setup", "load", "create", "created", "done", "failed", "crashed"}
    /\ job \in {"idle", "pausing", "queued", "inMachine", "orphan", "resuming", "crashed"}
    /\ menu \in BOOLEAN
    /\ state \in {"none", "loading", "running", "failed"}
    /\ instance \in BOOLEAN
    /\ launches \in Nat
    /\ slipped \in BOOLEAN

Init ==
    /\ started = FALSE /\ stop = FALSE /\ paused = FALSE
    /\ isThreadReallyPaused = FALSE
    /\ mutex = "none" /\ signalled = FALSE
    /\ emu = "none"
    /\ main = "idle" /\ op = "none" /\ wasPaused = FALSE
    /\ launch = "idle" /\ job = "idle"
    /\ menu = FALSE /\ state = "none" /\ instance = FALSE
    /\ launches = 0
    /\ slipped = FALSE

-----------------------------------------------------------------------------
(* The emulator thread: emulate().                                         *)

EmuGoes(to) == emu' = to /\ UNCHANGED <<mainVars, launch, job, appVars>>

Start == emu = "starting" /\ EmuGoes("running") /\ UNCHANGED <<flags, slipped>>

\* Mutant of CheckPaused: the thread parks and does not say so.
ParkSilently ==
    /\ emu = "running"
    /\ mutex = "free"
    /\ \/ paused /\ mutex' = Emu /\ EmuGoes("parking")
       \/ ~ paused /\ UNCHANGED mutex /\ EmuGoes(IF stop THEN "stopping" ELSE "inFrame")
    /\ UNCHANGED <<started, stop, paused, isThreadReallyPaused, signalled, slipped>>

\* Top of the loop: with the mutex held, park if paused, else run or leave.
CheckPaused ==
    /\ emu = "running"
    /\ mutex = "free"
    /\ \/ /\ paused
          /\ isThreadReallyPaused' = TRUE
          /\ mutex' = Emu
          /\ EmuGoes("parking")
       \/ /\ ~ paused
          /\ EmuGoes(IF stop THEN "stopping" ELSE "inFrame")
          /\ UNCHANGED <<isThreadReallyPaused, mutex>>
    /\ UNCHANGED <<started, stop, paused, signalled, slipped>>

\* while (paused && !stop)
Recheck ==
    /\ emu = "parking"
    /\ EmuGoes(IF paused /\ ~ stop THEN "asleep" ELSE "leaving")
    /\ UNCHANGED <<flags, slipped>>

\* pthread_cond_wait frees the mutex and waits in one step ...
Sleep ==
    /\ emu = "asleep"
    /\ mutex' = "free"
    /\ signalled' = FALSE
    /\ EmuGoes("waiting")
    /\ UNCHANGED <<started, stop, paused, isThreadReallyPaused, slipped>>

\* ... and returns, signalled or spuriously, with the mutex held again.
WakeUp ==
    /\ emu = "waiting"
    /\ mutex = "free"
    /\ mutex' = Emu
    /\ signalled' = FALSE
    /\ EmuGoes("parking")
    /\ UNCHANGED <<started, stop, paused, isThreadReallyPaused, slipped>>

\* What slipped past the thread is over when it goes on, unless someone is in
\* the machine by then.
LeavePause ==
    /\ emu = "leaving"
    /\ isThreadReallyPaused' = FALSE
    /\ mutex' = "free"
    /\ IF main = "inMachine" THEN UNCHANGED slipped ELSE slipped' = FALSE
    /\ EmuGoes(IF stop THEN "stopping" ELSE "inFrame")
    /\ UNCHANGED <<started, stop, paused, signalled>>

EndFrame == emu = "inFrame" /\ EmuGoes("running") /\ UNCHANGED <<flags, slipped>>

Exit == emu = "stopping" /\ EmuGoes("exited") /\ UNCHANGED <<flags, slipped>>

EmuNext == Start \/ CheckPaused \/ Recheck \/ Sleep \/ WakeUp \/ LeavePause \/ EndFrame \/ Exit

-----------------------------------------------------------------------------
(* The JNI calls, on the main thread.                                      *)

MainGoes(to) == main' = to /\ UNCHANGED <<op, wasPaused>>
Return == main' = "idle" /\ op' = "none" /\ UNCHANGED wasPaused

\* A call that finds started FALSE does without the mutex, and the emulator
\* thread may be alive all the same: startEmulation creates it before it sets
\* started.  What the call does then slips past the thread when the thread holds
\* the mutex, about to sleep or to go on.
Slips(reallyDone) == slipped' = (slipped \/ (reallyDone /\ mutex = Emu))

\* if (started) lock
LockIfStarted(at, next) ==
    /\ main = at
    /\ started => mutex = "free"
    /\ mutex' = IF started THEN Main ELSE mutex
    /\ MainGoes(next)
    /\ UNCHANGED <<started, stop, paused, isThreadReallyPaused, signalled, emu, launch, job,
                   appVars, slipped>>

PauseLock == LockIfStarted("pauseLock", "pauseSet")
ResumeLock == LockIfStarted("resumeLock", "resumeSet")

PauseSet ==
    /\ main = "pauseSet"
    /\ paused' = (paused \/ ~ stop)
    /\ Slips(~ stop)
    /\ MainGoes("pauseUnlock")
    /\ UNCHANGED <<started, stop, isThreadReallyPaused, mutex, signalled, emu, launch, job, appVars>>

\* Mutant of ResumeSet: no broadcast.
ResumeWithoutBroadcast ==
    /\ main = "resumeSet"
    /\ paused' = (paused /\ stop)
    /\ Slips(~ stop)
    /\ MainGoes("resumeUnlock")
    /\ UNCHANGED <<started, stop, isThreadReallyPaused, mutex, signalled, emu, launch, job, appVars>>

\* started is read again for the broadcast: without it a waiting thread is not
\* told.
ResumeSet ==
    /\ main = "resumeSet"
    /\ paused' = (paused /\ stop)
    /\ signalled' = (signalled \/ (started /\ ~ stop /\ emu = "waiting"))
    /\ slipped' = (slipped \/ (~ stop /\ (mutex = Emu \/ (~ started /\ emu = "waiting"))))
    /\ MainGoes("resumeUnlock")
    /\ UNCHANGED <<started, stop, isThreadReallyPaused, mutex, emu, launch, job, appVars>>

\* started is read once more for the unlock; a normal mutex is freed whoever
\* holds it.
Unlock ==
    /\ main \in {"pauseUnlock", "resumeUnlock"}
    /\ mutex' = IF started THEN "free" ELSE mutex
    /\ Slips(started)
    /\ IF main = "pauseUnlock" /\ op \in {"reset", "rewind"} THEN MainGoes("spin") /\ UNCHANGED job
       ELSE Return /\ job' = IF job = "pausing" THEN "queued" ELSE job
    /\ UNCHANGED <<started, stop, paused, isThreadReallyPaused, signalled, emu, launch, appVars>>

\* The common head of resetEmulation and loadRewindState.  They take the
\* mutex without asking whether it exists; Android's libc aborts the process
\* when it has been destroyed.
Lock ==
    /\ main = "lock"
    /\ \/ /\ mutex = "destroyed"
          /\ MainGoes("crashed")
       \/ /\ mutex \in {"free", "none"}
          /\ stop
          /\ Return
       \/ /\ mutex \in {"free", "none"}
          /\ ~ stop
          /\ wasPaused' = paused
          /\ main' = IF paused THEN "spin" ELSE "pauseLock"
          /\ UNCHANGED op
    /\ UNCHANGED <<flags, emu, launch, job, appVars, slipped>>

\* Mutant of Spin: no wait.
SpinNotAtAll ==
    /\ main = "spin"
    /\ MainGoes("inMachine")
    /\ UNCHANGED <<flags, emu, launch, job, appVars, slipped>>

\* while (!isThreadReallyPaused);
Spin ==
    /\ main = "spin"
    /\ isThreadReallyPaused
    /\ MainGoes("inMachine")
    /\ UNCHANGED <<flags, emu, launch, job, appVars, slipped>>

\* The machine has been reset, or the rewind state loaded.
LeaveMachine ==
    /\ main = "inMachine"
    /\ IF op = "reset" \/ ~ wasPaused THEN MainGoes("resumeLock") ELSE Return
    /\ UNCHANGED <<flags, emu, launch, job, appVars, slipped>>

\* stopEmulation: tell the thread to stop, wait for its end, free everything.
StopLock ==
    /\ main = "stopLock"
    /\ \/ /\ started
          /\ mutex = "free"
          /\ stop' = TRUE /\ paused' = FALSE /\ started' = FALSE
          /\ signalled' = (signalled \/ emu = "waiting")
          /\ MainGoes("join")
       \/ /\ ~ started
          /\ MainGoes("cleanup")
          /\ UNCHANGED <<stop, paused, started, signalled>>
    /\ UNCHANGED <<isThreadReallyPaused, mutex, emu, launch, job, appVars, slipped>>

\* Mutant of Join: cleanup does not wait for the thread.
DetachInsteadOfJoin ==
    /\ main = "join"
    /\ MainGoes("cleanup")
    /\ UNCHANGED <<flags, emu, launch, job, appVars, slipped>>

Join ==
    /\ main = "join"
    /\ emu = "exited"
    /\ emu' = "none"
    /\ mutex' = "destroyed"
    /\ slipped' = FALSE
    /\ MainGoes("cleanup")
    /\ UNCHANGED <<started, stop, paused, isThreadReallyPaused, signalled, launch, job, appVars>>

Cleanup ==
    /\ main = "cleanup"
    /\ instance' = FALSE
    /\ Return
    /\ UNCHANGED <<flags, emu, launch, job, menu, state, launches, slipped>>

JniNext == PauseLock \/ PauseSet \/ ResumeLock \/ ResumeSet \/ Unlock \/ Lock \/ Spin
           \/ LeaveMachine \/ StopLock \/ Join \/ Cleanup

-----------------------------------------------------------------------------
(* The user interface decides on the next call, when the last has returned.*)

Call(name, at) ==
    /\ main = "idle"
    /\ main' = at /\ op' = name
    /\ UNCHANGED <<wasPaused, flags, emu, launch, slipped>>

Running == state = "running"

\* The activity's lifecycle pauses and resumes whatever emulatorState is, a game
\* that is being loaded included; the pause button does so with a menu once a
\* game runs.
Pause(withMenu) ==
    /\ Call("pause", "pauseLock")
    /\ menu' = (menu \/ (withMenu /\ Running))
    /\ UNCHANGED <<job, state, instance, launches>>

Resume ==
    /\ Call("resume", "resumeLock")
    /\ menu' = FALSE
    /\ UNCHANGED <<job, state, instance, launches>>

Reset == Running /\ Call("reset", "lock") /\ menu' = FALSE /\ UNCHANGED <<job, state, instance, launches>>

Rewind == Running /\ Call("rewind", "lock") /\ UNCHANGED <<job, appVars>>

\* Stopping leaves emulatorState as it is until a new game is launched.
Stop == Running /\ Call("stop", "stopLock") /\ UNCHANGED <<job, appVars>>

\* Quick save and quick load pause first; the slots of the pause menu count on
\* the pause that opened the menu.
QuickState ==
    /\ Running /\ job = "idle"
    /\ Call("pause", "pauseLock")
    /\ job' = "pausing"
    /\ UNCHANGED appVars

SlotState ==
    /\ Running /\ menu /\ job = "idle" /\ main = "idle"
    /\ job' = "queued"
    /\ menu' = FALSE
    /\ UNCHANGED <<flags, emu, mainVars, launch, state, instance, launches, slipped>>

ResumeAfterState ==
    /\ job = "resuming"
    /\ Call("resume", "resumeLock")
    /\ job' = "idle"
    /\ UNCHANGED appVars

UiNext == (\E withMenu \in BOOLEAN : Pause(withMenu)) \/ Resume \/ Reset \/ Rewind \/ Stop
          \/ QuickState \/ SlotState \/ ResumeAfterState

-----------------------------------------------------------------------------
(* The save state worker: the machine is read or written as the call comes.*)

StateEnter ==
    /\ job = "queued"
    /\ job' = IF instance THEN "inMachine" ELSE "crashed"
    /\ UNCHANGED <<flags, emu, mainVars, launch, appVars, slipped>>

StateLeave ==
    /\ job \in {"inMachine", "orphan"}
    /\ job' = IF job = "inMachine" THEN "resuming" ELSE "idle"
    /\ UNCHANGED <<flags, emu, mainVars, launch, appVars, slipped>>

-----------------------------------------------------------------------------
(* Launching a game: the main thread starts it, a worker does it.          *)

\* A game that runs is stopped before another is launched; what is left of one
\* that failed to load is not.  The coroutines of the last session are
\* cancelled: a native save state call under way goes on, but nothing follows it.
Launch ==
    /\ main = "idle" /\ launch = "idle"
    /\ ~ started /\ launches < MaxLaunches
    /\ launch' = "setup" /\ state' = "loading" /\ launches' = launches + 1 /\ menu' = FALSE
    /\ job' = CASE job \in {"inMachine", "orphan"} -> "orphan"
                 [] job = "crashed" -> "crashed"
                 [] OTHER -> "idle"
    /\ UNCHANGED <<flags, emu, mainVars, instance, slipped>>

\* A ROM whose file is gone or not supported fails before anything is set up.
\* Otherwise the machine is replaced: by none if its BIOS, firmware or NAND
\* cannot be had, which nobody is told.
SetupEmulator ==
    /\ launch = "setup"
    /\ \/ launch' = "failed" /\ UNCHANGED <<instance, paused>>
       \/ launch' = "load" /\ instance' \in BOOLEAN /\ paused' = FALSE
    /\ UNCHANGED <<started, stop, isThreadReallyPaused, mutex, signalled, emu, mainVars,
                   job, menu, state, launches, slipped>>

\* A save file that cannot be had is the end of the launch, and the machine
\* stays.  A ROM that does not load is followed by stopEmulation on the worker,
\* where started is still FALSE: only the machine is freed.  Without a machine
\* the load follows a null pointer.
LoadRom ==
    /\ launch = "load"
    /\ \/ launch' = "failed" /\ UNCHANGED instance
       \/ ~ instance /\ launch' = "crashed" /\ UNCHANGED instance
       \/ instance /\ launch' = "failed" /\ instance' = FALSE
       \/ instance /\ launch' = "create" /\ UNCHANGED instance
    /\ UNCHANGED <<flags, emu, mainVars, job, menu, state, launches, slipped>>

\* startEmulation, up to pthread_create.
CreateThread ==
    /\ launch = "create"
    /\ stop' = FALSE
    /\ isThreadReallyPaused' = FALSE
    /\ mutex' = "free" /\ signalled' = FALSE
    /\ emu' = "starting"
    /\ launch' = "created"
    /\ UNCHANGED <<started, paused, mainVars, job, appVars, slipped>>

SetStarted ==
    /\ launch = "created"
    /\ started' = TRUE
    /\ launch' = "done"
    /\ UNCHANGED <<stop, paused, isThreadReallyPaused, mutex, signalled, emu, mainVars, job,
                   appVars, slipped>>

\* The coroutine goes on, on the main thread.
Launched ==
    /\ main = "idle"
    /\ launch \in {"done", "failed"}
    /\ state' = IF launch = "done" THEN "running" ELSE "failed"
    /\ launch' = "idle"
    /\ UNCHANGED <<flags, emu, mainVars, job, menu, instance, launches, slipped>>

LaunchNext == Launch \/ SetupEmulator \/ LoadRom \/ CreateThread \/ SetStarted \/ Launched

-----------------------------------------------------------------------------
JobNext == StateEnter \/ StateLeave

Next == EmuNext \/ JniNext \/ UiNext \/ JobNext \/ LaunchNext

Spec == Init /\ [][Next]_vars

\* Threads that can run do run, each frame ends, a thread that waits for the
\* mutex gets it in the end, and a spuriously woken or never woken thread may
\* sleep for ever: WakeUp is owed only to a signal.  Nothing obliges the user to
\* do anything but answer a finished save state.
Fairness ==
    /\ WF_vars(Start \/ Recheck \/ Sleep \/ LeavePause \/ EndFrame \/ Exit)
    /\ SF_vars(CheckPaused \/ (signalled /\ WakeUp))
    /\ SF_vars(PauseLock \/ ResumeLock \/ Lock \/ StopLock)
    /\ WF_vars(JniNext)
    /\ WF_vars(JobNext)
    /\ WF_vars(SetupEmulator \/ LoadRom \/ CreateThread \/ SetStarted)
    /\ WF_vars(Launched)

FairSpec == Spec /\ Fairness
-----------------------------------------------------------------------------
\* Where emulate() is inside the machine: starting it, running a frame, or
\* stopping it.
EmuInMachine == emu \in {"starting", "inFrame", "stopping"}

\* resetEmulation and loadRewindState touch the machine only while the emulator
\* thread does not: the thread they waited for is still parked when they enter,
\* and nothing lets it go before they leave.  So it is until a call slips past
\* the thread.
MachineExclusive == main = "inMachine" /\ ~ slipped => ~ EmuInMachine

\* Nobody runs, resets or rewinds a machine that stopEmulation has freed, or one
\* that a game being launched has not set up yet, whatever slips past the thread.
MachineAlive == EmuInMachine \/ main = "inMachine" => instance

\* No call of the user interface blocks the main thread for ever: the mutex is
\* always given back, a thread told to park parks, a thread told to stop ends,
\* unless a call slipped past it.
CallsReturn == (main # "idle") ~> (main \in {"idle", "crashed"} \/ slipped)

\* A started game that is not paused any more does run: the wake-up that
\* resumeEmulation sends to the parked thread is not lost, unless it slips past
\* the thread.
ResumedRuns ==
    (started /\ Running /\ main = "idle" /\ ~ paused)
        ~> (emu = "inFrame" \/ paused \/ stop \/ main = "crashed" \/ slipped)

\* 'Make sure that the thread is really paused to avoid data corruption', say
\* resetEmulation and loadRewindState of their wait.
ReallyPaused == main = "inMachine" => ~ EmuInMachine
=============================================================================
