----------------------- MODULE EmulatorThread_proofs -----------------------
(***************************************************************************)
(* Proofs about EmulatorThread, for any number of games, with pauses and   *)
(* resumes at any time.  The machine is safe because of what the mutex,    *)
(* the flags and the places of the threads say about each other:           *)
(* Bookkeeping, which is weaker once a call has slipped past the emulator  *)
(* thread; and because a game is always in one of four phases of its life: *)
(* LifeCycle.                                                              *)
(***************************************************************************)
EXTENDS EmulatorThread, TLAPS

EmuBetweenStartAndStop ==
    {"starting", "running", "parking", "asleep", "waiting", "leaving", "inFrame"}

\* Where emulate() has the mutex.
EmuHolding == {"parking", "asleep", "leaving"}

\* Where the main thread is in pauseEmulation or resumeEmulation.
Lifecycle == {"pauseLock", "pauseSet", "pauseUnlock", "resumeLock", "resumeSet", "resumeUnlock"}

\* No thread: none has been created yet, or it has been joined.  A call that is
\* made all the same finds a destroyed mutex, and gets no further than that.
Dead ==
    /\ ~ started /\ emu = "none" /\ ~ slipped
    /\ mutex \in {"none", "destroyed"}
    /\ state = "running" => mutex = "destroyed"
    /\ launch \in {"idle", "setup", "load", "create", "failed", "crashed"}
    /\ launch = "create" => instance
    /\ main \notin {"join", "spin", "inMachine"}
    /\ op \in {"reset", "rewind"} => main \in {"lock", "crashed"}

\* The thread has been created and started is not set yet.
Beginning ==
    /\ ~ started /\ ~ stop /\ instance
    /\ emu \in EmuBetweenStartAndStop
    /\ mutex \in {"free", Emu}
    /\ launch = "created"

Alive ==
    /\ started /\ ~ stop /\ instance
    /\ emu \in EmuBetweenStartAndStop
    /\ mutex \in {"free", Emu, Main}
    /\ launch \in {"idle", "done"}
    /\ main \notin {"join", "cleanup", "crashed"}

\* The thread has been told to stop and is being waited for.
Ending ==
    /\ ~ started /\ stop /\ instance
    /\ emu # "none"
    /\ mutex \in {"free", Emu}
    /\ main = "join"
    /\ launch = "idle"

LifeCycle == Dead \/ Beginning \/ Alive \/ Ending

Bookkeeping ==
    /\ mutex = Emu => emu \in EmuHolding
    /\ emu \in EmuHolding /\ ~ slipped => mutex = Emu
    /\ mutex = Main => started /\ main \in Lifecycle
    /\ isThreadReallyPaused <=> emu \in EmuHolding \cup {"waiting"}
    /\ emu = "leaving" /\ ~ slipped => ~ paused \/ stop

\* While a game loads it is only paused and resumed, a reset or a rewind has the
\* machine paused, and the thread is parked before it is touched.
Calls ==
    /\ launch # "idle" <=> state = "loading"
    /\ launch # "idle" => main = "idle" \/ (main \in Lifecycle /\ op \in {"pause", "resume"})
    /\ op \in {"reset", "rewind"} => state = "running"
    /\ job \in {"pausing", "queued", "inMachine", "resuming"} => state = "running"
    /\ main \in {"spin", "inMachine"} => paused /\ op \in {"reset", "rewind"}
    /\ main = "pauseUnlock" /\ op \in {"reset", "rewind"} => paused
    /\ main = "inMachine" /\ ~ slipped => emu \in {"parking", "asleep", "waiting"}
    /\ main = "lock" => op \in {"reset", "rewind"}
    /\ main \in {"stopLock", "join", "cleanup"} => op = "stop"

IInv == TypeOK /\ LifeCycle /\ Bookkeeping /\ Calls
-----------------------------------------------------------------------------
LEMMA InitEstablishes == Init => IInv
<1> SUFFICES ASSUME Init PROVE IInv
  OBVIOUS
<1>1. TypeOK
  BY DEF Init, TypeOK, EmuStates, MainStates
<1>2. LifeCycle
  BY DEF Init, LifeCycle, Dead
<1>3. Bookkeeping
  BY DEF Init, Bookkeeping, EmuHolding, Emu, Main
<1>4. Calls
  BY DEF Init, Calls
<1> QED BY <1>1, <1>2, <1>3, <1>4 DEF IInv

\* emulate()
LEMMA EmuNextKeeps ==
    ASSUME IInv, EmuNext
    PROVE  IInv'
<1> USE DEF IInv, TypeOK, EmuStates, MainStates, Emu, Main, LifeCycle, Dead, Beginning, Alive, Ending,
           EmuBetweenStartAndStop, EmuHolding, Lifecycle, Bookkeeping, Calls, vars, flags, mainVars, appVars,
           EmuGoes
<1>1. CASE Start
  <2>1. TypeOK'
    BY <1>1 DEF Start
  <2>2. LifeCycle'
    BY <1>1 DEF Start
  <2>3. Bookkeeping'
    BY <1>1 DEF Start
  <2>4. Calls'
    BY <1>1 DEF Start
  <2> QED BY <2>1, <2>2, <2>3, <2>4
<1>2. CASE CheckPaused
  <2>1. TypeOK'
    <3>1. /\ emu' \in EmuStates
          /\ mutex' \in {"free", Emu}
          /\ isThreadReallyPaused' \in BOOLEAN
      BY <1>2 DEF CheckPaused
    <3>2. UNCHANGED <<started, stop, paused, signalled, mainVars, launch, job, appVars, slipped>>
      BY <1>2 DEF CheckPaused
    <3> QED BY <3>1, <3>2
  <2>2. LifeCycle'
    BY <1>2 DEF CheckPaused
  <2>3. Bookkeeping'
    BY <1>2 DEF CheckPaused
  <2>4. Calls'
    BY <1>2 DEF CheckPaused
  <2> QED BY <2>1, <2>2, <2>3, <2>4
<1>3. CASE Recheck
  <2>1. TypeOK'
    BY <1>3 DEF Recheck
  <2>2. LifeCycle'
    BY <1>3 DEF Recheck
  <2>3. Bookkeeping'
    BY <1>3 DEF Recheck
  <2>4. Calls'
    BY <1>3 DEF Recheck
  <2> QED BY <2>1, <2>2, <2>3, <2>4
<1>4. CASE Sleep
  <2>1. TypeOK'
    <3>1. /\ emu' \in EmuStates
          /\ mutex' = "free"
          /\ signalled' \in BOOLEAN
      BY <1>4 DEF Sleep
    <3>2. UNCHANGED <<started, stop, paused, isThreadReallyPaused, mainVars, launch, job, appVars, slipped>>
      BY <1>4 DEF Sleep
    <3> QED BY <3>1, <3>2
  <2>2. LifeCycle'
    BY <1>4 DEF Sleep
  <2>3. Bookkeeping'
    BY <1>4 DEF Sleep
  <2>4. Calls'
    BY <1>4 DEF Sleep
  <2> QED BY <2>1, <2>2, <2>3, <2>4
<1>5. CASE WakeUp
  <2>1. TypeOK'
    <3>1. /\ emu' \in EmuStates
          /\ mutex' = Emu
          /\ signalled' \in BOOLEAN
      BY <1>5 DEF WakeUp
    <3>2. UNCHANGED <<started, stop, paused, isThreadReallyPaused, mainVars, launch, job, appVars, slipped>>
      BY <1>5 DEF WakeUp
    <3> QED BY <3>1, <3>2
  <2>2. LifeCycle'
    BY <1>5 DEF WakeUp
  <2>3. Bookkeeping'
    BY <1>5 DEF WakeUp
  <2>4. Calls'
    BY <1>5 DEF WakeUp
  <2> QED BY <2>1, <2>2, <2>3, <2>4
<1>6. CASE LeavePause
  <2>1. TypeOK'
    <3>1. /\ emu' \in EmuStates
          /\ mutex' = "free"
          /\ isThreadReallyPaused' \in BOOLEAN
      BY <1>6 DEF LeavePause
    <3>2. UNCHANGED <<started, stop, paused, signalled, mainVars, launch, job, appVars>>
      BY <1>6 DEF LeavePause
    <3>3. slipped' \in BOOLEAN
      BY <1>6 DEF LeavePause
    <3> QED BY <3>1, <3>2, <3>3
  <2>2. LifeCycle'
    BY <1>6 DEF LeavePause
  <2>3. Bookkeeping'
    BY <1>6 DEF LeavePause
  <2>4. Calls'
    BY <1>6 DEF LeavePause
  <2> QED BY <2>1, <2>2, <2>3, <2>4
<1>7. CASE EndFrame
  <2>1. TypeOK'
    BY <1>7 DEF EndFrame
  <2>2. LifeCycle'
    BY <1>7 DEF EndFrame
  <2>3. Bookkeeping'
    BY <1>7 DEF EndFrame
  <2>4. Calls'
    BY <1>7 DEF EndFrame
  <2> QED BY <2>1, <2>2, <2>3, <2>4
<1>8. CASE Exit
  <2>1. TypeOK'
    BY <1>8 DEF Exit
  <2>2. LifeCycle'
    BY <1>8 DEF Exit
  <2>3. Bookkeeping'
    BY <1>8 DEF Exit
  <2>4. Calls'
    BY <1>8 DEF Exit
  <2> QED BY <2>1, <2>2, <2>3, <2>4
<1> QED BY <1>1, <1>2, <1>3, <1>4, <1>5, <1>6, <1>7, <1>8 DEF EmuNext

\* The JNI calls of the main thread.
LEMMA JniNextKeeps ==
    ASSUME IInv, JniNext
    PROVE  IInv'
<1> USE DEF IInv, TypeOK, EmuStates, MainStates, Emu, Main, LifeCycle, Dead, Beginning, Alive, Ending,
           EmuBetweenStartAndStop, EmuHolding, Lifecycle, Bookkeeping, Calls, vars, flags, mainVars, appVars,
           MainGoes, Return
<1>1. CASE PauseLock
  <2>1. TypeOK'
    BY <1>1 DEF PauseLock, LockIfStarted
  <2>2. LifeCycle'
    BY <1>1 DEF PauseLock, LockIfStarted
  <2>3. Bookkeeping'
    BY <1>1 DEF PauseLock, LockIfStarted
  <2>4. Calls'
    BY <1>1 DEF PauseLock, LockIfStarted
  <2> QED BY <2>1, <2>2, <2>3, <2>4
<1>2. CASE PauseSet
  <2>1. TypeOK'
    BY <1>2 DEF PauseSet, Slips
  <2>2. LifeCycle'
    BY <1>2 DEF PauseSet, Slips
  <2>3. Bookkeeping'
    BY <1>2 DEF PauseSet, Slips
  <2>4. Calls'
    BY <1>2 DEF PauseSet, Slips
  <2> QED BY <2>1, <2>2, <2>3, <2>4
<1>3. CASE ResumeLock
  <2>1. TypeOK'
    BY <1>3 DEF ResumeLock, LockIfStarted
  <2>2. LifeCycle'
    BY <1>3 DEF ResumeLock, LockIfStarted
  <2>3. Bookkeeping'
    BY <1>3 DEF ResumeLock, LockIfStarted
  <2>4. Calls'
    BY <1>3 DEF ResumeLock, LockIfStarted
  <2> QED BY <2>1, <2>2, <2>3, <2>4
<1>4. CASE ResumeSet
  <2>1. TypeOK'
    BY <1>4 DEF ResumeSet
  <2>2. LifeCycle'
    BY <1>4 DEF ResumeSet
  <2>3. Bookkeeping'
    BY <1>4 DEF ResumeSet
  <2>4. Calls'
    BY <1>4 DEF ResumeSet
  <2> QED BY <2>1, <2>2, <2>3, <2>4
<1>5. CASE Unlock
  <2>1. TypeOK'
    BY <1>5 DEF Unlock, Slips
  <2>2. LifeCycle'
    BY <1>5 DEF Unlock, Slips
  <2>3. Bookkeeping'
    BY <1>5 DEF Unlock, Slips
  <2>4. Calls'
    BY <1>5 DEF Unlock, Slips
  <2> QED BY <2>1, <2>2, <2>3, <2>4
<1>6. CASE Lock
  <2>1. TypeOK'
    BY <1>6 DEF Lock
  <2>2. LifeCycle'
    BY <1>6 DEF Lock
  <2>3. Bookkeeping'
    BY <1>6 DEF Lock
  <2>4. Calls'
    BY <1>6 DEF Lock
  <2> QED BY <2>1, <2>2, <2>3, <2>4
<1>7. CASE Spin
  <2>1. TypeOK'
    BY <1>7 DEF Spin
  <2>2. LifeCycle'
    BY <1>7 DEF Spin
  <2>3. Bookkeeping'
    BY <1>7 DEF Spin
  <2>4. Calls'
    BY <1>7 DEF Spin
  <2> QED BY <2>1, <2>2, <2>3, <2>4
<1>8. CASE LeaveMachine
  <2>1. TypeOK'
    BY <1>8 DEF LeaveMachine
  <2>2. LifeCycle'
    BY <1>8 DEF LeaveMachine
  <2>3. Bookkeeping'
    BY <1>8 DEF LeaveMachine
  <2>4. Calls'
    BY <1>8 DEF LeaveMachine
  <2> QED BY <2>1, <2>2, <2>3, <2>4
<1>9. CASE StopLock
  <2>1. TypeOK'
    <3>1. /\ started' \in BOOLEAN
          /\ stop' \in BOOLEAN
          /\ paused' \in BOOLEAN
          /\ signalled' \in BOOLEAN
          /\ main' \in {"join", "cleanup"}
          /\ op # "none"
      BY <1>9 DEF StopLock
    <3>2. UNCHANGED <<op, wasPaused, isThreadReallyPaused, mutex, emu, launch, job, appVars, slipped>>
      BY <1>9 DEF StopLock
    <3> QED BY <3>1, <3>2
  <2>2. LifeCycle'
    BY <1>9 DEF StopLock
  <2>3. Bookkeeping'
    BY <1>9 DEF StopLock
  <2>4. Calls'
    BY <1>9 DEF StopLock
  <2> QED BY <2>1, <2>2, <2>3, <2>4
<1>10. CASE Join
  <2>1. TypeOK'
    BY <1>10 DEF Join
  <2>2. LifeCycle'
    BY <1>10 DEF Join
  <2>3. Bookkeeping'
    BY <1>10 DEF Join
  <2>4. Calls'
    BY <1>10 DEF Join
  <2> QED BY <2>1, <2>2, <2>3, <2>4
<1>11. CASE Cleanup
  <2>1. TypeOK'
    BY <1>11, ZenonT(30) DEF Cleanup
  <2>2. LifeCycle'
    BY <1>11 DEF Cleanup
  <2>3. Bookkeeping'
    BY <1>11 DEF Cleanup
  <2>4. Calls'
    BY <1>11 DEF Cleanup
  <2> QED BY <2>1, <2>2, <2>3, <2>4
<1> QED BY <1>1, <1>2, <1>3, <1>4, <1>5, <1>6, <1>7, <1>8, <1>9, <1>10, <1>11 DEF JniNext

\* The user interface makes a call.
LEMMA UiNextKeeps ==
    ASSUME IInv, UiNext
    PROVE  IInv'
<1> USE DEF IInv, TypeOK, EmuStates, MainStates, Emu, Main, LifeCycle, Dead, Beginning, Alive, Ending,
           EmuBetweenStartAndStop, EmuHolding, Lifecycle, Bookkeeping, Calls, vars, flags, mainVars, appVars,
           Call, Running
<1>1. CASE \E withMenu \in BOOLEAN : Pause(withMenu)
  <2>1. TypeOK'
    BY <1>1 DEF Pause
  <2>2. LifeCycle'
    BY <1>1 DEF Pause
  <2>3. Bookkeeping'
    BY <1>1 DEF Pause
  <2>4. Calls'
    BY <1>1 DEF Pause
  <2> QED BY <2>1, <2>2, <2>3, <2>4
<1>2. CASE Resume
  <2>1. TypeOK'
    <3>1. /\ main' = "resumeLock" /\ op' = "resume"
          /\ menu' \in BOOLEAN
      BY <1>2 DEF Resume
    <3>2. UNCHANGED <<flags, emu, wasPaused, launch, job, state, instance, launches, slipped>>
      BY <1>2 DEF Resume
    <3> QED BY <3>1, <3>2
  <2>2. LifeCycle'
    BY <1>2 DEF Resume
  <2>3. Bookkeeping'
    BY <1>2 DEF Resume
  <2>4. Calls'
    BY <1>2 DEF Resume
  <2> QED BY <2>1, <2>2, <2>3, <2>4
<1>3. CASE Reset
  <2>1. TypeOK'
    BY <1>3, ZenonT(30) DEF Reset
  <2>2. LifeCycle'
    BY <1>3 DEF Reset
  <2>3. Bookkeeping'
    BY <1>3 DEF Reset
  <2>4. Calls'
    BY <1>3 DEF Reset
  <2> QED BY <2>1, <2>2, <2>3, <2>4
<1>4. CASE Rewind
  <2>1. TypeOK'
    BY <1>4 DEF Rewind
  <2>2. LifeCycle'
    BY <1>4 DEF Rewind
  <2>3. Bookkeeping'
    BY <1>4 DEF Rewind
  <2>4. Calls'
    BY <1>4 DEF Rewind
  <2> QED BY <2>1, <2>2, <2>3, <2>4
<1>5. CASE Stop
  <2>1. TypeOK'
    BY <1>5 DEF Stop
  <2>2. LifeCycle'
    BY <1>5 DEF Stop
  <2>3. Bookkeeping'
    BY <1>5 DEF Stop
  <2>4. Calls'
    BY <1>5 DEF Stop
  <2> QED BY <2>1, <2>2, <2>3, <2>4
<1>6. CASE QuickState
  <2>1. TypeOK'
    BY <1>6 DEF QuickState
  <2>2. LifeCycle'
    BY <1>6 DEF QuickState
  <2>3. Bookkeeping'
    BY <1>6 DEF QuickState
  <2>4. Calls'
    BY <1>6 DEF QuickState
  <2> QED BY <2>1, <2>2, <2>3, <2>4
<1>7. CASE SlotState
  <2>1. TypeOK'
    BY <1>7 DEF SlotState
  <2>2. LifeCycle'
    BY <1>7 DEF SlotState
  <2>3. Bookkeeping'
    BY <1>7 DEF SlotState
  <2>4. Calls'
    BY <1>7 DEF SlotState
  <2> QED BY <2>1, <2>2, <2>3, <2>4
<1>8. CASE ResumeAfterState
  <2>1. TypeOK'
    BY <1>8 DEF ResumeAfterState
  <2>2. LifeCycle'
    BY <1>8 DEF ResumeAfterState
  <2>3. Bookkeeping'
    BY <1>8 DEF ResumeAfterState
  <2>4. Calls'
    BY <1>8 DEF ResumeAfterState
  <2> QED BY <2>1, <2>2, <2>3, <2>4
<1> QED BY <1>1, <1>2, <1>3, <1>4, <1>5, <1>6, <1>7, <1>8 DEF UiNext

\* A game is launched.
LEMMA LaunchNextKeeps ==
    ASSUME IInv, LaunchNext
    PROVE  IInv'
<1> USE DEF IInv, TypeOK, EmuStates, MainStates, Emu, Main, LifeCycle, Dead, Beginning, Alive, Ending,
           EmuBetweenStartAndStop, EmuHolding, Lifecycle, Bookkeeping, Calls, vars, flags, mainVars, appVars
<1>1. CASE Launch
  <2>1. TypeOK'
    <3>1. /\ launch' = "setup" /\ state' = "loading" /\ menu' \in BOOLEAN
          /\ job' \in {"orphan", "crashed", "idle"}
      BY <1>1 DEF Launch
    <3>2. UNCHANGED <<flags, emu, mainVars, instance, slipped>>
      BY <1>1 DEF Launch
    <3>3. launches' \in Nat
      <4>1. launches \in Nat /\ launches' = launches + 1
        BY <1>1 DEF Launch
      <4> QED BY <4>1
    <3> QED BY <3>1, <3>2, <3>3
  <2>2. LifeCycle'
    BY <1>1 DEF Launch
  <2>3. Bookkeeping'
    BY <1>1 DEF Launch
  <2>4. Calls'
    BY <1>1 DEF Launch
  <2> QED BY <2>1, <2>2, <2>3, <2>4
<1>2. CASE SetupEmulator
  <2>1. TypeOK'
    <3>1. /\ launch' \in {"failed", "load"}
          /\ instance' \in BOOLEAN /\ paused' \in BOOLEAN
      BY <1>2 DEF SetupEmulator
    <3>2. UNCHANGED <<started, stop, isThreadReallyPaused, mutex, signalled, emu, mainVars, job, menu, state, launches, slipped>>
      BY <1>2 DEF SetupEmulator
    <3> QED BY <3>1, <3>2
  <2>2. LifeCycle'
    BY <1>2 DEF SetupEmulator
  <2>3. Bookkeeping'
    BY <1>2 DEF SetupEmulator
  <2>4. Calls'
    BY <1>2 DEF SetupEmulator
  <2> QED BY <2>1, <2>2, <2>3, <2>4
<1>3. CASE LoadRom
  <2>1. TypeOK'
    <3>1. /\ launch' \in {"failed", "crashed", "create"}
          /\ instance' \in BOOLEAN
      BY <1>3 DEF LoadRom
    <3>2. UNCHANGED <<flags, emu, mainVars, job, menu, state, launches, slipped>>
      BY <1>3 DEF LoadRom
    <3> QED BY <3>1, <3>2
  <2>2. LifeCycle'
    BY <1>3 DEF LoadRom
  <2>3. Bookkeeping'
    BY <1>3 DEF LoadRom
  <2>4. Calls'
    BY <1>3 DEF LoadRom
  <2> QED BY <2>1, <2>2, <2>3, <2>4
<1>4. CASE CreateThread
  <2>1. TypeOK'
    BY <1>4 DEF CreateThread
  <2>2. LifeCycle'
    BY <1>4 DEF CreateThread
  <2>3. Bookkeeping'
    BY <1>4 DEF CreateThread
  <2>4. Calls'
    BY <1>4 DEF CreateThread
  <2> QED BY <2>1, <2>2, <2>3, <2>4
<1>5. CASE SetStarted
  <2>1. TypeOK'
    BY <1>5 DEF SetStarted
  <2>2. LifeCycle'
    BY <1>5 DEF SetStarted
  <2>3. Bookkeeping'
    BY <1>5 DEF SetStarted
  <2>4. Calls'
    BY <1>5 DEF SetStarted
  <2> QED BY <2>1, <2>2, <2>3, <2>4
<1>6. CASE Launched
  <2>1. TypeOK'
    BY <1>6 DEF Launched
  <2>2. LifeCycle'
    BY <1>6 DEF Launched
  <2>3. Bookkeeping'
    BY <1>6 DEF Launched
  <2>4. Calls'
    BY <1>6 DEF Launched
  <2> QED BY <2>1, <2>2, <2>3, <2>4
<1> QED BY <1>1, <1>2, <1>3, <1>4, <1>5, <1>6 DEF LaunchNext

\* The save state worker.
LEMMA JobNextKeeps ==
    ASSUME IInv, JobNext
    PROVE  IInv'
<1> USE DEF IInv, TypeOK, EmuStates, MainStates, Emu, Main, LifeCycle, Dead, Beginning, Alive, Ending,
           EmuBetweenStartAndStop, EmuHolding, Lifecycle, Bookkeeping, Calls, vars, flags, mainVars, appVars
<1>1. CASE StateEnter
  <2>1. TypeOK'
    BY <1>1 DEF StateEnter
  <2>2. LifeCycle'
    BY <1>1 DEF StateEnter
  <2>3. Bookkeeping'
    BY <1>1 DEF StateEnter
  <2>4. Calls'
    BY <1>1 DEF StateEnter
  <2> QED BY <2>1, <2>2, <2>3, <2>4
<1>2. CASE StateLeave
  <2>1. TypeOK'
    BY <1>2 DEF StateLeave
  <2>2. LifeCycle'
    BY <1>2 DEF StateLeave
  <2>3. Bookkeeping'
    BY <1>2 DEF StateLeave
  <2>4. Calls'
    BY <1>2 DEF StateLeave
  <2> QED BY <2>1, <2>2, <2>3, <2>4
<1> QED BY <1>1, <1>2 DEF JobNext

LEMMA StutterKeeps ==
    ASSUME IInv, UNCHANGED vars
    PROVE  IInv'
<1> USE DEF vars, flags, mainVars, appVars, IInv
<1>1. TypeOK'
  BY DEF TypeOK
<1>2. LifeCycle'
  BY DEF LifeCycle, Dead, Beginning, Alive, Ending
<1>3. Bookkeeping'
  BY DEF Bookkeeping
<1>4. Calls'
  BY DEF Calls
<1> QED BY <1>1, <1>2, <1>3, <1>4

LEMMA InvariantHolds == Spec => []IInv
<1>1. IInv /\ [Next]_vars => IInv'
  BY EmuNextKeeps, JniNextKeeps, UiNextKeeps, LaunchNextKeeps, JobNextKeeps, StutterKeeps DEF Next
<1> QED BY <1>1, InitEstablishes, PTL DEF Spec

-----------------------------------------------------------------------------
(* The theorems.                                                           *)

\* Types, for any number of games launched.
THEOREM TypeCorrect == Spec => []TypeOK
<1>1. IInv => TypeOK
  BY DEF IInv
<1> QED BY <1>1, InvariantHolds, PTL

\* While resetEmulation or loadRewindState is in the machine, emulate() is not: the
\* flags they look at are enough, with pauses and resumes at any time, until one
\* of these slips past the thread while startEmulation has not said it exists.
THEOREM ResetHasMachineToItself == Spec => []MachineExclusive
<1>1. IInv => MachineExclusive
  BY DEF IInv, Calls, MachineExclusive, EmuInMachine
<1> QED BY <1>1, InvariantHolds, PTL

\* stopEmulation never frees a machine that emulate(), a reset or a rewind is in,
\* and a launch never replaces one, whatever is called while a game loads.
THEOREM MachineIsAlive == Spec => []MachineAlive
<1>1. IInv => MachineAlive
  BY DEF IInv, LifeCycle, Dead, Beginning, Alive, Ending, Calls, MachineAlive, EmuInMachine
<1> QED BY <1>1, InvariantHolds, PTL
=============================================================================
