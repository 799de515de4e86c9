------------------------------ MODULE Scheduler ------------------------------
(***************************************************************************)
(* The clock of the console core (NDS.cpp): RunFrame lets the two CPUs run *)
(* in turns of a few cycles, then runs the events that have come due, until*)
(* the LCD's events have gone through all lines of a frame; a console that *)
(* sleeps jumps from one event of the clock chip or of the sound unit to   *)
(* the next.                                                               *)
(*                                                                         *)
(* Times are whole cycles of the system clock.  The ARM9 counts parts of   *)
(* them, but is compared only with whole ones: the parts are why one of    *)
(* its instructions may take none.  A turn stands for instructions, for a  *)
(* DMA transfer and for a stalled geometry FIFO alike.                     *)
(***************************************************************************)
EXTENDS Integers

CONSTANTS
  Others,                  \* numbers of the events that come and go: wifi, transfers, ...
  Period,                  \* the periods of the LCD's lines, the sound unit and the clock chip
  Delays,                  \* delays of the other events
  kMaxIterationCycles, kIterationCycleMargin,
  OVER,                    \* the longest instruction, compiled block or unit of DMA
  LINES,                   \* lines of a frame
  FRAME                    \* cycles of a frame spent asleep (560190)

LCD == 0
SPU == 1
RTC == 3
Events == {LCD, SPU, RTC} \union Others

ASSUME EventsAssumption ==
  /\ Others \subseteq Nat \ {LCD, SPU, RTC}
  /\ Period \in [{LCD, SPU, RTC} -> Nat \ {0}] /\ Delays \subseteq Nat \ {0}
ASSUME CyclesAssumption ==
  /\ kMaxIterationCycles \in Nat \ {0} /\ kIterationCycleMargin \in Nat
  /\ OVER \in Nat \ {0} /\ OVER <= Period[SPU] /\ OVER <= Period[RTC]
  /\ LINES \in Nat \ {0} /\ FRAME \in Nat \ {0}

VARIABLES
  SysTimestamp, ARM9Timestamp, ARM7Timestamp, ARM9Target,
  SchedListMask, Timestamp,        \* the events that are scheduled, and for when
  mask,                            \* what RunSystem has still to look at
  CPUStop,                         \* of its bits, Sleep and Wakeup
  TotalScanlines, line,            \* not 0 when the frame is complete; the line it is at
  frametarget,
  pc,                              \* where RunFrame is
  late,                            \* ghost: events the ARM7 has scheduled for a time that
                                   \* the ARM9 may have passed
  stranded                         \* ghost: a frame has ended with Sleep or Wakeup set

clocks    == <<SysTimestamp, ARM9Timestamp, ARM7Timestamp>>
schedule  == <<SchedListMask, Timestamp, late>>
frameVars == <<TotalScanlines, line, frametarget, stranded>>
vars      == <<clocks, ARM9Target, schedule, mask, CPUStop, frameVars, pc>>

TypeOK ==
  /\ SysTimestamp \in Nat /\ ARM9Timestamp \in Nat /\ ARM7Timestamp \in Nat
  /\ ARM9Target \in Nat /\ frametarget \in Nat
  /\ SchedListMask \subseteq Events /\ {SPU, RTC} \subseteq SchedListMask
  /\ Timestamp \in [Events -> Nat]
  /\ mask \subseteq Events /\ late \subseteq Others
  /\ CPUStop \subseteq {"Sleep", "Wakeup"}
  /\ TotalScanlines \in 0..1 /\ line \in 0..LINES /\ stranded \in BOOLEAN
  /\ pc \in {"out", "top", "slice", "arm9", "arm7", "system", "sleep"}

Init ==
  /\ SysTimestamp = 0 /\ ARM9Timestamp = 0 /\ ARM7Timestamp = 0 /\ ARM9Target = 0
  /\ SchedListMask = {SPU, RTC}
  /\ Timestamp = [e \in Events |-> IF e \in {SPU, RTC} THEN Period[e] ELSE 0]
  /\ mask = {} /\ late = {}
  /\ CPUStop = {}
  /\ TotalScanlines = 0 /\ line = 0 /\ frametarget = 0 /\ stranded = FALSE
  /\ pc = "out"

-----------------------------------------------------------------------------
(* A frame.                                                                *)

RunFrame ==
  /\ pc = "out"
  /\ TotalScanlines' = 0
  /\ pc' = "top"
  /\ UNCHANGED <<clocks, ARM9Target, schedule, mask, CPUStop, line, frametarget, stranded>>

\* GPU::StartFrame, unless the console was woken in mid-frame.  An event that
\* is scheduled already stays as it is.
Awake ==
  /\ pc = "top" /\ "Sleep" \notin CPUStop
  /\ IF "Wakeup" \in CPUStop THEN UNCHANGED <<line, SchedListMask, Timestamp>>
     ELSE /\ line' = 0
          /\ SchedListMask' = SchedListMask \union {LCD}
          /\ Timestamp' = IF LCD \in SchedListMask THEN Timestamp
                          ELSE [Timestamp EXCEPT ![LCD] = @ + Period[LCD]]
  /\ CPUStop' = CPUStop \ {"Wakeup"}
  /\ pc' = "slice"
  /\ UNCHANGED <<clocks, ARM9Target, mask, late, TotalScanlines, frametarget, stranded>>

\* The ARM9 runs to the next event, but not far at a time.
NextEvent ==
  \E e \in SchedListMask :
    /\ \A f \in SchedListMask : Timestamp[e] <= Timestamp[f]
    /\ ARM9Target' = Timestamp[e]

NextTarget ==
  LET max == SysTimestamp + kMaxIterationCycles
  IN \/ \E e \in SchedListMask :
          /\ Timestamp[e] < max + kIterationCycleMargin
          /\ \A f \in SchedListMask : Timestamp[e] <= Timestamp[f]
          /\ ARM9Target' = Timestamp[e]
     \/ /\ \A e \in SchedListMask : Timestamp[e] >= max + kIterationCycleMargin
        /\ ARM9Target' = max

Slice ==
  /\ pc = "slice"
  /\ NextTarget
  /\ pc' = "arm9"
  /\ UNCHANGED <<clocks, schedule, mask, CPUStop, frameVars>>

Execute9 ==
  /\ pc = "arm9" /\ ARM9Timestamp < ARM9Target
  /\ ARM9Timestamp' \in ARM9Timestamp..ARM9Timestamp + OVER
  /\ UNCHANGED <<SysTimestamp, ARM7Timestamp, ARM9Target, schedule, mask, CPUStop,
                 frameVars, pc>>

\* Halted when its turn begins, or its geometry FIFO full: the clock is set to
\* the target, even if it has passed it.
Halted9 ==
  /\ pc = "arm9" /\ ARM9Timestamp = SysTimestamp
  /\ ARM9Timestamp' = ARM9Target
  /\ pc' = "arm7"
  /\ UNCHANGED <<SysTimestamp, ARM7Timestamp, ARM9Target, schedule, mask, CPUStop, frameVars>>

\* Its time is up, or something halts it.
EndTurn9 ==
  /\ pc = "arm9"
  /\ pc' = "arm7"
  /\ UNCHANGED <<clocks, ARM9Target, schedule, mask, CPUStop, frameVars>>

Execute7 ==
  /\ pc = "arm7" /\ ARM7Timestamp < ARM9Timestamp
  /\ ARM7Timestamp' \in ARM7Timestamp+1..ARM7Timestamp + OVER
  /\ UNCHANGED <<SysTimestamp, ARM9Timestamp, ARM9Target, schedule, mask, CPUStop,
                 frameVars, pc>>

EndTurn7 ==
  /\ pc = "arm7" /\ ARM7Timestamp >= ARM9Timestamp
  /\ SysTimestamp' = ARM9Timestamp
  /\ mask' = SchedListMask
  /\ pc' = "system"
  /\ UNCHANGED <<ARM9Timestamp, ARM7Timestamp, ARM9Target, schedule, CPUStop, frameVars>>

-----------------------------------------------------------------------------
(* Events, as the CPUs and the callbacks of other events schedule them.    *)

CancelEvent(e) ==
  /\ pc \in {"arm9", "arm7"} /\ e \in SchedListMask
  /\ SchedListMask' = SchedListMask \ {e}
  /\ late' = late \ {e}
  /\ UNCHANGED <<clocks, ARM9Target, Timestamp, mask, CPUStop, frameVars, pc>>

ScheduleWithoutReschedule(e, delay) ==
  /\ pc = "arm9" /\ e \notin SchedListMask
  /\ Timestamp' = [Timestamp EXCEPT ![e] = ARM9Timestamp + delay]
  /\ SchedListMask' = SchedListMask \union {e}
  /\ UNCHANGED <<clocks, ARM9Target, late, mask, CPUStop, frameVars, pc>>

\* ScheduleEvent with its Reschedule: the ARM9 is stopped in time for an event
\* it has scheduled itself.
ScheduleEvent(e, delay) ==
  /\ e \notin SchedListMask
  /\ \/ /\ pc = "arm9"
        /\ Timestamp' = [Timestamp EXCEPT ![e] = ARM9Timestamp + delay]
        /\ ARM9Target' = IF Timestamp'[e] < ARM9Target THEN Timestamp'[e] ELSE ARM9Target
        /\ UNCHANGED late
     \/ /\ pc \in {"arm7", "system", "slice"}
        /\ Timestamp' = [Timestamp EXCEPT ![e] = ARM7Timestamp + delay]
        /\ late' = IF pc = "arm7" THEN late \union {e} ELSE late
        /\ UNCHANGED ARM9Target
  /\ SchedListMask' = SchedListMask \union {e}
  /\ UNCHANGED <<clocks, mask, CPUStop, frameVars, pc>>

-----------------------------------------------------------------------------
(* RunSystem: one event after another, in the order of their numbers, of   *)
(* those that were scheduled when it began.                                *)

Due == {e \in mask : Timestamp[e] <= SysTimestamp}

Runs(e) ==
  /\ pc = "system" /\ e \in Due
  /\ \A f \in Due : e <= f
  /\ mask' = {f \in mask : f > e}

\* StartScanline and StartHBlank, one event for each line; then FinishFrame.
RunLCD ==
  /\ Runs(LCD)
  /\ IF line < LINES
     THEN /\ line' = line + 1
          /\ Timestamp' = [Timestamp EXCEPT ![LCD] = @ + Period[LCD]]
          /\ UNCHANGED <<SchedListMask, TotalScanlines, stranded>>
     ELSE /\ TotalScanlines' = 1
          /\ stranded' = (stranded \/ CPUStop # {})
          /\ SchedListMask' = SchedListMask \ {LCD}
          /\ UNCHANGED <<line, Timestamp>>
  /\ UNCHANGED <<clocks, ARM9Target, late, CPUStop, frametarget, pc>>

\* SPU::Mix and RTC::ClockTimer.
RunPeriodic(e) ==
  /\ Runs(e)
  /\ Timestamp' = [Timestamp EXCEPT ![e] = @ + Period[e]]
  /\ UNCHANGED <<clocks, ARM9Target, SchedListMask, late, CPUStop, frameVars, pc>>

\* Another event: it may come back after a delay, from its own time or now.
RunOther(e) ==
  /\ Runs(e)
  /\ \/ /\ SchedListMask' = SchedListMask \ {e}
        /\ UNCHANGED Timestamp
        /\ late' = late \ {e}
     \/ /\ \E delay \in Delays : Timestamp' = [Timestamp EXCEPT ![e] = @ + delay]
        /\ UNCHANGED <<SchedListMask, late>>
     \/ /\ \E delay \in Delays : Timestamp' = [Timestamp EXCEPT ![e] = ARM7Timestamp + delay]
        /\ late' = late \ {e}
        /\ UNCHANGED SchedListMask
  /\ UNCHANGED <<clocks, ARM9Target, CPUStop, frameVars, pc>>

EndSystem ==
  /\ pc = "system" /\ Due = {}
  /\ mask' = {}
  /\ late' = {e \in late : Timestamp[e] <= SysTimestamp}
  /\ pc' = IF TotalScanlines # 0 THEN "out" ELSE IF "Sleep" \in CPUStop THEN "top" ELSE "slice"
  /\ UNCHANGED <<clocks, ARM9Target, SchedListMask, Timestamp, CPUStop, frameVars>>

-----------------------------------------------------------------------------
(* Sleep.                                                                  *)

EnterSleepMode ==
  /\ pc = "arm7" /\ "Sleep" \notin CPUStop
  /\ CPUStop' = CPUStop \union {"Sleep"}
  /\ UNCHANGED <<clocks, ARM9Target, schedule, mask, frameVars, pc>>

Unmarked == {}

Woken == (CPUStop \ {"Sleep"}) \union {"Wakeup"}

\* SetIRQ, by the lid or a key between two frames; in a frame by anything that
\* comes between the ARM7's falling asleep and the check at the end of the turn.
SetIRQ ==
  /\ "Sleep" \in CPUStop
  /\ pc \in {"out", "arm7", "system"}
  /\ CPUStop' = Woken
  /\ UNCHANGED <<clocks, ARM9Target, schedule, mask, frameVars, pc>>

Asleep ==
  /\ pc = "top" /\ "Sleep" \in CPUStop
  /\ frametarget' = SysTimestamp + FRAME
  /\ pc' = "sleep"
  /\ UNCHANGED <<clocks, ARM9Target, schedule, mask, CPUStop, TotalScanlines, line, stranded>>

\* Where NextTargetSleep and the end of the frame let the clock jump to.
SleepTargets == {Timestamp[SPU], Timestamp[RTC], frametarget}

RunOnlyRTC(target) ==
  Timestamp' = [Timestamp EXCEPT ![RTC] = IF @ <= target THEN @ + Period[RTC] ELSE @]

\* Events that come due are put off by as much as was slept.
RunSystemSleep(target) ==
  Timestamp' = [e \in Events |->
    IF e \notin SchedListMask \/ Timestamp[e] > target THEN Timestamp[e]
    ELSE IF e = RTC THEN Timestamp[e] + Period[e]
    ELSE Timestamp[e] + (target - SysTimestamp)]

Sleep ==
  /\ pc = "sleep" /\ SysTimestamp < frametarget
  /\ \E target \in SleepTargets :
       /\ \A t \in SleepTargets : target <= t
       /\ SysTimestamp' = target /\ ARM9Timestamp' = target /\ ARM7Timestamp' = target
       /\ RunSystemSleep(target)
       /\ \/ UNCHANGED <<CPUStop, pc>>
          \/ /\ Timestamp[RTC] <= target
             /\ CPUStop' = Woken
             /\ pc' = IF target < frametarget THEN "top" ELSE "sleep"
  /\ UNCHANGED <<ARM9Target, SchedListMask, late, mask, frameVars>>

BlankFrame ==
  /\ pc = "sleep" /\ SysTimestamp >= frametarget
  /\ TotalScanlines' = 1
  /\ pc' = "out"
  /\ UNCHANGED <<clocks, ARM9Target, schedule, mask, CPUStop, line, frametarget, stranded>>

-----------------------------------------------------------------------------
RunSystem == \/ RunLCD
             \/ \E e \in {SPU, RTC} : RunPeriodic(e)
             \/ \E e \in Others : RunOther(e)
             \/ EndSystem

Next ==
  \/ RunFrame \/ Awake \/ Slice \/ Execute9 \/ Halted9 \/ EndTurn9 \/ Execute7 \/ EndTurn7
  \/ \E e \in Others : CancelEvent(e) \/ \E delay \in Delays : ScheduleEvent(e, delay)
  \/ RunSystem
  \/ EnterSleepMode \/ SetIRQ \/ Asleep \/ Sleep \/ BlankFrame

Spec == Init /\ [][Next]_vars

-----------------------------------------------------------------------------
(* Properties.                                                             *)

\* An event waits past its time for one instruction at most, whoever
\* scheduled it and whatever the CPUs were doing; one that the ARM7 has
\* scheduled in its turn, for no more than the turn of the ARM9 before it.
Bound(e) ==
  OVER + IF e \in late THEN kMaxIterationCycles + kIterationCycleMargin ELSE 0

OnTime == \A e \in SchedListMask : SysTimestamp < Timestamp[e] + Bound(e)

\* The CPUs are never further apart than a turn and the instructions that
\* overran it, so that what one leaves in memory the other finds soon; also
\* when a halted ARM9 is set back to an event that the last turn overran.
InStep ==
  LET turn == kMaxIterationCycles + kIterationCycleMargin
  IN /\ ARM9Timestamp < ARM7Timestamp + turn + OVER
     /\ ARM7Timestamp < ARM9Timestamp + turn + 2 * OVER

\* A frame that runs has its next line scheduled, so it ends; and a frame is
\* begun only when the last one is over: through sleep in the middle of a frame
\* and waking at any time, until a frame's last event is run while the console
\* is asleep, or woken and not yet at the top of the loop.  RunFrame leaves out
\* StartFrame then and no line is scheduled again: that frame never ends.
BeamRuns ==
  ~stranded =>
    /\ pc \in {"slice", "arm9", "arm7"} => LCD \in SchedListMask
    /\ pc = "top" /\ "Sleep" \notin CPUStop => ("Wakeup" \in CPUStop <=> LCD \in SchedListMask)

\* A console asleep never hops on the spot, which would be an endless loop in
\* RunFrame: what it slept away was taken off every event it hops to, and no
\* event was overdue when it fell asleep.
ClockGoesOn ==
  pc = "sleep" /\ SysTimestamp < frametarget
    => \A target \in SleepTargets : target > SysTimestamp

=============================================================================
