-------------------------- MODULE Scheduler_proofs --------------------------
(***************************************************************************)
(* Proofs about the scheduler of the console core, for every set of        *)
(* events, every period and delay, every length of a turn and of an        *)
(* instruction, and every frame.                                           *)
(***************************************************************************)
EXTENDS Scheduler, TLAPS

Turn == kMaxIterationCycles + kIterationCycleMargin

\* How far the ARM7 may be ahead.
Ahead == Turn + OVER + OVER

\* How far apart the clocks are; outside the turns of the CPUs the ARM9's is
\* the system's, and in its turn it is set back at most to an event that the
\* ARM7 is not far from.
Apart ==
  /\ SysTimestamp <= ARM7Timestamp
  /\ ARM9Timestamp < SysTimestamp + Turn + OVER
  /\ pc = "arm9" => SysTimestamp <= ARM9Timestamp
  /\ pc \notin {"arm9", "arm7"} => ARM9Timestamp = SysTimestamp
  /\ ARM7Timestamp < ARM9Timestamp + Ahead

\* The ARM9 is stopped before the next event, its last instruction excepted,
\* and the target is never behind an event.
Stopped ==
  pc = "arm9" =>
    /\ ARM9Timestamp = SysTimestamp \/ ARM9Timestamp < ARM9Target + OVER
    /\ ARM9Target <= SysTimestamp + Turn
    /\ ARM7Timestamp < ARM9Target + Ahead
    /\ \A e \in SchedListMask : ARM9Target <= Timestamp[e]

\* OnTime, also of the clock that the system's is set to after the turns.
Punctual ==
  \A e \in SchedListMask :
    /\ SysTimestamp < Timestamp[e] + Bound(e)
    /\ ARM9Timestamp < Timestamp[e] + Bound(e)
    /\ ARM7Timestamp < Timestamp[e] + Ahead

\* When RunSystem is done, the sound unit's event and the clock chip's are in
\* the future.
Periodic ==
  \A e \in {SPU, RTC} :
    /\ pc \in {"out", "top", "slice", "sleep"} => SysTimestamp < Timestamp[e]
    /\ pc = "system" => e \in mask \/ SysTimestamp < Timestamp[e]

\* A new frame goes on from the last event of the one before, unless the
\* console has slept in between; then the LCD's event is left as it is.
Restart ==
  /\ pc \in {"top", "slice", "arm9", "arm7", "sleep"} => TotalScanlines = 0
  /\ pc = "sleep" => CPUStop # {}
  /\ pc = "system" /\ LCD \in mask => LCD \in SchedListMask
  /\ /\ pc \in {"out", "top"} \/ (pc = "system" /\ TotalScanlines # 0)
     /\ CPUStop = {} /\ LCD \notin SchedListMask
     => /\ SysTimestamp < Timestamp[LCD] + OVER
        /\ ARM7Timestamp < Timestamp[LCD] + Ahead

\* Where the LCD has its event scheduled: throughout a frame, and in the
\* frames of a console that fell asleep in the middle of one.
Beam ==
  ~stranded =>
    /\ pc \in {"out", "top", "sleep"} => (CPUStop # {} <=> LCD \in SchedListMask)
    /\ pc \in {"slice", "arm9"} => "Sleep" \notin CPUStop
    /\ pc \in {"slice", "arm9", "arm7"} => LCD \in SchedListMask
    /\ pc = "system" => IF TotalScanlines = 0 THEN LCD \in SchedListMask
                        ELSE LCD \notin SchedListMask /\ CPUStop = {}

IInv == TypeOK /\ Apart /\ Stopped /\ Punctual /\ Periodic /\ Restart

-----------------------------------------------------------------------------

\* What the numbers of the events and the periods are good for below.
LEMMA Numbers ==
  /\ LCD \in Events /\ SPU \in Events /\ RTC \in Events /\ Others \subseteq Events
  /\ Events \subseteq Nat
  /\ LCD # SPU /\ LCD # RTC /\ SPU # RTC
  /\ LCD \notin Others /\ SPU \notin Others /\ RTC \notin Others
  /\ Turn \in Nat \ {0} /\ OVER \in Nat \ {0} /\ Ahead \in Nat /\ Ahead = Turn + OVER + OVER
  /\ \A e \in {LCD, SPU, RTC} : Period[e] \in Nat \ {0}
  /\ Period[SPU] >= OVER /\ Period[RTC] >= OVER
  /\ \A delay \in Delays : delay \in Nat \ {0}
BY EventsAssumption, CyclesAssumption DEF Events, LCD, SPU, RTC, Turn, Ahead

\* An event's allowance lies between one instruction and one turn more.
LEMMA Allowance ==
  ASSUME NEW e \in Events
  PROVE  /\ Bound(e) \in Nat
         /\ Bound(e) >= OVER
         /\ e \in late => Bound(e) = OVER + Turn
         /\ e \notin late => Bound(e) = OVER
BY CyclesAssumption, SMT DEF Bound, Turn

LEMMA InitInv == Init => IInv /\ Beam
<1> SUFFICES ASSUME Init PROVE IInv /\ Beam
  OBVIOUS
<1> USE DEF Init
<1>1. TypeOK
  <2>1. Timestamp \in [Events -> Nat]
    BY Numbers
  <2>2. stranded \in BOOLEAN
    BY Zenon
  <2> QED BY <2>1, <2>2, Numbers, CyclesAssumption DEF TypeOK
<1>2. Apart /\ Stopped
  BY Numbers DEF Apart, Stopped
<1>3. Punctual
  BY Numbers, Allowance DEF Punctual
<1>4. Periodic
  BY Numbers DEF Periodic
<1>5. Restart
  BY Numbers DEF Restart
<1>6. Beam
  BY Numbers DEF Beam
<1> QED BY <1>1, <1>2, <1>3, <1>4, <1>5, <1>6 DEF IInv

-----------------------------------------------------------------------------
(* The type.                                                               *)

\* A hop of the sleeping console goes forward, and no further than the two
\* periodic events.
LEMMA Hop ==
  ASSUME TypeOK, Periodic, Sleep
  PROVE  \E target \in Nat :
           /\ SysTimestamp < target /\ target <= Timestamp[SPU] /\ target <= Timestamp[RTC]
           /\ SysTimestamp' = target /\ ARM9Timestamp' = target /\ ARM7Timestamp' = target
           /\ RunSystemSleep(target)
           /\ \/ UNCHANGED <<CPUStop, pc>>
              \/ CPUStop' = Woken /\ pc' \in {"top", "sleep"}
BY Numbers DEF TypeOK, Periodic, Sleep, SleepTargets

LEMMA TypeStep == TypeOK /\ Periodic /\ [Next]_vars => TypeOK'
<1> SUFFICES ASSUME TypeOK, Periodic, [Next]_vars PROVE TypeOK'
  OBVIOUS
<1> USE Numbers, CyclesAssumption DEF TypeOK, clocks, schedule, frameVars
<1>1. CASE RunFrame
  BY <1>1 DEF RunFrame
<1>2. CASE Awake
  <2>1. Timestamp' \in [Events -> Nat]
    BY <1>2 DEF Awake
  <2>2. SchedListMask' \subseteq Events /\ {SPU, RTC} \subseteq SchedListMask'
    BY <1>2 DEF Awake
  <2> QED BY <2>1, <2>2, <1>2 DEF Awake
<1>3. CASE Slice
  BY <1>3 DEF Slice, NextTarget
<1>4. CASE Execute9
  BY <1>4 DEF Execute9
<1>5. CASE EndTurn9
  BY <1>5 DEF EndTurn9
<1>6. CASE Execute7
  BY <1>6 DEF Execute7
<1>7. CASE EndTurn7
  BY <1>7 DEF EndTurn7
<1>8. ASSUME NEW e \in Others, CancelEvent(e) PROVE TypeOK'
  BY <1>8 DEF CancelEvent
<1>9. ASSUME NEW e \in Others, NEW delay \in Delays, ScheduleEvent(e, delay) PROVE TypeOK'
  <2>1. Timestamp' \in [Events -> Nat] /\ ARM9Target' \in Nat
    BY <1>9 DEF ScheduleEvent
  <2>2. late' \subseteq Others
    BY <1>9 DEF ScheduleEvent
  <2> QED BY <2>1, <2>2, <1>9 DEF ScheduleEvent
<1>10. CASE RunLCD
  <2>1. Timestamp' \in [Events -> Nat]
    BY <1>10 DEF RunLCD
  <2>2. line' \in 0..LINES /\ TotalScanlines' \in 0..1
    BY <1>10 DEF RunLCD
  <2>4. stranded' \in BOOLEAN
    BY <1>10, Zenon DEF RunLCD
  <2>3. SchedListMask' \in {SchedListMask, SchedListMask \ {LCD}} /\ mask' \subseteq mask
    BY <1>10 DEF RunLCD, Runs
  <2> QED BY <2>1, <2>2, <2>3, <2>4, <1>10 DEF RunLCD, Runs
<1>11. ASSUME NEW e \in {SPU, RTC}, RunPeriodic(e) PROVE TypeOK'
  <2>1. Timestamp' \in [Events -> Nat]
    BY <1>11 DEF RunPeriodic
  <2>2. mask' \subseteq mask
    BY <1>11 DEF RunPeriodic, Runs
  <2> QED BY <2>1, <2>2, <1>11 DEF RunPeriodic, Runs
<1>12. ASSUME NEW e \in Others, RunOther(e) PROVE TypeOK'
  <2>1. SchedListMask' \in {SchedListMask, SchedListMask \ {e}}
    BY <1>12 DEF RunOther
  <2>2. Timestamp' \in [Events -> Nat]
    BY <1>12 DEF RunOther
  <2>3. late' \in {late, late \ {e}} /\ mask' \subseteq mask
    BY <1>12 DEF RunOther, Runs
  <2> QED BY <2>1, <2>2, <2>3, <1>12 DEF RunOther, Runs
<1>13. CASE EndSystem
  BY <1>13 DEF EndSystem
<1>14. CASE EnterSleepMode
  BY <1>14 DEF EnterSleepMode
<1>15. CASE SetIRQ
  BY <1>15 DEF SetIRQ, Woken
<1>16. CASE Asleep
  BY <1>16 DEF Asleep
<1>17. CASE Sleep
  <2>1. PICK target \in Nat :
          /\ SysTimestamp < target
          /\ SysTimestamp' = target /\ ARM9Timestamp' = target /\ ARM7Timestamp' = target
          /\ RunSystemSleep(target)
          /\ CPUStop' \in {CPUStop, Woken} /\ pc' \in {pc, "top", "sleep"}
    BY <1>17, Hop
  <2>2. Timestamp' \in [Events -> Nat]
    BY <2>1 DEF RunSystemSleep
  <2> QED BY <2>1, <2>2, <1>17 DEF Sleep, Woken
<1>18. CASE BlankFrame
  BY <1>18 DEF BlankFrame
<1>20. CASE Halted9
  BY <1>20 DEF Halted9
<1>19. CASE UNCHANGED vars
  BY <1>19 DEF vars
<1> QED
  BY <1>1, <1>2, <1>3, <1>4, <1>5, <1>6, <1>7, <1>8, <1>9, <1>10, <1>11, <1>12, <1>13,
     <1>14, <1>15, <1>16, <1>17, <1>18, <1>19, <1>20 DEF Next, RunSystem

-----------------------------------------------------------------------------
(* The clocks.                                                             *)

LEMMA ApartStep == IInv /\ [Next]_vars => Apart' /\ Stopped'
<1> SUFFICES ASSUME IInv, [Next]_vars PROVE Apart' /\ Stopped'
  OBVIOUS
<1> USE Numbers DEF IInv, TypeOK, Apart, Stopped, clocks, schedule, frameVars
<1>1. CASE RunFrame
  BY <1>1 DEF RunFrame
<1>2. CASE Awake
  BY <1>2 DEF Awake
<1>3. CASE Slice
  <2>1. ARM9Target' \in Int /\ ARM9Target' <= SysTimestamp + Turn
    BY <1>3, CyclesAssumption DEF Slice, NextTarget, Turn
  <2>2. \A e \in SchedListMask : ARM9Target' <= Timestamp[e]
    BY <1>3, CyclesAssumption DEF Slice, NextTarget
  <2>3. ARM7Timestamp < ARM9Target' + Ahead
    <3>1. CASE ARM9Target' = SysTimestamp + kMaxIterationCycles
      BY <3>1, <1>3, CyclesAssumption DEF Slice
    <3>2. CASE \E e \in SchedListMask : ARM9Target' = Timestamp[e]
      BY <3>2 DEF Punctual
    <3> QED BY <3>1, <3>2, <1>3 DEF Slice, NextTarget
  <2>4. /\ pc = "slice" /\ pc' = "arm9"
        /\ UNCHANGED <<SysTimestamp, ARM9Timestamp, ARM7Timestamp, SchedListMask, Timestamp>>
    BY <1>3 DEF Slice
  <2>5. Apart'
    BY <2>4
  <2>6. Stopped'
    BY <2>1, <2>2, <2>3, <2>4
  <2> QED BY <2>5, <2>6
<1>4. CASE Execute9
  <2>1. PICK d \in 0..OVER : ARM9Timestamp' = ARM9Timestamp + d
    BY <1>4 DEF Execute9
  <2>2. /\ pc = "arm9" /\ ARM9Timestamp < ARM9Target
        /\ UNCHANGED <<SysTimestamp, ARM7Timestamp, ARM9Target, SchedListMask, Timestamp, pc>>
    BY <1>4 DEF Execute9
  <2>3. Apart'
    BY <2>1, <2>2
  <2>4. Stopped'
    BY <2>1, <2>2
  <2> QED BY <2>3, <2>4
<1>5. CASE EndTurn9
  BY <1>5 DEF EndTurn9
<1>6. CASE Execute7
  BY <1>6 DEF Execute7
<1>7. CASE EndTurn7
  BY <1>7 DEF EndTurn7
<1>8. ASSUME NEW e \in Others, CancelEvent(e) PROVE Apart' /\ Stopped'
  BY <1>8 DEF CancelEvent
<1>9. ASSUME NEW e \in Others, NEW delay \in Delays, ScheduleEvent(e, delay) PROVE Apart' /\ Stopped'
  BY <1>9 DEF ScheduleEvent
<1>10. CASE RunLCD
  BY <1>10 DEF RunLCD, Runs
<1>11. ASSUME NEW e \in {SPU, RTC}, RunPeriodic(e) PROVE Apart' /\ Stopped'
  BY <1>11 DEF RunPeriodic, Runs
<1>12. ASSUME NEW e \in Others, RunOther(e) PROVE Apart' /\ Stopped'
  BY <1>12 DEF RunOther, Runs
<1>13. CASE EndSystem
  BY <1>13 DEF EndSystem
<1>14. CASE EnterSleepMode
  BY <1>14 DEF EnterSleepMode
<1>15. CASE SetIRQ
  BY <1>15 DEF SetIRQ
<1>16. CASE Asleep
  BY <1>16 DEF Asleep
<1>17. CASE Sleep
  BY <1>17, Hop DEF Sleep
<1>18. CASE BlankFrame
  BY <1>18 DEF BlankFrame
<1>20. CASE Halted9
  BY <1>20 DEF Halted9
<1>19. CASE UNCHANGED vars
  BY <1>19 DEF vars
<1> QED
  BY <1>1, <1>2, <1>3, <1>4, <1>5, <1>6, <1>7, <1>8, <1>9, <1>10, <1>11, <1>12, <1>13,
     <1>14, <1>15, <1>16, <1>17, <1>18, <1>19, <1>20 DEF Next, RunSystem

\* What a step may do to the schedule without making an event late: take it
\* off, put it off, or set it to a time the clock has not reached.
LEMMA PunctualStep == IInv /\ [Next]_vars => Punctual'
<1> SUFFICES ASSUME IInv, [Next]_vars PROVE Punctual'
  OBVIOUS
<1> USE Numbers DEF IInv, TypeOK, Apart, Stopped, Punctual, Bound, Turn, clocks, schedule, frameVars
<1>1. CASE RunFrame
  BY <1>1 DEF RunFrame
<1>2. CASE Awake
  <2>1. CASE UNCHANGED <<SchedListMask, Timestamp>>
    BY <2>1, <1>2 DEF Awake
  <2>2. CASE LCD \in SchedListMask
    BY <2>2, <1>2 DEF Awake
  <2>3. CASE LCD \notin SchedListMask /\ CPUStop = {}
    <3>1. /\ SysTimestamp < Timestamp[LCD] + OVER /\ ARM9Timestamp = SysTimestamp
          /\ ARM7Timestamp < Timestamp[LCD] + Ahead
      BY <2>3, <1>2 DEF Awake, Restart
    <3>2. /\ SchedListMask' = SchedListMask \union {LCD}
          /\ Timestamp' = [Timestamp EXCEPT ![LCD] = @ + Period[LCD]]
      BY <2>3, <1>2 DEF Awake
    <3>3. UNCHANGED <<SysTimestamp, ARM9Timestamp, ARM7Timestamp, late>> /\ LCD \notin late
      BY <1>2 DEF Awake
    <3>4. ASSUME NEW e \in SchedListMask', e # LCD
          PROVE  e \in SchedListMask /\ Timestamp'[e] = Timestamp[e]
      BY <3>2, <3>4
    <3>5. /\ Timestamp'[LCD] \in Nat /\ Timestamp'[LCD] >= Timestamp[LCD]
      BY <3>2
    <3>6. ASSUME NEW e \in SchedListMask'
          PROVE  /\ SysTimestamp' < Timestamp'[e] + Bound(e)'
                 /\ ARM9Timestamp' < Timestamp'[e] + Bound(e)'
                 /\ ARM7Timestamp' < Timestamp'[e] + Ahead
      <4>1. CASE e = LCD
        BY <4>1, <3>1, <3>3, <3>5
      <4>2. CASE e # LCD
        BY <4>2, <3>3, <3>4
      <4> QED BY <4>1, <4>2
    <3> QED BY <3>6
  <2> QED BY <2>1, <2>2, <2>3, <1>2 DEF Awake
<1>3. CASE Slice
  BY <1>3 DEF Slice, NextTarget
<1>4. CASE Execute9
  BY <1>4 DEF Execute9, Stopped
<1>5. CASE EndTurn9
  BY <1>5 DEF EndTurn9
<1>6. CASE Execute7
  BY <1>6 DEF Execute7
<1>7. CASE EndTurn7
  BY <1>7 DEF EndTurn7
<1>8. ASSUME NEW e \in Others, CancelEvent(e) PROVE Punctual'
  BY <1>8 DEF CancelEvent
<1>9. ASSUME NEW e \in Others, NEW delay \in Delays, ScheduleEvent(e, delay) PROVE Punctual'
  BY <1>9 DEF ScheduleEvent
<1>10. CASE RunLCD
  <2>1. SchedListMask' \subseteq SchedListMask
    BY <1>10 DEF RunLCD
  <2>2. \A e \in SchedListMask : Timestamp'[e] \in Nat /\ Timestamp'[e] >= Timestamp[e]
    BY <1>10 DEF RunLCD
  <2> QED BY <2>1, <2>2, <1>10 DEF RunLCD
<1>11. ASSUME NEW e \in {SPU, RTC}, RunPeriodic(e) PROVE Punctual'
  BY <1>11 DEF RunPeriodic, Runs
<1>12. ASSUME NEW e \in Others, RunOther(e) PROVE Punctual'
  <2>1. SchedListMask' \subseteq SchedListMask
    BY <1>12 DEF RunOther
  <2>2. ASSUME NEW f \in SchedListMask'
        PROVE  /\ SysTimestamp' < Timestamp'[f] + Bound(f)'
               /\ ARM9Timestamp' < Timestamp'[f] + Bound(f)'
               /\ ARM7Timestamp' < Timestamp'[f] + Ahead
    <3>1. CASE f # e
      BY <3>1, <2>1, <1>12 DEF RunOther
    <3>2. CASE f = e /\ \E delay \in Delays : Timestamp' = [Timestamp EXCEPT ![e] = @ + delay]
                  /\ UNCHANGED late
      BY <3>2, <2>1, <1>12 DEF RunOther
    <3>3. CASE f = e /\ \E delay \in Delays :
                  Timestamp' = [Timestamp EXCEPT ![e] = ARM7Timestamp + delay]
      BY <3>3, <2>1, <1>12 DEF RunOther, Runs
    <3> QED BY <3>1, <3>2, <3>3, <1>12 DEF RunOther
  <2> QED BY <2>2
<1>13. CASE EndSystem
  BY <1>13 DEF EndSystem
<1>14. CASE EnterSleepMode
  BY <1>14 DEF EnterSleepMode
<1>15. CASE SetIRQ
  BY <1>15 DEF SetIRQ
<1>16. CASE Asleep
  BY <1>16 DEF Asleep
<1>17. CASE Sleep
  BY <1>17, Hop DEF Sleep, RunSystemSleep
<1>18. CASE BlankFrame
  BY <1>18 DEF BlankFrame
<1>20. CASE Halted9
  BY <1>20 DEF Halted9
<1>19. CASE UNCHANGED vars
  BY <1>19 DEF vars
<1> QED
  BY <1>1, <1>2, <1>3, <1>4, <1>5, <1>6, <1>7, <1>8, <1>9, <1>10, <1>11, <1>12, <1>13,
     <1>14, <1>15, <1>16, <1>17, <1>18, <1>19, <1>20 DEF Next, RunSystem

LEMMA PeriodicStep == IInv /\ [Next]_vars => Periodic'
<1> SUFFICES ASSUME IInv, [Next]_vars PROVE Periodic'
  OBVIOUS
<1> USE Numbers DEF IInv, TypeOK, Apart, Periodic, clocks, schedule, frameVars
<1>1. CASE RunFrame
  BY <1>1 DEF RunFrame
<1>2. CASE Awake
  BY <1>2 DEF Awake
<1>3. CASE Slice
  BY <1>3 DEF Slice, NextTarget
<1>4. CASE Execute9
  BY <1>4 DEF Execute9
<1>5. CASE EndTurn9
  BY <1>5 DEF EndTurn9
<1>6. CASE Execute7
  BY <1>6 DEF Execute7
<1>7. CASE EndTurn7
  BY <1>7 DEF EndTurn7
<1>8. ASSUME NEW e \in Others, CancelEvent(e) PROVE Periodic'
  BY <1>8 DEF CancelEvent
<1>9. ASSUME NEW e \in Others, NEW delay \in Delays, ScheduleEvent(e, delay) PROVE Periodic'
  BY <1>9 DEF ScheduleEvent
<1>10. CASE RunLCD
  BY <1>10 DEF RunLCD, Runs, Due
<1>11. ASSUME NEW e \in {SPU, RTC}, RunPeriodic(e) PROVE Periodic'
  BY <1>11 DEF RunPeriodic, Runs, Due, Punctual, Bound
<1>12. ASSUME NEW e \in Others, RunOther(e) PROVE Periodic'
  BY <1>12 DEF RunOther, Runs, Due
<1>13. CASE EndSystem
  BY <1>13 DEF EndSystem, Due
<1>14. CASE EnterSleepMode
  BY <1>14 DEF EnterSleepMode
<1>15. CASE SetIRQ
  BY <1>15 DEF SetIRQ
<1>16. CASE Asleep
  BY <1>16 DEF Asleep
<1>17. CASE Sleep
  BY <1>17, Hop DEF Sleep, RunSystemSleep
<1>18. CASE BlankFrame
  BY <1>18 DEF BlankFrame
<1>20. CASE Halted9
  BY <1>20 DEF Halted9
<1>19. CASE UNCHANGED vars
  BY <1>19 DEF vars
<1> QED
  BY <1>1, <1>2, <1>3, <1>4, <1>5, <1>6, <1>7, <1>8, <1>9, <1>10, <1>11, <1>12, <1>13,
     <1>14, <1>15, <1>16, <1>17, <1>18, <1>19, <1>20 DEF Next, RunSystem

LEMMA RestartStep == IInv /\ [Next]_vars => Restart'
<1> SUFFICES ASSUME IInv, [Next]_vars PROVE Restart'
  OBVIOUS
<1> USE Numbers DEF IInv, TypeOK, Apart, Restart, clocks, schedule, frameVars
<1>1. CASE RunFrame
  BY <1>1 DEF RunFrame
<1>2. CASE Awake
  BY <1>2 DEF Awake
<1>3. CASE Slice
  BY <1>3 DEF Slice, NextTarget
<1>4. CASE Execute9
  BY <1>4 DEF Execute9
<1>5. CASE EndTurn9
  BY <1>5 DEF EndTurn9
<1>6. CASE Execute7
  BY <1>6 DEF Execute7
<1>7. CASE EndTurn7
  BY <1>7 DEF EndTurn7
<1>8. ASSUME NEW e \in Others, CancelEvent(e) PROVE Restart'
  BY <1>8 DEF CancelEvent
<1>9. ASSUME NEW e \in Others, NEW delay \in Delays, ScheduleEvent(e, delay) PROVE Restart'
  BY <1>9 DEF ScheduleEvent
<1>10. CASE RunLCD
  <2>1. pc = "system" /\ pc' = "system" /\ UNCHANGED <<SysTimestamp, ARM7Timestamp>>
    BY <1>10 DEF RunLCD, Runs
  <2>2. LCD \in mask /\ LCD \notin mask'
    BY <1>10 DEF RunLCD, Runs, Due
  <2>3. SysTimestamp < Timestamp[LCD] + OVER /\ ARM7Timestamp < Timestamp[LCD] + Ahead
    BY <2>1, <2>2 DEF Punctual, Bound
  <2>4. Timestamp'[LCD] \in Nat /\ Timestamp'[LCD] >= Timestamp[LCD]
    BY <1>10 DEF RunLCD
  <2> QED BY <2>1, <2>2, <2>3, <2>4
<1>11. ASSUME NEW e \in {SPU, RTC}, RunPeriodic(e) PROVE Restart'
  BY <1>11 DEF RunPeriodic, Runs
<1>12. ASSUME NEW e \in Others, RunOther(e) PROVE Restart'
  BY <1>12 DEF RunOther, Runs
<1>13. CASE EndSystem
  BY <1>13 DEF EndSystem
<1>14. CASE EnterSleepMode
  BY <1>14 DEF EnterSleepMode
<1>15. CASE SetIRQ
  BY <1>15 DEF SetIRQ, Woken
<1>16. CASE Asleep
  BY <1>16 DEF Asleep
<1>17. CASE Sleep
  <2>1. pc = "sleep" /\ UNCHANGED TotalScanlines
    BY <1>17 DEF Sleep
  <2>2. pc' \in {"top", "sleep"} /\ CPUStop' # {}
    BY <2>1, <1>17, Hop DEF Woken
  <2> QED BY <2>1, <2>2
<1>18. CASE BlankFrame
  BY <1>18 DEF BlankFrame
<1>20. CASE Halted9
  BY <1>20 DEF Halted9
<1>19. CASE UNCHANGED vars
  BY <1>19 DEF vars
<1> QED
  BY <1>1, <1>2, <1>3, <1>4, <1>5, <1>6, <1>7, <1>8, <1>9, <1>10, <1>11, <1>12, <1>13,
     <1>14, <1>15, <1>16, <1>17, <1>18, <1>19, <1>20 DEF Next, RunSystem

-----------------------------------------------------------------------------
(* The LCD's event.                                                        *)

LEMMA BeamStep == IInv /\ Beam /\ [Next]_vars => Beam'
<1> SUFFICES ASSUME IInv, Beam, [Next]_vars PROVE Beam'
  OBVIOUS
<1> USE Numbers DEF IInv, TypeOK, Apart, Restart, Beam, clocks, schedule, frameVars
<1>1. CASE RunFrame
  BY <1>1 DEF RunFrame
<1>2. CASE Awake
  BY <1>2 DEF Awake
<1>3. CASE Slice
  BY <1>3 DEF Slice, NextTarget
<1>4. CASE Execute9
  BY <1>4 DEF Execute9
<1>5. CASE EndTurn9
  BY <1>5 DEF EndTurn9
<1>6. CASE Execute7
  BY <1>6 DEF Execute7
<1>7. CASE EndTurn7
  BY <1>7 DEF EndTurn7
<1>8. ASSUME NEW e \in Others, CancelEvent(e) PROVE Beam'
  BY <1>8 DEF CancelEvent
<1>9. ASSUME NEW e \in Others, NEW delay \in Delays, ScheduleEvent(e, delay) PROVE Beam'
  BY <1>9 DEF ScheduleEvent
<1>10. CASE RunLCD
  <2>1. pc = "system" /\ pc' = "system" /\ CPUStop' = CPUStop
    BY <1>10 DEF RunLCD, Runs
  <2>2. CASE line < LINES
    <3>1. UNCHANGED <<SchedListMask, TotalScanlines, stranded>>
      BY <1>10, <2>2 DEF RunLCD
    <3> QED BY <2>1, <3>1
  <2>3. CASE ~(line < LINES)
    <3>1. /\ TotalScanlines' = 1 /\ LCD \notin SchedListMask'
          /\ stranded' = (stranded \/ CPUStop # {})
      BY <1>10, <2>3 DEF RunLCD
    <3>2. ~stranded' => CPUStop = {}
      BY <3>1, Zenon
    <3> QED BY <2>1, <3>1, <3>2
  <2> QED BY <2>2, <2>3
<1>11. ASSUME NEW e \in {SPU, RTC}, RunPeriodic(e) PROVE Beam'
  BY <1>11 DEF RunPeriodic, Runs, Due
<1>12. ASSUME NEW e \in Others, RunOther(e) PROVE Beam'
  BY <1>12 DEF RunOther, Runs, Due
<1>13. CASE EndSystem
  BY <1>13 DEF EndSystem
<1>14. CASE EnterSleepMode
  BY <1>14 DEF EnterSleepMode
<1>15. CASE SetIRQ
  BY <1>15 DEF SetIRQ, Woken
<1>16. CASE Asleep
  BY <1>16 DEF Asleep
<1>17. CASE Sleep
  <2>1. pc = "sleep" /\ UNCHANGED <<SchedListMask, TotalScanlines, stranded>>
    BY <1>17 DEF Sleep
  <2>2. \/ UNCHANGED <<CPUStop, pc>>
        \/ CPUStop' = Woken /\ pc' \in {"top", "sleep"}
    BY <1>17, Hop
  <2>3. CASE UNCHANGED <<CPUStop, pc>>
    BY <2>1, <2>3
  <2>4. CASE CPUStop' = Woken /\ pc' \in {"top", "sleep"}
    <3>1. CPUStop' # {} /\ "Sleep" \notin CPUStop'
      BY <2>4 DEF Woken
    <3>2. CPUStop # {}
      BY <2>1
    <3> QED BY <2>1, <2>4, <3>1, <3>2
  <2> QED BY <2>2, <2>3, <2>4
<1>18. CASE BlankFrame
  BY <1>18 DEF BlankFrame
<1>20. CASE Halted9
  BY <1>20 DEF Halted9
<1>19. CASE UNCHANGED vars
  BY <1>19 DEF vars
<1> QED
  BY <1>1, <1>2, <1>3, <1>4, <1>5, <1>6, <1>7, <1>8, <1>9, <1>10, <1>11, <1>12, <1>13,
     <1>14, <1>15, <1>16, <1>17, <1>18, <1>19, <1>20 DEF Next, RunSystem

-----------------------------------------------------------------------------
(* The theorems.                                                           *)

LEMMA Inductive == IInv /\ [Next]_vars => IInv'
BY TypeStep, ApartStep, PunctualStep, PeriodicStep, RestartStep DEF IInv

LEMMA Invariance == Spec => []IInv
BY InitInv, Inductive, PTL DEF Spec

\* The variables keep their types: times never fall below zero, and the sound
\* unit's and the clock chip's events are always scheduled.
THEOREM TypeCorrect == Spec => []TypeOK
<1>1. IInv => TypeOK
  BY DEF IInv
<1> QED BY <1>1, Invariance, PTL

\* No event waits past its time for longer than an instruction, or, when the
\* ARM7 has scheduled it, than a turn and an instruction (RunFrame and
\* Reschedule), also over any number of sleeps.
THEOREM EventsAreOnTime == Spec => []OnTime
<1>1. IInv => OnTime
  <2> SUFFICES ASSUME IInv, NEW e \in SchedListMask
               PROVE  SysTimestamp < Timestamp[e] + Bound(e)
    BY DEF OnTime
  <2>1. e \in Events
    BY DEF IInv, TypeOK
  <2>2. Bound(e) \in Nat
    BY <2>1, Allowance
  <2> QED BY <2>1, <2>2 DEF IInv, TypeOK, Apart, Punctual
<1> QED BY <1>1, Invariance, PTL

\* The two CPUs are never further apart than a turn and an instruction.
THEOREM CPUsStayInStep == Spec => []InStep
<1>1. IInv => InStep
  BY Numbers, CyclesAssumption DEF IInv, TypeOK, Apart, InStep, Turn, Ahead
<1> QED BY <1>1, Invariance, PTL

\* A sleeping console hops forward: no hop of RunFrame's loop is empty.
THEOREM SleepGoesOn == Spec => []ClockGoesOn
<1>1. IInv => ClockGoesOn
  BY DEF IInv, TypeOK, Periodic, ClockGoesOn, SleepTargets
<1> QED BY <1>1, Invariance, PTL

\* A frame has its next line scheduled until it is complete, and none is begun
\* before the last one is over, however the console falls asleep and is woken,
\* until the last event of a frame finds it asleep or just woken.
THEOREM FramesGoOn == Spec => []BeamRuns
<1>1. IInv /\ Beam => BeamRuns
  <2> SUFFICES ASSUME IInv, Beam, ~stranded PROVE BeamRuns
    BY DEF BeamRuns
  <2>1. pc \in {"slice", "arm9", "arm7"} => LCD \in SchedListMask
    BY DEF Beam
  <2>2. ASSUME pc = "top", "Sleep" \notin CPUStop
        PROVE  "Wakeup" \in CPUStop <=> LCD \in SchedListMask
    <3>1. "Wakeup" \in CPUStop <=> CPUStop # {}
      BY <2>2 DEF IInv, TypeOK
    <3>2. CPUStop # {} <=> LCD \in SchedListMask
      BY <2>2 DEF Beam
    <3> QED BY <3>1, <3>2
  <2> QED BY <2>1, <2>2 DEF BeamRuns
<1>2. IInv /\ Beam /\ [Next]_vars => (IInv /\ Beam)'
  BY Inductive, BeamStep
<1> QED BY <1>1, <1>2, InitInv, PTL DEF Spec

=============================================================================
