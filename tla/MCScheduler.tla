----------------------------- MODULE MCScheduler -----------------------------
(* An instance of Scheduler.  Nothing depends on the time of day: states   *)
(* are told apart by how far their times are from the clock; once stranded *)
(* the LCD's is never looked at again.                                     *)
EXTENDS Scheduler, TLC

Periods == (LCD :> 5) @@ (SPU :> 4) @@ (RTC :> 5)

Relative ==
  <<ARM9Timestamp - SysTimestamp, ARM7Timestamp - SysTimestamp,
    IF pc = "arm9" THEN ARM9Target - SysTimestamp ELSE 0,
    [e \in SchedListMask \union (IF stranded THEN {} ELSE {LCD}) |-> Timestamp[e] - SysTimestamp],
    late, mask, CPUStop, TotalScanlines, line, stranded,
    IF pc = "sleep" THEN frametarget - SysTimestamp ELSE 0, pc>>
=============================================================================
