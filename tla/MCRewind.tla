------------------------------ MODULE MCRewind ------------------------------
(***************************************************************************)
(* Rewind for model checking: four settings stand for a window of two      *)
(* states, one state, none because the window is shorter than the interval,*)
(* and rewind switched off.                                                *)
(***************************************************************************)
EXTENDS Rewind

MCSettings ==
    {[enabled |-> TRUE, length |-> 2, interval |-> 1],
     [enabled |-> TRUE, length |-> 3, interval |-> 2],
     [enabled |-> TRUE, length |-> 1, interval |-> 2],
     [enabled |-> FALSE, length |-> 2, interval |-> 1]}
=============================================================================
