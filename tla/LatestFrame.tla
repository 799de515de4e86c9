---------------------------- MODULE LatestFrame ----------------------------
(***************************************************************************)
(* What the frame queue promises to the screen, without any buffer: the    *)
(* emulator publishes numbered pictures, the screen only ever moves        *)
(* forward, and a screen that picks up a new picture picks up the newest   *)
(* one published so far.  Pictures in between may be skipped.              *)
(***************************************************************************)
EXTENDS Naturals

VARIABLES
    latest,   \* number of the newest picture handed over to the presenter (0: none yet)
    shown     \* number of the picture the screen shows (0: none yet)

latestVars == <<latest, shown>>

TypeOK == latest \in Nat /\ shown \in Nat

Init == latest = 0 /\ shown = 0

\* A picture is handed over; pictures drawn while the console sleeps are
\* numbered too, and never handed over, so numbers may jump.
Publish == latest' \in Nat /\ latest' > latest /\ UNCHANGED shown

\* The screen picks up the newest picture.
Show == shown' = latest /\ UNCHANGED latest

Next == Publish \/ Show

Spec == Init /\ [][Next]_latestVars
=============================================================================
