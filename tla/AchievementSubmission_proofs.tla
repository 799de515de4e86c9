-------------------- MODULE AchievementSubmission_proofs --------------------
(***************************************************************************)
(* What is earned is not forgotten, and the flow does not sleep over it,    *)
(* for every set of achievements and entries and every bound, when lookups  *)
(* end before the user's next step (~ LateLookups).                         *)
(***************************************************************************)
EXTENDS AchievementSubmission, TLAPS

\* While a request is out its submission heads the list, and an answer means that
\* the server has it.
Sending ==
    handler = "sending" =>
        /\ pendingSubmissions # <<>> /\ submission = Head(pendingSubmissions)
        /\ reply # "none" => submission \in accepted

\* A flow has a channel.  Without one nothing is looked up or pending, and a game
\* that goes on has earned nothing.
Switched ==
    /\ handler # "off" => channel # "none"
    /\ handler = "off" => /\ pendingSubmissions = <<>> /\ lookups = {}
                          /\ game \in {"running", "paused"} => earned = {}

IInv == TypeOK /\ Sending /\ Switched /\ NothingForgotten /\ NoLostWakeUp /\ CleanExit
-----------------------------------------------------------------------------
\* The first element is the first to be removed.
LEMMA RemoveHead ==
    ASSUME NEW S, NEW s \in Seq(S), s # <<>>
    PROVE  RemoveFirst(s, Head(s)) = Tail(s)
<1> DEFINE I == {i \in 1..Len(s) : s[i] = Head(s)}
<1>1. Len(s) \in Nat \ {0} /\ Head(s) = s[1]
  OBVIOUS
<1>2. 1 \in I /\ \A i \in I : 1 <= i
  BY <1>1
<1>3. Min(I) = 1
  <2>1. I \subseteq Nat
    BY <1>1
  <2> HIDE DEF I
  <2>2. \A x \in I : (\A y \in I : x <= y) <=> x = 1
    BY <1>2, <2>1
  <2> QED  BY <1>2, <2>2, Zenon DEF Min
<1>4. SelectInSeq(s, LAMBDA v : v = Head(s)) = 1
  BY <1>2, <1>3 DEF SelectInSeq
<1>5. RemoveFirst(s, Head(s)) = RemoveAt(s, 1)
  BY <1>1, <1>4 DEF RemoveFirst
<1>6. RemoveAt(s, 1) = Tail(s)
  BY <1>1 DEF RemoveAt
<1> QED  BY <1>5, <1>6

\* What a list holds once something is appended.
LEMMA AppendElements ==
    ASSUME NEW S, NEW s \in Seq(S), NEW e \in S
    PROVE  {Append(s, e)[i] : i \in DOMAIN Append(s, e)} = {s[i] : i \in DOMAIN s} \cup {e}
<1>1. DOMAIN s = 1..Len(s) /\ DOMAIN Append(s, e) = 1..(Len(s) + 1) /\ Len(s) \in Nat
  OBVIOUS
<1>2. \A i \in 1..(Len(s) + 1) : Append(s, e)[i] = IF i <= Len(s) THEN s[i] ELSE e
  OBVIOUS
<1> QED  BY <1>1, <1>2

\* What a list holds is its head and what the rest holds.
LEMMA TailElements ==
    ASSUME NEW S, NEW s \in Seq(S), s # <<>>
    PROVE  /\ Head(s) \in S /\ Tail(s) \in Seq(S)
           /\ {s[i] : i \in DOMAIN s} = {Head(s)} \cup {Tail(s)[i] : i \in DOMAIN Tail(s)}
<1>1. /\ Len(s) \in Nat \ {0} /\ DOMAIN s = 1..Len(s) /\ Head(s) = s[1]
      /\ Head(s) \in S /\ Tail(s) \in Seq(S)
      /\ DOMAIN Tail(s) = 1..(Len(s) - 1)
      /\ \A i \in 1..(Len(s) - 1) : Tail(s)[i] = s[i + 1]
  OBVIOUS
<1>2. \A i \in 2..Len(s) : i - 1 \in 1..(Len(s) - 1) /\ s[i] = Tail(s)[i - 1]
  BY <1>1
<1>3. {s[i] : i \in DOMAIN s} \subseteq {Head(s)} \cup {Tail(s)[i] : i \in DOMAIN Tail(s)}
  <2> SUFFICES ASSUME NEW i \in 1..Len(s), s[i] # Head(s)
               PROVE  s[i] \in {Tail(s)[j] : j \in DOMAIN Tail(s)}
    BY <1>1
  <2>1. i \in 2..Len(s)
    BY <1>1
  <2> QED  BY <1>1, <1>2, <2>1
<1>4. {Tail(s)[i] : i \in DOMAIN Tail(s)} \subseteq {s[i] : i \in DOMAIN s}
  <2> SUFFICES ASSUME NEW i \in 1..(Len(s) - 1)
               PROVE  Tail(s)[i] \in {s[j] : j \in DOMAIN s}
    BY <1>1
  <2>1. i + 1 \in 1..Len(s)
    BY <1>1
  <2> QED  BY <1>1, <2>1
<1>5. Head(s) \in {s[i] : i \in DOMAIN s}
  BY <1>1
<1> QED  BY <1>1, <1>3, <1>4, <1>5

\* What a request leaves behind, in a state of the invariant.
LEMMA WhatIsSent ==
    ASSUME IInv, handler = "sending"
    PROVE  /\ submission \in Earnable
           /\ Sent \in Seq(Earnable) /\ Resubmit \in Seq(Earnable)
           /\ Pending = {submission} \cup {Sent[i] : i \in DOMAIN Sent}
           /\ Pending = {Resubmit[i] : i \in DOMAIN Resubmit}
<1>1. /\ pendingSubmissions \in Seq(Earnable) /\ pendingSubmissions # <<>>
      /\ submission = Head(pendingSubmissions)
  BY DEF IInv, TypeOK, Sending
<1>2. Sent = Tail(pendingSubmissions)
  BY <1>1, RemoveHead DEF Sent
<1>3. submission \in Earnable /\ Sent \in Seq(Earnable)
  BY <1>1, <1>2
<1>4. Pending = {submission} \cup {Sent[i] : i \in DOMAIN Sent}
  <2>1. {pendingSubmissions[i] : i \in DOMAIN pendingSubmissions}
          = {Head(pendingSubmissions)}
            \cup {Tail(pendingSubmissions)[i] : i \in DOMAIN Tail(pendingSubmissions)}
    BY <1>1, TailElements
  <2> QED  BY <1>1, <1>2, <2>1 DEF Pending
<1>5. {Resubmit[i] : i \in DOMAIN Resubmit} = {Sent[i] : i \in DOMAIN Sent} \cup {submission}
  BY <1>3, AppendElements DEF Resubmit
<1>6. Resubmit \in Seq(Earnable)
  BY <1>3 DEF Resubmit
<1> QED  BY <1>3, <1>4, <1>5, <1>6
-----------------------------------------------------------------------------
\* What the loop over the list leaves is well-typed.
LEMMA SendNextType ==
    ASSUME NEW list \in Seq(Earnable), SendNext(list)
    PROVE  /\ pendingSubmissions' \in Seq(Earnable)
           /\ handler' \in {"receiving", "sending"}
           /\ submission' \in Earnable \cup {Nothing}
           /\ reply' = "none"
<1>1. list # <<>> => Head(list) \in Earnable
  OBVIOUS
<1> QED  BY <1>1 DEF SendNext

\* A failure puts the submission back and waits.
LEMMA FailKeeps ==
    ASSUME IInv, handler = "sending", Fails,
           UNCHANGED <<game, dialog, runtimeVars, lookups, channel, accepted, earned>>
    PROVE  IInv'
<1> USE DEF Fails, runtimeVars
<1>1. UNCHANGED Pending
  BY WhatIsSent DEF Pending
<1>2. TypeOK'
  BY WhatIsSent DEF IInv, TypeOK
<1> QED  BY <1>1, <1>2 DEF IInv, Sending, Switched, NothingForgotten, NoLostWakeUp, CleanExit

\* The flow's own steps: what leaves the list is with the server, what failed is
\* back in it, and the flow sleeps only when the list is empty.
LEMMA FlowKeeps ==
    ASSUME IInv, FlowNext
    PROVE  IInv'
<1> USE DEF IInv
<1>1. CASE Receive
  <2>1. UNCHANGED Pending
    BY <1>1 DEF Receive, SendNext, Pending
  <2>2. TypeOK'
    BY <1>1, SendNextType DEF TypeOK, Receive, runtimeVars
  <2>3. Sending' /\ Switched' /\ NoLostWakeUp' /\ CleanExit'
    BY <1>1 DEF TypeOK, Sending, Switched, NoLostWakeUp, CleanExit, Receive, SendNext
  <2> QED  BY <1>1, <2>1, <2>2, <2>3 DEF NothingForgotten, Receive
<1>2. CASE Answer
  <2> USE <1>2 DEF Answer
  <2>1. CASE Succeeds(reply)
    <3>1. /\ pendingSubmissions' = Sent /\ reply' = "none"
          /\ \/ Sent = <<>> /\ handler' = "receiving" /\ submission' = Nothing
             \/ Sent # <<>> /\ handler' = "sending" /\ submission' = Head(Sent)
      BY <2>1 DEF SendNext
    <3>2. Sent \in Seq(Earnable) /\ submission \in accepted
      BY WhatIsSent DEF Sending
    <3>3. Pending = {submission} \cup Pending'
      BY <3>1, WhatIsSent DEF Pending
    <3>4. TypeOK'
      BY <2>1, <3>2, SendNextType DEF TypeOK, runtimeVars
    <3>5. Sending' /\ Switched' /\ NoLostWakeUp' /\ CleanExit'
      BY <3>1 DEF Sending, Switched, NoLostWakeUp, CleanExit
    <3>6. NothingForgotten'
      BY <3>2, <3>3 DEF NothingForgotten
    <3> QED  BY <3>4, <3>5, <3>6
  <2>2. CASE Fails
    BY <2>2, FailKeeps
  <2> QED  BY <2>1, <2>2
<1>3. CASE RequestFails
  BY <1>3, FailKeeps DEF RequestFails
<1>4. CASE EndWait
  <2>1. UNCHANGED Pending
    BY <1>4 DEF EndWait, SendNext, Pending
  <2>2. TypeOK'
    BY <1>4, SendNextType DEF TypeOK, EndWait, runtimeVars
  <2>3. Sending' /\ Switched' /\ NoLostWakeUp' /\ CleanExit'
    BY <1>4 DEF TypeOK, Sending, Switched, NoLostWakeUp, CleanExit, EndWait, SendNext
  <2> QED  BY <1>4, <2>1, <2>2, <2>3 DEF NothingForgotten, EndWait
<1> QED  BY <1>1, <1>2, <1>3, <1>4 DEF FlowNext

\* The server takes a request: what it has is with it for ever.
LEMMA ServerKeeps ==
    ASSUME IInv, NEW w \in Earnable, Serve(w)
    PROVE  IInv'
<1>1. UNCHANGED Pending
  BY DEF Serve, Pending
<1>2. TypeOK'
  BY DEF IInv, TypeOK, Serve, runtimeVars
<1> QED  BY <1>1, <1>2 DEF IInv, Sending, Switched, NothingForgotten, NoLostWakeUp, CleanExit, Serve

\* What is earned is looked up; what is looked up is added, with a signal.
LEMMA GameKeeps ==
    ASSUME IInv, GameNext
    PROVE  IInv'
<1> USE DEF IInv
<1>1. CASE ResetEmulator
  <2>1. UNCHANGED Pending
    BY <1>1 DEF ResetEmulator, flowVars, Pending
  <2> QED
    BY <1>1, <2>1 DEF ResetEmulator, flowVars, TypeOK, Sending, Switched, NothingForgotten,
                      NoLostWakeUp, CleanExit
<1>2. ASSUME NEW w \in Earnable, Earn(w)
      PROVE  IInv'
  <2>1. UNCHANGED Pending
    BY <1>2 DEF Earn, flowVars, Pending
  <2>2. TypeOK'
    BY <1>2 DEF Earn, flowVars, TypeOK
  <2> QED
    BY <1>2, <2>1, <2>2 DEF Earn, flowVars, Sending, Switched, NothingForgotten,
                            NoLostWakeUp, CleanExit
<1>3. ASSUME NEW w \in Earnable, AddPendingSubmission(w)
      PROVE  IInv'
  <2> USE <1>3 DEF AddPendingSubmission, runtimeVars
  <2>1. pendingSubmissions \in Seq(Earnable)
    BY DEF TypeOK
  <2>2. Pending' = Pending \cup {w}
    BY <2>1, AppendElements DEF Pending
  <2>3. TypeOK'
    BY <2>1 DEF TypeOK
  <2>4. handler # "off" /\ channel' = "signal"
    BY DEF Switched
  <2>5. pendingSubmissions # <<>> => Head(pendingSubmissions') = Head(pendingSubmissions)
    BY <2>1
  <2>6. pendingSubmissions' # <<>>
    BY <2>1
  <2>7. Sending' /\ Switched' /\ NoLostWakeUp' /\ CleanExit'
    BY <2>4, <2>5, <2>6 DEF Sending, Switched, NoLostWakeUp, CleanExit
  <2>8. NothingForgotten'
    BY <2>2 DEF NothingForgotten
  <2> QED  BY <2>3, <2>7, <2>8
<1> QED  BY <1>1, <1>2, <1>3 DEF GameNext

\* A session begins and ends with an empty list; one that ends cleanly has nothing
\* in it, and nothing being looked up.
LEMMA SessionKeeps ==
    ASSUME IInv, ~ LateLookups, SessionNext
    PROVE  IInv'
<1> USE DEF IInv, runtimeVars, flowVars, Sending, Switched, NothingForgotten, NoLostWakeUp, CleanExit
<1> pendingSubmissions = <<>> => Pending = {}
  BY DEF Pending
<1>1. CASE Launch
  BY <1>1 DEF Launch, TypeOK, Pending
<1>2. CASE StartRetroAchievements
  BY <1>2 DEF StartRetroAchievements, TypeOK, Pending
<1>3. CASE DisableRetroAchievements
  <2>1. handler' = "off" /\ pendingSubmissions' = <<>> /\ submission' = Nothing /\ reply' = "none"
    BY <1>3 DEF DisableRetroAchievements, EndFlow
  <2>2. TypeOK'
    BY <1>3, <2>1 DEF DisableRetroAchievements, EndFlow, TypeOK
  <2> QED  BY <1>3, <2>1, <2>2 DEF DisableRetroAchievements, Settled
<1>4. CASE Relaunch
  <2>1. handler' = "off" /\ pendingSubmissions' = <<>>
    BY <1>4 DEF Relaunch, EndFlow
  <2>2. TypeOK'
    BY <1>4, <2>1 DEF Relaunch, EndFlow, TypeOK
  <2> QED  BY <1>4, <2>1, <2>2 DEF Relaunch
<1>5. CASE ExitEmulator
  <2>1. TypeOK'
    <3>1. \/ dialog' = TRUE /\ game' = "paused"
          \/ dialog' = dialog /\ ~ dialog /\ game' = "leaving"
      BY <1>5, Zenon DEF ExitEmulator
    <3>2. dialog' \in BOOLEAN /\ (game' = "paused" => dialog') /\ (dialog' => game' \in {"running", "paused"})
      <4>1. CASE dialog' = TRUE /\ game' = "paused"
        BY <4>1, Zenon
      <4>2. CASE dialog' = dialog /\ ~ dialog /\ game' = "leaving"
        <5>1. dialog' = FALSE
          BY <4>2 DEF TypeOK
        <5>2. game' # "paused"
          BY <4>2
        <5> QED  BY <5>1, <5>2, Zenon
      <4> QED  BY <3>1, <4>1, <4>2
    <3> QED  BY <1>5, <3>1, <3>2 DEF ExitEmulator, TypeOK
  <2>2. UNCHANGED Pending
    BY <1>5 DEF ExitEmulator, Pending
  <2> QED  BY <1>5, <2>1, <2>2 DEF ExitEmulator, Settled
<1>6. CASE CancelExit
  BY <1>6 DEF CancelExit, TypeOK, Pending
<1>7. CASE DialogExit
  BY <1>7 DEF DialogExit, Settled, TypeOK, Pending
<1>8. CASE EmulatorStop
  BY <1>8 DEF EmulatorStop, TypeOK, Pending
<1>9. CASE Clear
  BY <1>9 DEF Clear, TypeOK
<1> QED
  BY <1>1, <1>2, <1>3, <1>4, <1>5, <1>6, <1>7, <1>8, <1>9 DEF SessionNext
-----------------------------------------------------------------------------
LEMMA InvariantHolds ==
    ASSUME ~ LateLookups
    PROVE  Spec => []IInv
<1>1. Init => IInv
  <2>1. Init => TypeOK
    <3> SUFFICES ASSUME Init PROVE TypeOK
      OBVIOUS
    <3>1. pendingSubmissions \in Seq(Earnable)
      BY DEF Init
    <3>2. dialog \in BOOLEAN /\ (game = "paused" => dialog) /\ (dialog => game \in {"running", "paused"})
      BY Zenon DEF Init
    <3> QED  BY <3>1, <3>2 DEF Init, TypeOK
  <2> QED
    BY <2>1 DEF Init, IInv, Sending, Switched, NothingForgotten, NoLostWakeUp, CleanExit
<1>2. IInv /\ [Next]_vars => IInv'
  <2> SUFFICES ASSUME IInv, [Next]_vars PROVE IInv'
    OBVIOUS
  <2>1. CASE FlowNext
    BY <2>1, FlowKeeps
  <2>2. CASE ServerNext
    BY <2>2, ServerKeeps DEF ServerNext
  <2>3. CASE GameNext
    BY <2>3, GameKeeps
  <2>4. CASE SessionNext
    BY <2>4, SessionKeeps
  <2>5. CASE UNCHANGED vars
    <3>1. UNCHANGED Pending
      BY <2>5 DEF vars, flowVars, Pending
    <3> QED
      BY <2>5, <3>1 DEF vars, runtimeVars, flowVars, IInv, TypeOK, Sending, Switched,
                        NothingForgotten, NoLostWakeUp, CleanExit
  <2> QED  BY <2>1, <2>2, <2>3, <2>4, <2>5 DEF Next
<1> QED  BY <1>1, <1>2, PTL DEF Spec

\* The type invariant, for every set of achievements and entries.
THEOREM TypeCorrect == ASSUME ~ LateLookups PROVE Spec => []TypeOK
<1> QED  BY InvariantHolds, PTL DEF IInv

\* What is earned is with the server, looked up or pending, through every failure of a
\* request and every submission added while one is out.
THEOREM NothingIsForgotten == ASSUME ~ LateLookups PROVE Spec => []NothingForgotten
<1> QED  BY InvariantHolds, PTL DEF IInv

\* The flow never sleeps over a list that holds something without a signal to wake it.
THEOREM NeverSleepsOverWork == ASSUME ~ LateLookups PROVE Spec => []NoLostWakeUp
<1> QED  BY InvariantHolds, PTL DEF IInv

\* A game left without unsynchronised data has everything it earned on the server.
THEOREM CleanExitLosesNothing == ASSUME ~ LateLookups PROVE Spec => []CleanExit
<1> QED  BY InvariantHolds, PTL DEF IInv
=============================================================================
