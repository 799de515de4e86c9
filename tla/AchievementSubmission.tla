----------------------- MODULE AchievementSubmission -----------------------
(***************************************************************************)
(* How what the player earns reaches the RetroAchievements server          *)
(* (RetroAchievementsSubmissionHandler.kt and its callers).                *)
(*                                                                         *)
(* The runtime fires an achievement or completes a leaderboard entry; a    *)
(* coroutine looks its row up and adds it to a list; submissionFlow, asleep*)
(* on a channel while the list is empty, sends the head of the list, and   *)
(* moves what failed to the end of it.  The list lives in memory only:     *)
(* NoCacheRetroAchievementsDao keeps no pending rows, so the repository's  *)
(* insertion and the worker it schedules do nothing, and are left out.     *)
(*                                                                         *)
(* All of it runs on the main thread; a step ends where a coroutine is     *)
(* suspended.  The server is external: it takes a request or not, and its  *)
(* answer arrives or not.  The wait after a failure ends by itself after   *)
(* two minutes at the latest, so the events that end it earlier (a change  *)
(* of connectivity, a retry asked for) are not told apart.  A flow that is *)
(* cancelled ends at once.                                                 *)
(***************************************************************************)
EXTENDS Naturals, Sequences, SequencesExt

CONSTANTS
    Achievements, Entries,  \* what can be earned: achievements, values on leaderboards
    Nothing,                \* none of these
    MaxPending,             \* bound on what is being looked up or pending
    LateLookups             \* a lookup may outlive the user's next step

ASSUME SubmissionAssumption ==
    /\ Achievements \cap Entries = {} /\ Nothing \notin Achievements \cup Entries
    /\ MaxPending \in Nat /\ LateLookups \in BOOLEAN

Earnable == Achievements \cup Entries

VARIABLES
    game,       \* "none" | "running" | "paused" | "leaving": all was sent | "abandoning": not so
    dialog,     \* PendingSubmissionsDialog is open
    loaded,     \* achievements in the runtime
    active,     \* those of them that have not been triggered
    lookups,    \* what onAchievementTriggered and onLeaderboardAttemptCompleted look up
    pendingSubmissions,
    channel,    \* "none" | "empty" | "signal": pendingSubmissionsChannel, conflated
    handler,    \* "off" | "receiving" | "sending" | "waiting": submissionFlow
    submission, \* what it sends
    reply,      \* "none" | "success" | "already": the server's, on its way
    accepted,   \* what the server has
    earned      \* history: what was earned in this session

runtimeVars == <<loaded, active>>
flowVars == <<pendingSubmissions, channel, handler, submission, reply>>
vars == <<game, dialog, runtimeVars, lookups, flowVars, accepted, earned>>

TypeOK ==
    /\ game \in {"none", "running", "paused", "leaving", "abandoning"}
    /\ dialog \in BOOLEAN
    /\ game = "paused" => dialog
    /\ dialog => game \in {"running", "paused"}
    /\ loaded \subseteq Achievements /\ active \subseteq loaded
    /\ lookups \subseteq Earnable
    /\ pendingSubmissions \in Seq(Earnable)
    /\ channel \in {"none", "empty", "signal"}
    /\ handler \in {"off", "receiving", "sending", "waiting"}
    /\ submission \in Earnable \cup {Nothing}
    /\ reply \in {"none", "success", "already"}
    /\ accepted \subseteq Earnable /\ earned \subseteq Earnable

Pending == {pendingSubmissions[i] : i \in DOMAIN pendingSubmissions}

Init ==
    /\ game = "none" /\ dialog = FALSE
    /\ loaded = {} /\ active = {} /\ lookups = {}
    /\ pendingSubmissions = <<>> /\ channel = "none"
    /\ handler = "off" /\ submission = Nothing /\ reply = "none"
    /\ accepted = {} /\ earned = {}
-----------------------------------------------------------------------------
(* submissionFlow                                                          *)

\* The loop over the list: send the first, or sleep when there is none.
SendNext(list) ==
    /\ pendingSubmissions' = list
    /\ reply' = "none"
    /\ \/ list = <<>> /\ handler' = "receiving" /\ submission' = Nothing
       \/ list # <<>> /\ handler' = "sending" /\ submission' = Head(list)

\* submissionsChannel.receive() returns.
Receive ==
    /\ handler = "receiving" /\ channel = "signal"
    /\ channel' = "empty"
    /\ SendNext(pendingSubmissions)
    /\ UNCHANGED <<game, dialog, runtimeVars, lookups, accepted, earned>>

\* The server takes the request; an achievement is awarded once.
Serve(w) ==
    /\ handler = "sending" /\ submission = w /\ reply = "none"
    /\ reply' = IF w \in accepted \cap Achievements THEN "already" ELSE "success"
    /\ accepted' = accepted \cup {w}
    /\ UNCHANGED <<game, dialog, runtimeVars, lookups, pendingSubmissions, channel, handler,
                   submission, earned>>

\* The reason of an error is taken from the answer with toString(), which puts a
\* string of JSON between quotation marks; the prefix is compared with that.
AlreadyHas == "User already has"
Reason(r) == IF r = "already" THEN <<"quote", AlreadyHas, "quote">> ELSE <<>>
Ignored(reason) == reason # <<>> /\ Head(reason) = AlreadyHas
Succeeds(r) == r = "success" \/ Ignored(Reason(r))

\* What was sent leaves the list, which may have grown since; or goes to its end.
Sent == RemoveFirst(pendingSubmissions, submission)
\* Mutants: what failed is taken for sent; what failed is sent again first.
FailedIsSent == Sent
FailedGoesFirst == <<submission>> \o Sent
Resubmit == Append(Sent, submission)

Fails ==
    /\ pendingSubmissions' = Resubmit
    /\ handler' = "waiting" /\ submission' = Nothing /\ reply' = "none"

\* Mutant: one submission for each signal, of a channel that keeps one.
AnswerOncePerSignal ==
    /\ handler = "sending" /\ reply # "none"
    /\ IF Succeeds(reply)
          THEN /\ pendingSubmissions' = Sent /\ handler' = "receiving"
               /\ submission' = Nothing /\ reply' = "none"
          ELSE Fails
    /\ UNCHANGED <<game, dialog, runtimeVars, lookups, channel, accepted, earned>>

\* The server's answer arrives.
Answer ==
    /\ handler = "sending" /\ reply # "none"
    /\ IF Succeeds(reply) THEN SendNext(Sent) ELSE Fails
    /\ UNCHANGED <<game, dialog, runtimeVars, lookups, channel, accepted, earned>>

\* No connection, no login or an error of HTTP; the server may have the request.
RequestFails ==
    /\ handler = "sending"
    /\ Fails
    /\ UNCHANGED <<game, dialog, runtimeVars, lookups, channel, accepted, earned>>

EndWait ==
    /\ handler = "waiting"
    /\ SendNext(pendingSubmissions)
    /\ UNCHANGED <<game, dialog, runtimeVars, lookups, channel, accepted, earned>>

\* The flow's onCompletion, if there is a flow.  The code cancels it, and it ends
\* where it is suspended: here in the same step.
EndFlow ==
    \/ handler = "off" /\ UNCHANGED flowVars
    \/ /\ handler # "off" /\ handler' = "off"
       /\ pendingSubmissions' = <<>> /\ channel' = "none"
       /\ submission' = Nothing /\ reply' = "none"
-----------------------------------------------------------------------------
(* The running game                                                        *)

Room == Cardinality(lookups) + Len(pendingSubmissions) < MaxPending

\* The runtime fires; an achievement does not fire again until it is reset.
Earn(w) ==
    /\ game = "running" /\ handler # "off"
    /\ w \notin lookups /\ Room
    /\ \/ w \in active /\ active' = active \ {w}
       \/ w \in Entries \ earned /\ UNCHANGED active
    /\ lookups' = lookups \cup {w}
    /\ earned' = earned \cup {w}
    /\ UNCHANGED <<game, dialog, loaded, flowVars, accepted>>

\* The row is found (updateGameData wrote it before the game was set up); a
\* signal to a channel that has one is dropped, as is one to no channel.
AddPendingSubmission(w) ==
    /\ w \in lookups
    /\ lookups' = lookups \ {w}
    /\ pendingSubmissions' = Append(pendingSubmissions, w)
    /\ channel' = IF channel = "none" THEN "none" ELSE "signal"
    /\ UNCHANGED <<game, dialog, runtimeVars, handler, submission, reply, accepted, earned>>

Settled == LateLookups \/ lookups = {}

\* Reset makes the runtime watch all its achievements again.
ResetEmulator ==
    /\ game = "running" /\ ~ dialog /\ Settled
    /\ active' = loaded
    /\ UNCHANGED <<game, dialog, loaded, lookups, flowVars, accepted, earned>>
-----------------------------------------------------------------------------
(* The session                                                             *)

Launch ==
    /\ game = "none"
    /\ game' = "running"
    /\ earned' = {}
    /\ UNCHANGED <<dialog, runtimeVars, lookups, flowVars, accepted>>

\* The server has said what is unlocked, and accepted the session.
StartRetroAchievements ==
    /\ game = "running" /\ handler = "off"
    /\ handler' = "receiving" /\ channel' = "empty"
    /\ loaded' = Achievements \ accepted /\ active' = loaded'
    /\ UNCHANGED <<game, dialog, lookups, pendingSubmissions, submission, reply, accepted, earned>>

\* The user logs out in the settings: the flow ends, lookups go on.
DisableRetroAchievements ==
    /\ game = "running" /\ ~ dialog /\ handler # "off" /\ Settled
    /\ loaded' = {} /\ active' = {}
    /\ EndFlow
    /\ earned' = {}
    /\ UNCHANGED <<game, dialog, lookups, accepted>>

\* Another game is launched from outside: the session's scope is cancelled.  A
\* dialog that is open stays so.
Relaunch ==
    /\ game \in {"running", "paused"} /\ game' = "running"
    /\ loaded' = {} /\ active' = {} /\ lookups' = {} /\ earned' = {}
    /\ EndFlow
    /\ UNCHANGED <<dialog, accepted>>

\* Mutant: only achievements are asked for, as getPendingAchievementsFlow lists them.
ExitPastEntries ==
    /\ game = "running" /\ ~ dialog /\ Settled
    /\ \/ Pending \cap Achievements # {} /\ dialog' = TRUE /\ game' = "paused"
       \/ Pending \cap Achievements = {} /\ game' = "leaving" /\ UNCHANGED dialog
    /\ UNCHANGED <<runtimeVars, lookups, flowVars, accepted, earned>>

\* The user asks to exit.
ExitEmulator ==
    /\ game = "running" /\ ~ dialog /\ Settled
    /\ \/ pendingSubmissions # <<>> /\ dialog' = TRUE /\ game' = "paused"
       \/ pendingSubmissions = <<>> /\ game' = "leaving" /\ UNCHANGED dialog
    /\ UNCHANGED <<runtimeVars, lookups, flowVars, accepted, earned>>

CancelExit ==
    /\ dialog /\ dialog' = FALSE /\ game' = "running"
    /\ UNCHANGED <<runtimeVars, lookups, flowVars, accepted, earned>>

\* The dialog exits: by itself when nothing is pending, or the user insists.
DialogExit ==
    /\ dialog /\ Settled /\ dialog' = FALSE
    /\ game' = IF pendingSubmissions = <<>> THEN "leaving" ELSE "abandoning"
    /\ UNCHANGED <<runtimeVars, lookups, flowVars, accepted, earned>>

\* The emulated console stops, by itself or by an error: nobody is asked, and the
\* activity ends with what it shows.
EmulatorStop ==
    /\ game \in {"running", "paused"}
    /\ game' = "abandoning" /\ dialog' = FALSE
    /\ UNCHANGED <<runtimeVars, lookups, flowVars, accepted, earned>>

\* onCleared: the activity is gone, and with it the scope and the handler.
Clear ==
    /\ game \in {"leaving", "abandoning"}
    /\ game' = "none"
    /\ loaded' = {} /\ active' = {} /\ lookups' = {}
    /\ pendingSubmissions' = <<>> /\ channel' = "none"
    /\ handler' = "off" /\ submission' = Nothing /\ reply' = "none"
    /\ UNCHANGED <<dialog, accepted, earned>>
-----------------------------------------------------------------------------
FlowNext == Receive \/ Answer \/ RequestFails \/ EndWait
ServerNext == \E w \in Earnable : Serve(w)
GameNext == ResetEmulator \/ \E w \in Earnable : Earn(w) \/ AddPendingSubmission(w)
SessionNext ==
    \/ Launch \/ StartRetroAchievements \/ DisableRetroAchievements \/ Relaunch
    \/ ExitEmulator \/ CancelExit \/ DialogExit \/ EmulatorStop \/ Clear

Next == FlowNext \/ ServerNext \/ GameNext \/ SessionNext

Spec == Init /\ [][Next]_vars

\* Requests end and waits end; whatever is sent again and again gets through to
\* the server in the end.  The user and the game owe nothing.
FairSpec == Spec /\ WF_vars(FlowNext) /\ \A w \in Earnable : SF_vars(Serve(w))
-----------------------------------------------------------------------------
\* Nothing that is earned is forgotten between the runtime, the lookups, the list
\* and the request, whatever fails and whatever is added while a request is out.
NothingForgotten ==
    handler # "off" => earned \subseteq accepted \cup lookups \cup Pending

\* submissionFlow never sleeps on its channel with something in the list.
NoLostWakeUp ==
    handler = "receiving" /\ pendingSubmissions # <<>> => channel = "signal"

\* A user who exits without being told of unsynchronised data, or who is told that
\* all has been synchronised, loses nothing.
CleanExit == game = "leaving" => earned \subseteq accepted

\* One submission that fails for ever holds up none of the others.
SubmittedInTheEnd ==
    \A w \in Earnable : (w \in Pending /\ handler # "off") ~> (w \in accepted \/ handler = "off")
=============================================================================
