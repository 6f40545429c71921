------------------------------- MODULE Daemon -------------------------------
(***************************************************************************)
(* The life of the daemon's process (daemon/main.m): what is lost with it  *)
(* and what is not.  launchd starts the binary at the live path whenever   *)
(* no process runs; a process ends by SIGTERM, by a crash or a kill at any *)
(* moment, or because the updater has swapped the binary.                  *)
(*                                                                         *)
(* Inside run the updater (AutoUpdate), the sessions' display controls     *)
(* (DisplayControl), and the server, which is here what module RDPServer   *)
(* shows it to be: it hands the display out, and raises and lowers the     *)
(* updater's flag, as DisplayOwnership says.                               *)
(***************************************************************************)
EXTENDS AutoUpdate, DisplayControl

CONSTANT MaxDeaths   (* signals and crashes *)

ASSUME MaxDeathsAssumption == MaxDeaths \in Nat

VARIABLES
  phase,                                     (* of the process             *)
  owners, retired, claimants, contested,     (* DisplayOwnership's         *)
  deaths,
  late                            (* who claimed after the updater's test  *)

Server == INSTANCE DisplayOwnership

serverVars    == <<owners, retired, claimants, hasActiveSession, contested, late>>
processVars   == <<phase, deaths>>
vars          == <<processVars, serverVars, updateVars, displayVars>>

up == phase # "down"

TypeOK ==
  /\ UpdateTypeOK /\ DisplayTypeOK
  /\ phase \in {"down", "up", "stopping"}
  /\ owners \in SUBSET Session /\ retired \in SUBSET Session
  /\ contested \in BOOLEAN
  /\ claimants \in SUBSET Session /\ late \in SUBSET Session
  /\ deaths \in 0 .. MaxDeaths

Init ==
  /\ UpdateInit /\ DisplayInit /\ Server!Init
  /\ late = {}
  /\ phase = "up" /\ deaths = 0

-----------------------------------------------------------------------------
(* The server.                                                             *)

(* An activated session stores itself as _activeSession, under the lock;   *)
(* even while main stops the server, if it had tested _running before.     *)
Claim(s) ==
  /\ up
  /\ Server!Claim(s)
  /\ late' = IF Committed THEN late \cup {s} ELSE late
  /\ UNCHANGED <<processVars, updateVars, displayVars>>

(* Faulty: the takeover does not wait for the predecessor.                 *)
AcquireAtOnce(s) ==
  /\ up /\ s \in claimants
  /\ owners' = owners \cup {s} /\ claimants' = claimants \ {s}
  /\ UNCHANGED <<retired, contested, hasActiveSession, late, processVars, updateVars,
                 displayVars>>

(* Its turn has come: it brings its display up.                            *)
Acquire(s) ==
  /\ up
  /\ Server!Acquire(s)
  /\ UNCHANGED <<late, processVars, updateVars, displayVars>>

(* Faulty: whoever ends, no session is active.                             *)
AnyEndLowersFlag ==
  /\ up /\ hasActiveSession
  /\ hasActiveSession' = FALSE
  /\ UNCHANGED <<owners, retired, claimants, contested, late, processVars, updateVars,
                 displayVars>>

(* sessionDidEnd of the last one.                                          *)
LowerFlag ==
  /\ up
  /\ Server!LowerFlag
  /\ UNCHANGED <<late, processVars, updateVars, displayVars>>

(* A claimant is superseded or leaves, or does not wait any longer.        *)
ClaimEnds ==
  /\ up
  /\ Server!Contest \/ \E s \in Session : Server!Withdraw(s)
  /\ UNCHANGED <<late, processVars, updateVars, displayVars>>

-----------------------------------------------------------------------------
(* The sessions' display controls: between the display's creation and its  *)
(* destruction.                                                            *)

StartControl(s) ==
  /\ up /\ s \in owners
  /\ Start(s)
  /\ UNCHANGED <<serverVars, processVars, updateVars>>

RunControl(s) ==
  /\ up
  /\ ControlStep(s)
  /\ UNCHANGED <<serverVars, processVars, updateVars>>

StopControl(s) ==
  /\ up
  /\ Stop(s) \/ StopFails(s)
  /\ UNCHANGED <<serverVars, processVars, updateVars>>

(* Faulty: the display goes before the display control.                    *)
DestroyFirst(s) ==
  /\ up
  /\ Server!GiveUp(s)
  /\ UNCHANGED <<late, processVars, updateVars, displayVars>>

(* teardown stops the control, then destroys the display.                  *)
DestroyDisplay(s) ==
  /\ up /\ place[s] = "stopped"
  /\ Server!GiveUp(s)
  /\ UNCHANGED <<late, processVars, updateVars, displayVars>>

(* With nobody logged in from afar, the desk user turns the panel up.      *)
DeskUserBrightens ==
  /\ panel = "dark" /\ owners = {}
  /\ \A s \in Session : tap[s] = "idle"
  /\ panel' = "user" /\ spoiled' = FALSE
  /\ UNCHANGED <<place, original, tap, serverVars, processVars, updateVars>>

-----------------------------------------------------------------------------
(* The updater runs in every phase of the process: main does not stop it.  *)
Update ==
  /\ up
  /\ CheckOnce
  /\ late' = IF updater' \in {"idle", "swap"} THEN {} ELSE late
  /\ UNCHANGED <<owners, retired, claimants, contested, processVars, displayVars>>

NewRelease ==
  /\ Publish
  /\ UNCHANGED <<owners, retired, claimants, contested, late, processVars, displayVars>>

-----------------------------------------------------------------------------
(* The process.                                                            *)

(* Everything in memory goes, whatever it was in the middle of.            *)
Die ==
  /\ phase' = "down"
  /\ owners' = {} /\ retired' = {} /\ contested' = FALSE
  /\ claimants' = {} /\ hasActiveSession' = FALSE /\ late' = {}
  /\ AbandonCheck /\ AbandonControls

(* restart: kickstart -k, or else exit(0).                                 *)
UpdaterExits ==
  /\ up /\ updater = "restart"
  /\ Die /\ UNCHANGED deaths

Crash ==
  /\ up /\ deaths < MaxDeaths
  /\ Die /\ deaths' = deaths + 1

(* SIGTERM or SIGINT: the server's stop disconnects its sessions and waits *)
(* for none of them; ...                                                   *)
Signalled ==
  /\ phase = "up" /\ deaths < MaxDeaths
  /\ phase' = "stopping" /\ deaths' = deaths + 1
  /\ Server!Stop
  /\ UNCHANGED <<late, updateVars, displayVars>>

(* ... then main returns.                                                  *)
MainReturns == phase = "stopping" /\ Die /\ UNCHANGED deaths

(* KeepAlive.                                                              *)
Relaunch ==
  /\ phase = "down" /\ phase' = "up"
  /\ LaunchBinary
  /\ UNCHANGED <<serverVars, deaths, displayVars>>

-----------------------------------------------------------------------------
Serve ==
  \/ \E s \in Session : \/ Claim(s) \/ Acquire(s)
                        \/ StartControl(s) \/ RunControl(s) \/ StopControl(s)
                        \/ DestroyDisplay(s)
  \/ LowerFlag \/ ClaimEnds

LifeCycle == UpdaterExits \/ Crash \/ Signalled \/ MainReturns \/ Relaunch

Next == Serve \/ DeskUserBrightens \/ Update \/ NewRelease \/ LifeCycle

Spec == Init /\ [][Next]_vars

Attempt(A) ==
  up /\ A /\ UNCHANGED <<serverVars, processVars, displayVars>>

(* The timer ticks, launchd keeps the daemon alive, and neither network    *)
(* nor codesign nor disk fails for ever.                                   *)
Fairness ==
  /\ WF_vars(Update) /\ WF_vars(UpdaterExits) /\ WF_vars(MainReturns)
  /\ WF_vars(Relaunch)
  /\ SF_vars(Attempt(FetchRelease)) /\ SF_vars(Attempt(FetchHash))
  /\ SF_vars(Attempt(Download)) /\ SF_vars(Attempt(Sign)) /\ SF_vars(Attempt(Swap))

FairSpec == Spec /\ Fairness

-----------------------------------------------------------------------------
(* Whatever fails and whenever the process dies, the binary launchd starts *)
(* is a released one, whole and signed: "the running daemon is never       *)
(* bricked".                                                               *)
LiveBinaryRuns == Runs(live) /\ live.version <= latest

(* No session dims the panel: it is as bright as the desk user had it,     *)
(* through takeovers and the tap's race with the stop, unless a restore    *)
(* failed, a process died on a dark panel, or two sessions dimmed at once. *)
PanelRestored ==
  ~contested /\ ~spoiled /\ (\A s \in Session : place[s] # "dimmed") => panel = "user"

(* The updater ends a process with an active session in it only if that    *)
(* one claimed after the last test: it is never one that was there.        *)
UpdaterSparesOwner ==
  up /\ updater = "restart" /\ ~contested => owners \cup claimants \subseteq late

(* The panel is not lit under a session that keeps it dark, but by a       *)
(* callback of the tap that was late for an earlier session's stop.        *)
PrivacyHeld ==
  [][panel = "dark" /\ panel' = "user" /\ ~contested
     => \/ \A s \in Session : ~(place[s] = "dimmed" /\ place'[s] = "dimmed")
        \/ \E s \in Session : tap[s] # "idle" /\ tap'[s] = "idle"]_vars

(* Once clients leave the Mac alone, it ends up with the latest release    *)
(* and stays there, whatever crashes left behind.                          *)
UpdateSettles == <>[]~hasActiveSession => <>[](up /\ running = latest)

-----------------------------------------------------------------------------
(* The inductive invariant, part by part.                                  *)

(* The display: one owner, whose control is the only one at work.          *)
OneOwner ==
  /\ ~contested => \A s, t \in owners : s = t
  /\ owners \cap retired = {} /\ claimants \cap (owners \cup retired) = {}
  /\ \A s \in Session : place[s] \in {"get", "set", "lit", "dimmed"} => s \in owners
  /\ \A s \in Session : place[s] \notin {"set", "dimmed"} => original[s] = "user"

(* What a control has read, and a callback is about to set, is the desk    *)
(* user's own brightness.                                                  *)
ReadsTheUsers ==
  ~contested /\ ~spoiled
  => \A s \in Session : original[s] = "user" /\ tap[s] # "dark"

(* The flag is up from a session's claim until it has given the display up.*)
FlagCovers ==
  /\ ~contested /\ owners \cup claimants # {} => hasActiveSession
  /\ ~contested /\ Committed => owners \cup claimants \subseteq late
  /\ phase = "down" => owners = {} /\ claimants = {} /\ updater = "idle"

(* What the temporary file holds at each step.                             *)
TempFile ==
  /\ remoteVer <= latest
  /\ updater = "sign" => tmp = Whole(remoteVer)
  /\ updater \in {"retest", "swap"} => tmp = Signed(remoteVer)

DaemonInv ==
  /\ TypeOK
  /\ OneOwner
  /\ ReadsTheUsers
  /\ FlagCovers
  /\ TempFile
  /\ LiveBinaryRuns
  /\ PanelRestored

=============================================================================
