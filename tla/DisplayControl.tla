--------------------------- MODULE DisplayControl ---------------------------
(***************************************************************************)
(* Privacy dimming of the Mac's built-in panel (daemon/DisplayControl.m).  *)
(*                                                                         *)
(* A session's display control reads the panel's brightness, sets it to 0  *)
(* and keeps what it read; stop sets it back.  The panel is one and        *)
(* outlives the session and the process: what a control reads may be the   *)
(* darkness another one left.  The event tap's callback restores the panel *)
(* on a thread of its own, which may be late for the stop.                 *)
(*                                                                         *)
(* Sessions, and who may start a control when, are the Daemon's.           *)
(***************************************************************************)
CONSTANT Session

VARIABLES
  panel,      (* the panel's brightness: the desk user's, or 0             *)
  place,      (* where each session's control is                           *)
  original,   (* what it read, then its _savedBrightness; else "user"      *)
  tap,        (* what the tap's callback is about to set, or "idle"        *)
  spoiled     (* a restore failed, or a process ended with the panel dark  *)

displayVars == <<panel, place, original, tap, spoiled>>

-----------------------------------------------------------------------------
Brightness == {"user", "dark"}

(* "dimmed" is _displaysDimmed; "lit" a started control that dims nothing. *)
Place == {"off", "get", "set", "lit", "dimmed", "stopped"}

DisplayTypeOK ==
  /\ panel \in Brightness
  /\ place \in [Session -> Place]
  /\ original \in [Session -> Brightness]
  /\ tap \in [Session -> Brightness \cup {"idle"}]
  /\ spoiled \in BOOLEAN

NoControls ==
  /\ place = [s \in Session |-> "off"]
  /\ original = [s \in Session |-> "user"]
  /\ tap = [s \in Session |-> "idle"]

DisplayInit == panel = "user" /\ NoControls /\ spoiled = FALSE

(* The process ends: its controls are gone, the panel stays as it is.      *)
AbandonControls ==
  /\ place' = [s \in Session |-> "off"]
  /\ original' = [s \in Session |-> "user"]
  /\ tap' = [s \in Session |-> "idle"]
  /\ spoiled' = (spoiled \/ panel = "dark")
  /\ UNCHANGED panel

-----------------------------------------------------------------------------
(* start, by the session's queue.  Shared mode, no DisplayServices, no     *)
(* display list, or no built-in display but the captured one: no dimming.  *)
Start(s) ==
  /\ place[s] = "off"
  /\ \E p \in {"get", "lit"} : place' = [place EXCEPT ![s] = p]
  /\ UNCHANGED <<panel, original, tap, spoiled>>

(* DisplayServicesGetBrightness.                                           *)
GetBrightness(s) ==
  /\ place[s] = "get"
  /\ place' = [place EXCEPT ![s] = "set"]
  /\ original' = [original EXCEPT ![s] = panel]
  /\ UNCHANGED <<panel, tap, spoiled>>

(* DisplayServicesSetBrightness(0); what was read is saved and the input   *)
(* monitor installed before anybody else looks.                            *)
Dim(s) ==
  /\ place[s] = "set"
  /\ place' = [place EXCEPT ![s] = "dimmed"]
  /\ panel' = "dark"
  /\ UNCHANGED <<original, tap, spoiled>>

Forget(s) == original' = [original EXCEPT ![s] = "user"]

(* Either call fails: the display is not dimmed.                           *)
DimFails(s) ==
  /\ place[s] \in {"get", "set"}
  /\ place' = [place EXCEPT ![s] = "lit"]
  /\ Forget(s)
  /\ UNCHANGED <<panel, tap, spoiled>>

-----------------------------------------------------------------------------
(* stop: undimDisplays, then nothing of the control is left.               *)
Stop(s) ==
  /\ place[s] \in {"lit", "dimmed"}
  /\ place' = [place EXCEPT ![s] = "stopped"]
  /\ panel' = IF place[s] = "dimmed" THEN original[s] ELSE panel
  /\ Forget(s)
  /\ UNCHANGED <<tap, spoiled>>

(* A failed restore is logged and what was saved is dropped all the same.  *)
StopFails(s) ==
  /\ place[s] = "dimmed"
  /\ place' = [place EXCEPT ![s] = "stopped"]
  /\ spoiled' = TRUE
  /\ Forget(s)
  /\ UNCHANGED <<panel, tap>>

-----------------------------------------------------------------------------
(* handleLocalUserActivity, if anything ever runs the tap's run loop.  It  *)
(* has seen _displaysDimmed and the saved brightness, ...                  *)
TapFires(s) ==
  /\ place[s] = "dimmed" /\ tap[s] = "idle"
  /\ tap' = [tap EXCEPT ![s] = original[s]]
  /\ UNCHANGED <<panel, place, original, spoiled>>

(* ... and sets it, unless that fails or a stop has taken it meanwhile.    *)
TapRestores(s) ==
  /\ tap[s] # "idle"
  /\ tap' = [tap EXCEPT ![s] = "idle"]
  /\ place' = [place EXCEPT ![s] = IF @ = "dimmed" THEN "lit" ELSE @]
  /\ \/ panel' = tap[s] /\ UNCHANGED spoiled
     \/ UNCHANGED panel /\ spoiled' = (spoiled \/ place[s] = "dimmed")
  /\ Forget(s)

ControlStep(s) ==
  \/ GetBrightness(s) \/ Dim(s) \/ DimFails(s)
  \/ TapFires(s) \/ TapRestores(s)

=============================================================================
