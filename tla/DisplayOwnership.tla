-------------------------- MODULE DisplayOwnership --------------------------
(***************************************************************************)
(* What the takeover protocol promises the rest of the daemon about the    *)
(* Mac's display: sessions claim it, one at a time owns it, a session that *)
(* has given it up never gets it back, and the flag that the updater reads *)
(* falls only when nobody claims or owns it.  All this is void once the    *)
(* display is contested: a takeover went on after its wait timed out, or   *)
(* the server was stopped.                                                 *)
(***************************************************************************)
CONSTANT Session

VARIABLES
  owners,            (* the sessions that own the display                  *)
  retired,           (* the sessions that have given it up                 *)
  claimants,         (* active sessions that have not had it yet           *)
  hasActiveSession,  (* the updater's flag                                 *)
  contested          (* exclusive ownership is no longer promised          *)

ownershipVars == <<owners, retired, claimants, hasActiveSession, contested>>

Init ==
  /\ owners = {} /\ retired = {} /\ claimants = {}
  /\ hasActiveSession = FALSE
  /\ contested = FALSE

(* A session becomes the active one, whoever owns the display.             *)
Claim(s) ==
  /\ s \notin owners \cup retired \cup claimants
  /\ claimants' = claimants \cup {s}
  /\ hasActiveSession' = TRUE
  /\ UNCHANGED <<owners, retired, contested>>

(* It is superseded before its turn, or its client leaves.                 *)
Withdraw(s) ==
  /\ s \in claimants
  /\ claimants' = claimants \ {s}
  /\ UNCHANGED <<owners, retired, hasActiveSession, contested>>

Acquire(s) ==
  /\ s \in claimants
  /\ owners = {} \/ contested
  /\ owners' = owners \cup {s}
  /\ claimants' = claimants \ {s}
  /\ UNCHANGED <<retired, hasActiveSession, contested>>

GiveUp(s) ==
  /\ s \in owners
  /\ owners' = owners \ {s}
  /\ retired' = retired \cup {s}
  /\ UNCHANGED <<claimants, hasActiveSession, contested>>

LowerFlag ==
  /\ hasActiveSession
  /\ owners \cup claimants = {} \/ contested
  /\ hasActiveSession' = FALSE
  /\ UNCHANGED <<owners, retired, claimants, contested>>

(* A claimant goes on although its predecessor has not torn down.          *)
Contest ==
  /\ ~contested
  /\ claimants # {}
  /\ contested' = TRUE
  /\ UNCHANGED <<owners, retired, claimants, hasActiveSession>>

(* The registry is dropped under the sessions that are still there.        *)
Stop ==
  /\ contested' = TRUE
  /\ hasActiveSession' = FALSE
  /\ UNCHANGED <<owners, retired, claimants>>

Next ==
  \/ \E s \in Session : Claim(s) \/ Withdraw(s) \/ Acquire(s) \/ GiveUp(s)
  \/ LowerFlag \/ Contest \/ Stop

Spec == Init /\ [][Next]_ownershipVars

=============================================================================
