---------------------------- MODULE MCRDPServer ----------------------------
(***************************************************************************)
(* Bounds for model checking RDPServer.                                    *)
(*                                                                         *)
(* Safety: three connections, all interchangeable.  Three are enough for   *)
(* an owner, a successor that waits for it, and a third client that        *)
(* supersedes the successor while it waits.                                *)
(***************************************************************************)
EXTENDS RDPServer, TLC

SessionSymmetry == Permutations(Session)

-----------------------------------------------------------------------------
(* Liveness has no symmetry, and three connections in any order are too    *)
(* many behaviours for TLC's liveness check; the sessions are numbers and  *)
(* three bounds are put on the behaviours (and on nothing else):           *)

(* a client connects only when those before it have claimed or ended, ...  *)
OneByOne ==
  \A s, t \in Session : s < t /\ pc'[t] # "idle" => s \in claimed' \/ pc'[s] = "done"

(* ... the server is not stopped, ...                                      *)
NeverStopped == phase' = "running"

(* ... and a virtual display can always be created (the other kind makes   *)
(* no difference to the control of a session).                             *)
VirtualOnly == \A s \in Session : display'[s] # "main"

LiveSpec ==
  /\ Init
  /\ [][Next /\ OneByOne /\ NeverStopped /\ VirtualOnly]_vars
  /\ Fairness

=============================================================================
