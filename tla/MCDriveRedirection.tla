------------------------- MODULE MCDriveRedirection -------------------------
(***************************************************************************)
(* DriveRedirection on small instances.                                    *)
(***************************************************************************)
EXTENDS DriveRedirection, TLC

CONSTANTS C, D

TwoServers == {0, 1}
OneServer == {0}

(* Both drives at once, or one after the other. *)
BothOrEach == {<<C, D>>, <<C>>, <<D>>}
JustOne == {<<C>>}

AllOperations == {"open", "opendir", "list", "read", "write", "delete", "close"}

WaiterSymmetry == Permutations(Waiter)

(* Bound: one handler at a time serves a request. *)
OneHandler == Cardinality({c \in Caller : thread[c] \in {"serve", "calling"}}) <= 1

OneHandlerSpec == DriveInit /\ [][DriveNext /\ OneHandler']_driveVars

DriveLiveSpec == DriveSpec /\ DriveFairness

=============================================================================
