--------------------------- MODULE MCDeviceRequests ---------------------------
(***************************************************************************)
(* DeviceRequests on small instances.                                      *)
(***************************************************************************)
EXTENDS DeviceRequests, TLC

RequestSymmetry == Permutations(Caller) \cup Permutations(Waiter)

(* Bound: the ids wrap around, and what follows the first reuse of a       *)
(* pending one is not explored.                                            *)
UntilReuse == ~reused

(* Bound: nothing in DeviceRequests depends on an answer's payload, so     *)
(* what follows an answer without one is left to DriveRedirection.         *)
PayloadThere == \A w \in Waiter : heap[w].answer # None => heap[w].answer.result.payload

=============================================================================
