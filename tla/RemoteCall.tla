----------------------------- MODULE RemoteCall -----------------------------
(***************************************************************************)
(* What the request table and the waiters promise a WebDAV thread: a call  *)
(* ends once, either with the answer the client gave to that very call or  *)
(* without one, and an answer that comes too late reaches no later call.   *)
(***************************************************************************)
CONSTANT Caller

VARIABLES
  call,      (* is the caller idle, or is its call unanswered or served?   *)
  answered   (* the callers whose last call ended with the client's answer *)

callVars == <<call, answered>>

Init ==
  /\ call = [c \in Caller |-> "idle"]
  /\ answered = {}

Ask(c) ==
  /\ call[c] = "idle"
  /\ call' = [call EXCEPT ![c] = "asked"]
  /\ answered' = answered \ {c}

(* The client serves the call: only now may it end with an answer. *)
Serve(c) ==
  /\ call[c] = "asked"
  /\ call' = [call EXCEPT ![c] = "served"]
  /\ UNCHANGED answered

Return(c) ==
  /\ call[c] = "served"
  /\ call' = [call EXCEPT ![c] = "idle"]
  /\ answered' = answered \cup {c}

(* The call ends without an answer, at any time, even at once. *)
GiveUp(c) ==
  /\ call' = [call EXCEPT ![c] = "idle"]
  /\ answered' = answered \ {c}

Next == \E c \in Caller : Ask(c) \/ Serve(c) \/ Return(c) \/ GiveUp(c)

Spec == Init /\ [][Next]_callVars

=============================================================================
