--------------------------- MODULE DeviceRequests ---------------------------
(***************************************************************************)
(* Device requests (IRPs) of the RDPDR channel, from the WebDAV thread     *)
(* that needs one to the peer loop that gets the client's completion.      *)
(*                                                                         *)
(* A thread allocates an IrpWaiter with two references, sends the request  *)
(* under xportLock, which puts it into a slot of the pending table, and    *)
(* blocks for at most thirty seconds.  The peer loop, which holds the same *)
(* lock, looks a completion up by its id, frees the slot, calls            *)
(* irp_waiter_cb and lets it drop the second reference                     *)
(* (protocol/RDPWebDAV.c:31-131, 385-429; protocol/RDPPeer.c:1440-1485,    *)
(* 1936-1971).                                                             *)
(*                                                                         *)
(* A critical section of xportLock or of a waiter's mutex is one action;   *)
(* the callback is two, for it drops its reference in a second section of  *)
(* the waiter's mutex.  The peer loop keeps xportLock in between.          *)
(***************************************************************************)
EXTENDS Integers

CONSTANTS
  Caller,     (* the threads that call irp_send_wait, one per WebDAV server *)
  Waiter,     (* the memory an IrpWaiter can be allocated in                *)
  Slots,      (* RDPDR_MAX_PENDING                                          *)
  IdLimit,    (* ids are integers modulo this number, 2^32 in the code      *)
  Operation,  (* the operations callers ask for                             *)
  Status,     (* the outcomes the client reports                            *)
  None        (* NULL                                                       *)

(* What a completion leaves in a waiter: the client's status, and whether  *)
(* the payload a caller may need is there.  It is not if the client sends  *)
(* none, or one too short, or if there is no memory for the copy.          *)
Result == [status : Status, payload : BOOLEAN]

ASSUME TableAssumption ==
  /\ Slots \in Nat \ {0}
  /\ IdLimit \in Nat \ {0, 1}
  /\ None \notin Caller /\ None \notin Waiter /\ None \notin Result

VARIABLES
  pending,      (* rdpdrPending                                             *)
  nextReqId,    (* rdpdrNextReqId                                           *)
  outstanding,  (* requests at the client, and answers on their way back    *)
  connected,    (* does the peer loop still run?                            *)
  callback,     (* the waiter whose callback is about to drop its reference *)
  heap,         (* the waiters; refs = 0 is free memory                     *)
  pc,           (* where each caller is                                     *)
  waiter,       (* w_alloc, the caller's waiter                             *)
  outcome,      (* what the caller's last call returned, None for NULL      *)
  reused        (* history: an id was issued while a slot still held it     *)

tableVars == <<pending, nextReqId, outstanding, connected, callback, reused>>
callerVars == <<pc, waiter, outcome>>
requestVars == <<tableVars, heap, callerVars>>

-----------------------------------------------------------------------------
Slot == 1..Slots

(* What the client sees of a request, and, for the properties only, who    *)
(* waits for its answer.  The capacity probe has neither caller nor waiter.*)
Request ==
  [id : 1..(IdLimit - 1), op : Operation, caller : Caller, waiter : Waiter]
    \cup [id : 1..(IdLimit - 1), op : {"capacity"}, caller : {None}, waiter : {None}]

Answer == [request : Request, result : Result]

Place == {"ready", "send", "refused", "check", "blocked", "result"}

FreeSlot == [id |-> 0, waiter |-> None]
Cell == [refs : Int, done : BOOLEAN, answer : Answer \cup {None}]
Garbage == [refs |-> 0, done |-> FALSE, answer |-> None]

TypeOK ==
  /\ pending \in [Slot -> [id : 0..(IdLimit - 1), waiter : Waiter \cup {None}]]
  /\ nextReqId \in 0..(IdLimit - 1)
  /\ outstanding \subseteq Request
  /\ connected \in BOOLEAN
  /\ callback \in Waiter \cup {None}
  /\ heap \in [Waiter -> Cell]
  /\ pc \in [Caller -> Place]
  /\ waiter \in [Caller -> Waiter \cup {None}]
  /\ outcome \in [Caller -> Result \cup {None}]
  /\ \A c \in Caller : waiter[c] = None <=> pc[c] = "ready"
  /\ \A c \in Caller : pc[c] # "ready" => outcome[c] = None
  /\ reused \in BOOLEAN

Init ==
  /\ pending = [i \in Slot |-> FreeSlot]
  /\ nextReqId = 0
  /\ outstanding = {}
  /\ connected = TRUE
  /\ callback = None
  /\ heap = [w \in Waiter |-> Garbage]
  /\ pc = [c \in Caller |-> "ready"]
  /\ waiter = [c \in Caller |-> None]
  /\ outcome = [c \in Caller |-> None]
  /\ reused = FALSE

-----------------------------------------------------------------------------
(* The table and the waiters                                               *)

(* The callback holds xportLock until its second critical section is over. *)
xportLockFree == callback = None

(* Faulty: the id 0 is not skipped. *)
NextIdMayBeZero == IF nextReqId + 1 = IdLimit THEN 0 ELSE nextReqId + 1

(* The next id; the counter wraps around to 0, which marks a free slot and *)
(* is skipped.                                                             *)
NextId == IF nextReqId + 1 = IdLimit THEN 1 ELSE nextReqId + 1

(* Faulty: a completion is given to the oldest taken slot. *)
FirstTaken(table, id) ==
  {i \in Slot : /\ (table[i].id = 0) = (id = 0)
                /\ \A j \in 1..(i - 1) : (table[j].id = 0) # (id = 0)}

(* The first slot of a table with the id, if there is one. *)
FirstWith(table, id) ==
  {i \in Slot : table[i].id = id /\ \A j \in 1..(i - 1) : table[j].id # id}

FirstFree == FirstWith(pending, 0)

(* irp_waiter_unref: the last reference frees the memory. *)
Dropped(cell) ==
  IF cell.refs = 1 THEN Garbage
  ELSE [refs |-> cell.refs - 1, done |-> cell.done, answer |-> cell.answer]

Unref(memory, w) == [memory EXCEPT ![w] = Dropped(memory[w])]

(* The first critical section of irp_waiter_cb; a probe has no callback.   *)
(* Whether the payload could be copied is part of the answer's result.     *)
Completed(cell, answer) ==
  [refs   |-> cell.refs,
   done   |-> TRUE,
   answer |-> IF cell.answer = None THEN answer ELSE cell.answer]

Fire(memory, w, answer) ==
  IF w = None THEN memory ELSE [memory EXCEPT ![w] = Completed(memory[w], answer)]

(* rdpdr_alloc_request into slot i. *)
Allocated(i, w) == [pending EXCEPT ![i] = [id |-> NextId, waiter |-> w]]

IssueId ==
  /\ nextReqId' = NextId
  /\ reused' = (reused \/ \E i \in Slot : pending[i].id = NextId)

(* A send helper that registers the request and then fails to write it     *)
(* frees the request again, by its id, which runs the callback without an  *)
(* answer and on the caller's own thread.                                  *)
RegisterAndFree(w) ==
  \E i \in FirstFree : \E j \in FirstWith(Allocated(i, w), NextId) :
    LET registered == Allocated(i, w)
        v == registered[j].waiter
    IN  /\ pending' = [registered EXCEPT ![j] = FreeSlot]
        /\ heap' = IF v = None THEN heap ELSE Unref(Fire(heap, v, None), v)

-----------------------------------------------------------------------------
(* The caller: irp_send_wait and what surrounds it                         *)

irp_waiter_alloc(c) ==
  /\ pc[c] = "ready"
  /\ \E w \in Waiter :
       /\ heap[w].refs <= 0
       /\ heap' = [heap EXCEPT ![w] = [refs |-> 2, done |-> FALSE, answer |-> None]]
       /\ waiter' = [waiter EXCEPT ![c] = w]
  /\ pc' = [pc EXCEPT ![c] = "send"]
  /\ outcome' = [outcome EXCEPT ![c] = None]
  /\ UNCHANGED tableVars

AllocFails(c) ==
  /\ pc[c] = "ready"
  /\ outcome' = [outcome EXCEPT ![c] = None]
  /\ UNCHANGED <<tableVars, heap, pc, waiter>>

Send(c, op) ==
  /\ pc[c] = "send"
  /\ xportLockFree
  /\ \E i \in FirstFree : pending' = Allocated(i, waiter[c])
  /\ IssueId
  /\ outstanding' = outstanding \cup
       {[id |-> NextId, op |-> op, caller |-> c, waiter |-> waiter[c]]}
  /\ pc' = [pc EXCEPT ![c] = "check"]
  /\ UNCHANGED <<connected, callback, heap, waiter, outcome>>

TableFull(c) ==
  /\ pc[c] = "send"
  /\ xportLockFree
  /\ FirstFree = {}
  /\ pc' = [pc EXCEPT ![c] = "refused"]
  /\ UNCHANGED <<tableVars, heap, waiter, outcome>>

WriteFails(c) ==
  /\ pc[c] = "send"
  /\ xportLockFree
  /\ RegisterAndFree(waiter[c])
  /\ IssueId
  /\ pc' = [pc EXCEPT ![c] = "refused"]
  /\ UNCHANGED <<outstanding, connected, callback, waiter, outcome>>

(* Faulty: the callback's reference is taken to be dropped already. *)
RefusedDropsOne(c) ==
  /\ pc[c] = "refused"
  /\ heap' = Unref(heap, waiter[c])
  /\ pc' = [pc EXCEPT ![c] = "ready"]
  /\ waiter' = [waiter EXCEPT ![c] = None]
  /\ UNCHANGED <<tableVars, outcome>>

(* Both ways to fail end here: when the table was full nobody else has the *)
(* second reference, and the caller drops it too.                          *)
Refused(c) ==
  LET w == waiter[c] IN
  /\ pc[c] = "refused"
  /\ heap' = IF heap[w].done THEN Unref(heap, w) ELSE Unref(Unref(heap, w), w)
  /\ pc' = [pc EXCEPT ![c] = "ready"]
  /\ waiter' = [waiter EXCEPT ![c] = None]
  /\ UNCHANGED <<tableVars, outcome>>

(* irp_waiter_wait: the first test of done. *)
CheckDone(c) ==
  /\ pc[c] = "check"
  /\ pc' = [pc EXCEPT ![c] = IF heap[waiter[c]].done THEN "result" ELSE "blocked"]
  /\ UNCHANGED <<tableVars, heap, waiter, outcome>>

Woken(c) ==
  /\ pc[c] = "blocked"
  /\ heap[waiter[c]].done
  /\ pc' = [pc EXCEPT ![c] = "result"]
  /\ UNCHANGED <<tableVars, heap, waiter, outcome>>

(* Faulty: the waiter is freed, whoever may still refer to it. *)
TimedOutFrees(c) ==
  /\ pc[c] = "blocked"
  /\ heap' = [heap EXCEPT ![waiter[c]] = Garbage]
  /\ pc' = [pc EXCEPT ![c] = "ready"]
  /\ waiter' = [waiter EXCEPT ![c] = None]
  /\ UNCHANGED <<tableVars, outcome>>

(* Faulty: the wait starts again when the deadline has passed. *)
TimedOutWaitsOn(c) ==
  /\ pc[c] = "blocked"
  /\ UNCHANGED requestVars

(* The deadline passes, maybe while the answer is coming in: ETIMEDOUT is  *)
(* final even when done has been set meanwhile.                            *)
TimedOut(c) ==
  /\ pc[c] = "blocked"
  /\ heap' = Unref(heap, waiter[c])
  /\ pc' = [pc EXCEPT ![c] = "ready"]
  /\ waiter' = [waiter EXCEPT ![c] = None]
  /\ UNCHANGED <<tableVars, outcome>>

(* The caller reads status and payload, then drops its reference. *)
ReadResult(c) ==
  /\ pc[c] = "result"
  /\ LET answer == heap[waiter[c]].answer IN
     outcome' = [outcome EXCEPT ![c] = IF answer = None THEN None ELSE answer.result]
  /\ heap' = Unref(heap, waiter[c])
  /\ pc' = [pc EXCEPT ![c] = "ready"]
  /\ waiter' = [waiter EXCEPT ![c] = None]
  /\ UNCHANGED tableVars

-----------------------------------------------------------------------------
(* The peer loop, which holds xportLock                                    *)

(* DEVICE_IOCOMPLETION: the client has answered r. *)
Completion(r, result) ==
  /\ connected
  /\ xportLockFree
  /\ r \in outstanding
  /\ outstanding' = outstanding \ {r}
  /\ \E i \in FirstWith(pending, r.id) :
       LET w == pending[i].waiter IN
       /\ pending' = [pending EXCEPT ![i] = FreeSlot]
       /\ heap' = Fire(heap, w, [request |-> r, result |-> result])
       /\ callback' = w
  /\ UNCHANGED <<nextReqId, connected, reused, callerVars>>

(* The end of irp_waiter_cb. *)
CallbackUnref ==
  /\ callback # None
  /\ heap' = Unref(heap, callback)
  /\ callback' = None
  /\ UNCHANGED <<pending, nextReqId, outstanding, connected, reused, callerVars>>

(* rdpdr_send_query_info_req, sent without a callback when a drive is      *)
(* announced; it is dropped when the table is full.                        *)
ProbeCapacity ==
  /\ connected
  /\ xportLockFree
  /\ \E i \in FirstFree : pending' = Allocated(i, None)
  /\ IssueId
  /\ outstanding' = outstanding \cup
       {[id |-> NextId, op |-> "capacity", caller |-> None, waiter |-> None]}
  /\ UNCHANGED <<connected, callback, heap, callerVars>>

ProbeFails ==
  /\ connected
  /\ xportLockFree
  /\ RegisterAndFree(None)
  /\ IssueId
  /\ UNCHANGED <<outstanding, connected, callback, callerVars>>

(* run_once fails or the session is disconnected: no completion is read    *)
(* any more, whatever the client still sends.                              *)
LoopEnds ==
  /\ connected
  /\ xportLockFree
  /\ connected' = FALSE
  /\ UNCHANGED <<pending, nextReqId, outstanding, callback, reused, heap, callerVars>>

-----------------------------------------------------------------------------
(* The transport lock is asked for in Send, TableFull and WriteFails. *)
UnderLock(c) == (\E op \in Operation : Send(c, op)) \/ TableFull(c) \/ WriteFails(c)

Waiting(c) ==
  Refused(c) \/ CheckDone(c) \/ Woken(c) \/ TimedOut(c) \/ ReadResult(c)

LoopStep ==
  \/ \E r \in outstanding, s \in Result : Completion(r, s)
  \/ CallbackUnref
  \/ ProbeCapacity
  \/ ProbeFails
  \/ LoopEnds

Next ==
  \/ \E c \in Caller : irp_waiter_alloc(c) \/ AllocFails(c) \/ UnderLock(c) \/ Waiting(c)
  \/ LoopStep

Spec == Init /\ [][Next]_requestVars

-----------------------------------------------------------------------------
(* Properties.  They hold until an id is issued while a slot still waits   *)
(* for the answer to its earlier use.                                      *)

(* A waiter is allocated as long as somebody can reach it, and not longer: *)
(* no caller inside a call, no slot and no running callback refers to      *)
(* freed memory, and nothing else keeps a waiter allocated, however        *)
(* time-outs, late answers and failed sends interleave.                    *)
Reachable(w) ==
  \/ \E c \in Caller : waiter[c] = w
  \/ \E i \in Slot : pending[i].waiter = w
  \/ callback = w

WaiterLifetime == ~reused => \A w \in Waiter : heap[w].refs > 0 <=> Reachable(w)

(* A slot is taken exactly as long as the client has its request: neither  *)
(* a failed send nor a time-out leaks one, and no answer finds its slot    *)
(* gone or given to another caller.                                        *)
SlotsMatchRequests ==
  ~reused =>
    /\ \A i \in Slot : pending[i].id # 0 =>
         \E r \in outstanding : r.id = pending[i].id /\ r.waiter = pending[i].waiter
    /\ \A r \in outstanding :
         \E i \in Slot : pending[i].id = r.id /\ pending[i].waiter = r.waiter

(* A caller is served when its own request has been answered, and its call *)
(* ends once: answered only after that, and by no late answer to a call it *)
(* has given up (RemoteCall).                                              *)
ServedBy(c) ==
  LET answer == heap[waiter[c]].answer IN
  /\ answer # None
  /\ answer.request.caller = c
  /\ answer.request.waiter = waiter[c]

callState ==
  [c \in Caller |-> IF pc[c] = "ready" THEN "idle"
                    ELSE IF ServedBy(c) THEN "served" ELSE "asked"]

RC == INSTANCE RemoteCall WITH
        call <- callState, answered <- {c \in Caller : outcome[c] # None}

CallsKeepPromise == RC!Init /\ [][RC!Next \/ reused']_(RC!callVars)

-----------------------------------------------------------------------------
(* The inductive invariant                                                 *)

(* The second reference of a caller's waiter is not handed over yet. *)
Unsent(c) == pc[c] = "send" \/ (pc[c] = "refused" /\ ~heap[waiter[c]].done)

CallerHas(w) == \E c \in Caller : waiter[c] = w
TableHas(w) == \E i \in Slot : pending[i].waiter = w
CallbackHas(w) == TableHas(w) \/ callback = w \/ \E c \in Caller : waiter[c] = w /\ Unsent(c)

(* A waiter has one caller and is in one slot, and only a taken slot has   *)
(* one.  Ids are distinct, in the table and at the client.                 *)
OwnershipInv ==
  /\ \A c, d \in Caller : waiter[c] = waiter[d] /\ waiter[c] # None => c = d
  /\ \A i, j \in Slot : pending[i].id = pending[j].id /\ pending[i].id # 0 => i = j
  /\ \A i, j \in Slot :
       pending[i].waiter = pending[j].waiter /\ pending[i].waiter # None => i = j
  /\ \A i \in Slot : pending[i].waiter # None => pending[i].id # 0
  /\ \A r, s \in outstanding : r.id = s.id => r = s

(* The count is the number of references, one for the caller and one on    *)
(* the callback's side.                                                    *)
CountInv ==
  \A w \in Waiter :
    heap[w].refs = (IF CallerHas(w) THEN 1 ELSE 0) + (IF CallbackHas(w) THEN 1 ELSE 0)

(* The callback's reference moves from the caller to a slot to the running *)
(* callback, and done is set on the last move or by a failed write.        *)
HandOverInv ==
  /\ \A w \in Waiter : TableHas(w) => ~heap[w].done /\ callback # w
  /\ \A c \in Caller : Unsent(c) =>
       ~heap[waiter[c]].done /\ ~TableHas(waiter[c]) /\ callback # waiter[c]
  /\ callback # None => heap[callback].done
  /\ \A c \in Caller : pc[c] = "result" => heap[waiter[c]].done
  /\ \A c \in Caller : pc[c] = "refused" => callback # waiter[c]

(* Every answer a caller may read is the answer to its own request. *)
AnswerInv ==
  /\ \A r \in outstanding : \A c \in Caller :
       waiter[c] = r.waiter /\ waiter[c] # None => r.caller = c
  /\ \A c \in Caller : waiter[c] # None /\ heap[waiter[c]].answer # None => ServedBy(c)

RequestInv ==
  ~reused => OwnershipInv /\ CountInv /\ HandOverInv /\ AnswerInv /\ SlotsMatchRequests

=============================================================================
