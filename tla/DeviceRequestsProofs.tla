------------------------ MODULE DeviceRequestsProofs ------------------------
(***************************************************************************)
(* Theorems about DeviceRequests, for every set of callers, every size of  *)
(* the table and every width of the ids.                                   *)
(***************************************************************************)
EXTENDS DeviceRequests, TLAPS

-----------------------------------------------------------------------------
(* The operators                                                           *)

LEMMA NextIdType == TypeOK => NextId \in 1..(IdLimit - 1)
BY TableAssumption DEF TypeOK, NextId

(* Dropping a reference touches one waiter, and frees it only with the     *)
(* last reference.                                                         *)
LEMMA UnrefFacts ==
  ASSUME NEW memory \in [Waiter -> Cell], NEW w \in Waiter
  PROVE  /\ Unref(memory, w) \in [Waiter -> Cell]
         /\ \A v \in Waiter : v # w => Unref(memory, w)[v] = memory[v]
         /\ memory[w].refs = 2 => /\ Unref(memory, w)[w].refs = 1
                                  /\ Unref(memory, w)[w].done = memory[w].done
                                  /\ Unref(memory, w)[w].answer = memory[w].answer
         /\ memory[w].refs = 1 => /\ Unref(memory, w)[w].refs = 0
                                  /\ Unref(memory, w)[w].done = FALSE
                                  /\ Unref(memory, w)[w].answer = None
<1> DEFINE cell == memory[w]
<1>1. cell \in Cell
  OBVIOUS
<1> HIDE DEF cell
<1>2. cell.refs \in Int /\ cell.done \in BOOLEAN /\ cell.answer \in Answer \cup {None}
  BY <1>1 DEF Cell
<1>3. cell.refs = 2 => Dropped(cell).refs = 1
  BY DEF Dropped
<1>4. cell.refs = 2 => Dropped(cell).done = cell.done
  BY DEF Dropped
<1>5. cell.refs = 2 => Dropped(cell).answer = cell.answer
  BY DEF Dropped
<1>6. cell.refs = 1 =>
        Dropped(cell).refs = 0 /\ Dropped(cell).done = FALSE /\ Dropped(cell).answer = None
  BY DEF Dropped, Garbage
<1>7. Dropped(cell) \in Cell
  BY <1>2 DEF Dropped, Garbage, Cell
<1> QED
  BY <1>3, <1>4, <1>5, <1>6, <1>7 DEF Unref, cell

(* The callback's first part touches one waiter and not its references.    *)
LEMMA FireFacts ==
  ASSUME NEW memory \in [Waiter -> Cell], NEW w \in Waiter,
         NEW a \in Answer \cup {None}
  PROVE  /\ Fire(memory, w, a) \in [Waiter -> Cell]
         /\ \A v \in Waiter : v # w => Fire(memory, w, a)[v] = memory[v]
         /\ Fire(memory, w, a)[w].refs = memory[w].refs
         /\ Fire(memory, w, a)[w].done = TRUE
         /\ Fire(memory, w, a)[w].answer =
              IF memory[w].answer = None THEN a ELSE memory[w].answer
<1> DEFINE cell == memory[w]
<1>1. cell \in Cell /\ w # None
  BY TableAssumption
<1> HIDE DEF cell
<1>2. /\ Completed(cell, a) \in Cell
      /\ Completed(cell, a).refs = cell.refs
      /\ Completed(cell, a).done = TRUE
      /\ Completed(cell, a).answer = IF cell.answer = None THEN a ELSE cell.answer
  BY <1>1 DEF Completed, Cell
<1> QED
  BY <1>1, <1>2 DEF Fire, cell

(* A request that is registered and freed again leaves a table and waiters *)
(* of the right type, whichever slot its id finds.                         *)
LEMMA RegisterAndFreeType ==
  ASSUME TypeOK, NEW w \in Waiter \cup {None}, RegisterAndFree(w)
  PROVE  /\ pending' \in [Slot -> [id : 0..(IdLimit - 1), waiter : Waiter \cup {None}]]
         /\ heap' \in [Waiter -> Cell]
<1>1. PICK i \in FirstFree : \E j \in FirstWith(Allocated(i, w), NextId) :
        LET registered == Allocated(i, w)
            v == registered[j].waiter
        IN  /\ pending' = [registered EXCEPT ![j] = FreeSlot]
            /\ heap' = IF v = None THEN heap ELSE Unref(Fire(heap, v, None), v)
  BY DEF RegisterAndFree
<1> DEFINE registered == Allocated(i, w)
<1>2. PICK j \in FirstWith(registered, NextId) :
            /\ pending' = [registered EXCEPT ![j] = FreeSlot]
            /\ heap' = IF registered[j].waiter = None THEN heap
                       ELSE Unref(Fire(heap, registered[j].waiter, None), registered[j].waiter)
  BY <1>1
<1>3. i \in Slot /\ j \in Slot
  BY DEF FirstFree, FirstWith
<1>4. registered \in [Slot -> [id : 0..(IdLimit - 1), waiter : Waiter \cup {None}]]
  BY <1>3, NextIdType, TableAssumption DEF TypeOK, Allocated
<1>5. FreeSlot \in [id : 0..(IdLimit - 1), waiter : Waiter \cup {None}]
  BY TableAssumption DEF FreeSlot
<1> HIDE DEF registered
<1>6. CASE registered[j].waiter = None
  BY <1>2, <1>3, <1>4, <1>5, <1>6 DEF TypeOK
<1>7. CASE registered[j].waiter # None
  <2>1. registered[j].waiter \in Waiter
    BY <1>3, <1>4, <1>7
  <2>2. Fire(heap, registered[j].waiter, None) \in [Waiter -> Cell]
    BY <2>1, FireFacts DEF TypeOK
  <2>3. heap' \in [Waiter -> Cell]
    BY <1>2, <1>7, <2>1, <2>2, UnrefFacts
  <2> QED
    BY <1>2, <1>3, <1>4, <1>5, <2>3
<1> QED
  BY <1>6, <1>7

-----------------------------------------------------------------------------
(* Types.  A caller has a waiter exactly while it is inside a call.        *)
LEMMA TypeInit == Init => TypeOK
<1>1. FreeSlot \in [id : 0..(IdLimit - 1), waiter : Waiter \cup {None}]
  BY TableAssumption DEF FreeSlot
<1>2. Garbage \in Cell
  BY DEF Garbage, Cell
<1> SUFFICES ASSUME Init PROVE TypeOK
  OBVIOUS
<1>3. pending \in [Slot -> [id : 0..(IdLimit - 1), waiter : Waiter \cup {None}]]
  BY <1>1 DEF Init
<1>4. nextReqId \in 0..(IdLimit - 1)
  BY TableAssumption DEF Init
<1>5. heap \in [Waiter -> Cell]
  BY <1>2 DEF Init
<1>6. /\ pc \in [Caller -> Place]
      /\ waiter \in [Caller -> Waiter \cup {None}]
      /\ outcome \in [Caller -> Result \cup {None}]
      /\ \A c \in Caller : waiter[c] = None <=> pc[c] = "ready"
      /\ \A c \in Caller : pc[c] # "ready" => outcome[c] = None
  BY DEF Init, Place
<1>7. outstanding \subseteq Request
  BY DEF Init
<1> QED
  BY <1>3, <1>4, <1>5, <1>6, <1>7 DEF Init, TypeOK

LEMMA TypeCallerStep ==
  ASSUME TypeOK, NEW c \in Caller,
         irp_waiter_alloc(c) \/ AllocFails(c) \/ UnderLock(c) \/ Waiting(c)
  PROVE  TypeOK'
<1>0. pc[c] # "ready" => waiter[c] \in Waiter
  BY DEF TypeOK
<1>1. CASE irp_waiter_alloc(c)
  <2>1. PICK w \in Waiter :
          /\ heap' = [heap EXCEPT ![w] = [refs |-> 2, done |-> FALSE, answer |-> None]]
          /\ waiter' = [waiter EXCEPT ![c] = w]
    BY <1>1 DEF irp_waiter_alloc
  <2>2. heap' \in [Waiter -> Cell]
    BY <2>1 DEF TypeOK, Cell
  <2> QED
    BY <1>1, <2>1, <2>2, TableAssumption DEF irp_waiter_alloc, tableVars, TypeOK, Place
<1>2. CASE AllocFails(c)
  BY <1>2 DEF AllocFails, tableVars, TypeOK
<1>3. CASE \E op \in Operation : Send(c, op)
  <2>1. PICK op \in Operation : Send(c, op)
    BY <1>3
  <2>2. PICK i \in FirstFree : pending' = Allocated(i, waiter[c])
    BY <2>1 DEF Send
  <2>3. pending' \in [Slot -> [id : 0..(IdLimit - 1), waiter : Waiter \cup {None}]]
    BY <2>2, NextIdType DEF TypeOK, Allocated, FirstFree, FirstWith
  <2>4. outstanding' \subseteq Request
    BY <1>0, <2>1, NextIdType DEF Send, TypeOK, Request
  <2>5. nextReqId' \in 0..(IdLimit - 1) /\ reused' \in BOOLEAN
    BY <2>1, NextIdType, TableAssumption DEF Send, IssueId, TypeOK
  <2> QED
    BY <2>1, <2>3, <2>4, <2>5 DEF Send, TypeOK, Place
<1>4. CASE TableFull(c)
  BY <1>4 DEF TableFull, tableVars, TypeOK, Place
<1>5. CASE WriteFails(c)
  <2>1. nextReqId' \in 0..(IdLimit - 1) /\ reused' \in BOOLEAN
    BY <1>5, NextIdType, TableAssumption DEF WriteFails, IssueId, TypeOK
  <2>2. RegisterAndFree(waiter[c]) /\ waiter[c] \in Waiter
    BY <1>0, <1>5 DEF WriteFails
  <2> QED
    BY <1>5, <2>1, <2>2, RegisterAndFreeType DEF WriteFails, TypeOK, Place
<1>6. CASE Refused(c)
  <2>1. waiter[c] \in Waiter
    BY <1>0, <1>6 DEF Refused
  <2>2. heap' \in [Waiter -> Cell]
    BY <1>6, <2>1, UnrefFacts DEF Refused, TypeOK
  <2> QED
    BY <1>6, <2>2 DEF Refused, tableVars, TypeOK, Place
<1>7. CASE CheckDone(c)
  BY <1>7 DEF CheckDone, tableVars, TypeOK, Place
<1>8. CASE Woken(c)
  BY <1>8 DEF Woken, tableVars, TypeOK, Place
<1>9. CASE TimedOut(c)
  <2>1. heap' \in [Waiter -> Cell]
    BY <1>0, <1>9, UnrefFacts DEF TimedOut, TypeOK
  <2> QED
    BY <1>9, <2>1 DEF TimedOut, tableVars, TypeOK, Place
<1>10. CASE ReadResult(c)
  <2>1. waiter[c] \in Waiter
    BY <1>0, <1>10 DEF ReadResult
  <2>2. heap' \in [Waiter -> Cell]
    BY <1>10, <2>1, UnrefFacts DEF ReadResult, TypeOK
  <2>3. outcome' \in [Caller -> Result \cup {None}]
    BY <1>10, <2>1 DEF ReadResult, TypeOK, Cell, Answer
  <2> QED
    BY <1>10, <2>2, <2>3 DEF ReadResult, tableVars, TypeOK, Place
<1> QED
  BY <1>1, <1>2, <1>3, <1>4, <1>5, <1>6, <1>7, <1>8, <1>9, <1>10 DEF UnderLock, Waiting

LEMMA TypeLoopStep == TypeOK /\ LoopStep => TypeOK'
<1> SUFFICES ASSUME TypeOK, LoopStep PROVE TypeOK'
  OBVIOUS
<1>1. ASSUME NEW r \in outstanding, NEW s \in Result, Completion(r, s) PROVE TypeOK'
  <2>1. PICK i \in FirstWith(pending, r.id) :
          /\ pending' = [pending EXCEPT ![i] = FreeSlot]
          /\ heap' = Fire(heap, pending[i].waiter, [request |-> r, result |-> s])
          /\ callback' = pending[i].waiter
    BY <1>1 DEF Completion
  <2>2. i \in Slot /\ pending[i].waiter \in Waiter \cup {None}
    BY <2>1 DEF FirstWith, TypeOK
  <2>3. [request |-> r, result |-> s] \in Answer
    BY DEF TypeOK, Answer
  <2>4. heap' \in [Waiter -> Cell]
    <3>1. CASE pending[i].waiter = None
      BY <2>1, <3>1 DEF TypeOK, Fire
    <3>2. CASE pending[i].waiter # None
      BY <2>1, <2>2, <2>3, <3>2, FireFacts DEF TypeOK
    <3> QED
      BY <3>1, <3>2
  <2>5. FreeSlot \in [id : 0..(IdLimit - 1), waiter : Waiter \cup {None}]
    BY TableAssumption DEF FreeSlot
  <2> QED
    BY <1>1, <2>1, <2>2, <2>4, <2>5 DEF Completion, callerVars, TypeOK
<1>2. CASE CallbackUnref
  <2>1. heap' \in [Waiter -> Cell]
    BY <1>2, UnrefFacts DEF CallbackUnref, TypeOK
  <2> QED
    BY <1>2, <2>1 DEF CallbackUnref, callerVars, TypeOK
<1>3. CASE ProbeCapacity
  <2>1. PICK i \in FirstFree : pending' = Allocated(i, None)
    BY <1>3 DEF ProbeCapacity
  <2>2. pending' \in [Slot -> [id : 0..(IdLimit - 1), waiter : Waiter \cup {None}]]
    BY <2>1, NextIdType DEF TypeOK, Allocated, FirstFree, FirstWith
  <2>3. nextReqId' \in 0..(IdLimit - 1) /\ reused' \in BOOLEAN
    BY <1>3, NextIdType, TableAssumption DEF ProbeCapacity, IssueId, TypeOK
  <2>4. outstanding' \subseteq Request
    BY <1>3, NextIdType DEF ProbeCapacity, TypeOK, Request
  <2> QED
    BY <1>3, <2>2, <2>3, <2>4 DEF ProbeCapacity, callerVars, TypeOK
<1>4. CASE ProbeFails
  <2>1. nextReqId' \in 0..(IdLimit - 1) /\ reused' \in BOOLEAN
    BY <1>4, NextIdType, TableAssumption DEF ProbeFails, IssueId, TypeOK
  <2> QED
    BY <1>4, <2>1, RegisterAndFreeType DEF ProbeFails, callerVars, TypeOK
<1>5. CASE LoopEnds
  BY <1>5 DEF LoopEnds, callerVars, TypeOK
<1> QED
  BY <1>1, <1>2, <1>3, <1>4, <1>5 DEF LoopStep

LEMMA TypeStep == TypeOK /\ [Next]_requestVars => TypeOK'
<1> SUFFICES ASSUME TypeOK, [Next]_requestVars PROVE TypeOK'
  OBVIOUS
<1>1. CASE UNCHANGED requestVars
  BY <1>1 DEF requestVars, tableVars, callerVars, TypeOK
<1> QED
  BY <1>1, TypeCallerStep, TypeLoopStep DEF Next

(* Every variable keeps its type; the table never holds an id out of range *)
(* and a caller keeps a waiter exactly inside a call (irp_send_wait).      *)
THEOREM TypeCorrect == Spec => []TypeOK
BY TypeStep, TypeInit, PTL DEF Spec

-----------------------------------------------------------------------------
(* The inductive invariant, as long as no id is reused while it is pending *)

Inv == OwnershipInv /\ CountInv /\ HandOverInv /\ AnswerInv /\ SlotsMatchRequests

LEMMA InvInit == Init => RequestInv
<1> SUFFICES ASSUME Init PROVE OwnershipInv /\ CountInv /\ HandOverInv /\ AnswerInv /\ SlotsMatchRequests
  BY DEF RequestInv
<1> USE TableAssumption DEF Init, FreeSlot, Garbage
<1>1. OwnershipInv
  BY DEF OwnershipInv
<1>2. CountInv
  BY DEF CountInv, CallerHas, CallbackHas, TableHas
<1>3. HandOverInv
  BY DEF HandOverInv, TableHas, Unsent
<1>4. AnswerInv
  BY DEF AnswerInv
<1>5. SlotsMatchRequests
  BY DEF SlotsMatchRequests
<1> QED
  BY <1>1, <1>2, <1>3, <1>4, <1>5

(* Without reuse a failed write undoes its registration: the table is as   *)
(* before, and the caller's waiter has lost the callback's reference.      *)
LEMMA RegisterAndFreeUndoes ==
  ASSUME TypeOK, OwnershipInv, NEW w \in Waiter \cup {None}, RegisterAndFree(w),
         \A i \in Slot : pending[i].id # NextId
  PROVE  /\ pending' = pending
         /\ heap' = IF w = None THEN heap ELSE Unref(Fire(heap, w, None), w)
<1>1. PICK i \in FirstFree : \E j \in FirstWith(Allocated(i, w), NextId) :
        LET registered == Allocated(i, w)
            v == registered[j].waiter
        IN  /\ pending' = [registered EXCEPT ![j] = FreeSlot]
            /\ heap' = IF v = None THEN heap ELSE Unref(Fire(heap, v, None), v)
  BY DEF RegisterAndFree
<1> DEFINE registered == Allocated(i, w)
<1>2. PICK j \in FirstWith(registered, NextId) :
            /\ pending' = [registered EXCEPT ![j] = FreeSlot]
            /\ heap' = IF registered[j].waiter = None THEN heap
                       ELSE Unref(Fire(heap, registered[j].waiter, None), registered[j].waiter)
  BY <1>1
<1>3. i \in Slot /\ pending[i].id = 0 /\ j \in Slot /\ registered[j].id = NextId
  BY <1>2 DEF FirstFree, FirstWith
<1>4. registered[i] = [id |-> NextId, waiter |-> w] /\ \A k \in Slot : k # i => registered[k] = pending[k]
  BY <1>3 DEF Allocated, TypeOK
<1>5. j = i
  BY <1>3, <1>4
<1>6. pending[i] = FreeSlot
  BY <1>3 DEF OwnershipInv, FreeSlot, TypeOK
<1>7. pending' = pending
  BY <1>2, <1>3, <1>5, <1>6 DEF Allocated, TypeOK
<1> QED
  BY <1>2, <1>4, <1>5, <1>7

(* What a caller inside a call has. *)
LEMMA CallerFacts ==
  ASSUME TypeOK, Inv, NEW c \in Caller, pc[c] # "ready"
  PROVE  /\ waiter[c] \in Waiter
         /\ CallerHas(waiter[c])
         /\ \A d \in Caller : waiter[d] = waiter[c] => d = c
         /\ heap[waiter[c]].refs = IF CallbackHas(waiter[c]) THEN 2 ELSE 1
<1>1. waiter[c] \in Waiter /\ CallerHas(waiter[c])
  BY DEF TypeOK, CallerHas
<1>2. \A d \in Caller : waiter[d] = waiter[c] => d = c
  BY <1>1, TableAssumption DEF Inv, OwnershipInv
<1>3. heap[waiter[c]].refs = (IF CallerHas(waiter[c]) THEN 1 ELSE 0) + (IF CallbackHas(waiter[c]) THEN 1 ELSE 0)
  BY <1>1 DEF Inv, CountInv
<1> QED
  BY <1>1, <1>2, <1>3

(* A waiter is taken from memory that nobody refers to. *)
LEMMA InvAlloc ==
  ASSUME TypeOK, Inv, ~reused, NEW c \in Caller, irp_waiter_alloc(c)
  PROVE  Inv'
<1>1. PICK w \in Waiter :
        /\ heap[w].refs <= 0
        /\ heap' = [heap EXCEPT ![w] = [refs |-> 2, done |-> FALSE, answer |-> None]]
        /\ waiter' = [waiter EXCEPT ![c] = w]
  BY DEF irp_waiter_alloc
<1>2. /\ pc[c] = "ready" /\ waiter[c] = None /\ w # None
      /\ pc' = [pc EXCEPT ![c] = "send"]
      /\ UNCHANGED <<pending, nextReqId, outstanding, connected, callback, reused>>
  BY TableAssumption DEF irp_waiter_alloc, tableVars, TypeOK
<1>3. ~CallerHas(w) /\ ~CallbackHas(w)
  BY <1>1 DEF Inv, CountInv
<1>4. /\ \A d \in Caller : waiter[d] # w
      /\ \A i \in Slot : pending[i].waiter # w
      /\ callback # w
  BY <1>3 DEF CallerHas, CallbackHas, TableHas
<1>5. /\ \A d \in Caller : d # c => waiter'[d] = waiter[d] /\ pc'[d] = pc[d]
      /\ waiter'[c] = w /\ pc'[c] = "send"
  BY <1>1, <1>2 DEF TypeOK
<1>6. /\ \A v \in Waiter : v # w => heap'[v] = heap[v]
      /\ heap'[w].refs = 2 /\ heap'[w].done = FALSE /\ heap'[w].answer = None
  BY <1>1 DEF TypeOK
<1>7. \A d \in Caller : d # c /\ pc[d] # "ready" => heap'[waiter[d]] = heap[waiter[d]]
  BY <1>4, <1>6 DEF TypeOK
<1>8. /\ \A d \in Caller : d # c => (Unsent(d)' <=> Unsent(d))
      /\ Unsent(c)' /\ ~Unsent(c)
  BY <1>2, <1>5, <1>7 DEF Unsent
<1>9. OwnershipInv'
  BY <1>1, <1>2, <1>4, <1>5 DEF Inv, OwnershipInv
<1>10. CountInv'
  <2>1. \A v \in Waiter : v # w => (CallerHas(v)' <=> CallerHas(v))
    BY <1>2, <1>5, TableAssumption DEF CallerHas
  <2>2. \A v \in Waiter : v # w => (CallbackHas(v)' <=> CallbackHas(v))
    BY <1>2, <1>5, <1>8, TableAssumption DEF CallbackHas, TableHas
  <2>3. CallerHas(w)' /\ CallbackHas(w)'
    BY <1>5, <1>8 DEF CallerHas, CallbackHas
  <2> QED
    BY <1>6, <2>1, <2>2, <2>3 DEF Inv, CountInv
<1>11. HandOverInv'
  <2>1. \A v \in Waiter : TableHas(v)' <=> TableHas(v)
    BY <1>2 DEF TableHas
  <2>2. \A v \in Waiter : TableHas(v)' => ~heap'[v].done /\ callback' # v
    BY <1>2, <1>6, <2>1 DEF Inv, HandOverInv
  <2>3. ASSUME NEW d \in Caller, Unsent(d)'
        PROVE  (~heap[waiter[d]].done /\ ~TableHas(waiter[d]) /\ callback # waiter[d])'
    <3>1. CASE d = c
      BY <1>2, <1>4, <1>5, <1>6, <3>1 DEF TableHas
    <3>2. CASE d # c
      BY <1>2, <1>5, <1>7, <1>8, <2>3, <3>2 DEF Inv, HandOverInv, TableHas, Unsent
    <3> QED
      BY <3>1, <3>2
  <2>4. callback' # None => heap'[callback'].done
    BY <1>2, <1>4, <1>6 DEF Inv, HandOverInv, TypeOK
  <2>5. \A d \in Caller : pc'[d] = "result" => heap'[waiter'[d]].done
    BY <1>5, <1>7 DEF Inv, HandOverInv
  <2>6. \A d \in Caller : pc'[d] = "refused" => callback' # waiter'[d]
    BY <1>2, <1>5 DEF Inv, HandOverInv
  <2> QED
    BY <2>2, <2>3, <2>4, <2>5, <2>6 DEF HandOverInv
<1>12. AnswerInv'
  <2>1. \A r \in outstanding : r.waiter # w
    BY <1>4 DEF Inv, SlotsMatchRequests
  <2> QED
    BY <1>2, <1>4, <1>5, <1>6, <1>7, <2>1 DEF Inv, AnswerInv, ServedBy, TypeOK
<1>13. SlotsMatchRequests'
  BY <1>2 DEF Inv, SlotsMatchRequests
<1> QED
  BY <1>9, <1>10, <1>11, <1>12, <1>13 DEF Inv

(* The caller's waiter goes into a slot that was free, under an id that no *)
(* slot and no request has.                                                *)
LEMMA InvSend ==
  ASSUME TypeOK, Inv, ~reused', NEW c \in Caller, NEW op \in Operation, Send(c, op)
  PROVE  Inv'
<1> DEFINE w == waiter[c]
           new == [id |-> NextId, op |-> op, caller |-> c, waiter |-> w]
<1>1. PICK i \in FirstFree : pending' = Allocated(i, w)
  BY DEF Send
<1>2. i \in Slot /\ pending[i].id = 0 /\ pending[i].waiter = None
  BY DEF FirstFree, FirstWith, Inv, OwnershipInv
<1>3. /\ pc[c] = "send" /\ outstanding' = outstanding \cup {new}
      /\ pc' = [pc EXCEPT ![c] = "check"]
      /\ UNCHANGED <<connected, callback, heap, waiter>>
      /\ ~reused /\ \A j \in Slot : pending[j].id # NextId
  BY DEF Send, IssueId
<1>4. /\ w \in Waiter /\ w # None /\ \A d \in Caller : waiter[d] = w => d = c
  BY <1>3, CallerFacts, TableAssumption
<1>5. /\ \A j \in Slot : j # i => pending'[j] = pending[j]
      /\ pending'[i].id = NextId /\ pending'[i].waiter = w
      /\ NextId \in Nat \ {0}
  BY <1>1, <1>2, NextIdType DEF Allocated, TypeOK
<1>6. Unsent(c) /\ ~heap[w].done /\ ~TableHas(w) /\ callback # w
  BY <1>3 DEF Unsent, Inv, HandOverInv
<1>7. /\ \A d \in Caller : d # c => (Unsent(d)' <=> Unsent(d))
      /\ ~Unsent(c)'
  BY <1>3 DEF Unsent, TypeOK
<1>8. \A v \in Waiter : TableHas(v)' <=> TableHas(v) \/ v = w
  BY <1>2, <1>5, TableAssumption DEF TableHas
<1>9. \A r \in outstanding : r.id # NextId /\ r.id # 0 /\ r.waiter # w
  <2>1. \A r \in outstanding : r.id # 0
    BY DEF TypeOK, Request
  <2> QED
    BY <1>3, <1>6, <2>1 DEF Inv, SlotsMatchRequests, TableHas
<1>10. OwnershipInv'
  <2>1. \A j, k \in Slot : pending'[j].id = pending'[k].id /\ pending'[j].id # 0 => j = k
    BY <1>3, <1>5 DEF Inv, OwnershipInv
  <2>2. \A j, k \in Slot :
          pending'[j].waiter = pending'[k].waiter /\ pending'[j].waiter # None => j = k
    BY <1>5, <1>6 DEF Inv, OwnershipInv, TableHas
  <2>3. \A j \in Slot : pending'[j].waiter # None => pending'[j].id # 0
    BY <1>5 DEF Inv, OwnershipInv
  <2>4. \A r, s \in outstanding' : r.id = s.id => r = s
    BY <1>3, <1>9 DEF Inv, OwnershipInv
  <2> QED
    BY <1>3, <2>1, <2>2, <2>3, <2>4 DEF Inv, OwnershipInv
<1>11. CountInv'
  <2>1. \A v \in Waiter : CallerHas(v)' <=> CallerHas(v)
    BY <1>3 DEF CallerHas
  <2>2. \A v \in Waiter : CallbackHas(v)' <=> CallbackHas(v)
    BY <1>3, <1>4, <1>6, <1>7, <1>8 DEF CallbackHas
  <2> QED
    BY <1>3, <2>1, <2>2 DEF Inv, CountInv
<1>12. HandOverInv'
  BY <1>3, <1>4, <1>6, <1>7, <1>8 DEF Inv, HandOverInv, TypeOK, Unsent
<1>13. AnswerInv'
  BY <1>3, <1>4 DEF Inv, AnswerInv, ServedBy
<1>14. SlotsMatchRequests'
  <2>1. ASSUME NEW j \in Slot, pending'[j].id # 0
        PROVE  \E r \in outstanding' : r.id = pending'[j].id /\ r.waiter = pending'[j].waiter
    <3>1. CASE j = i
      <4>1. new \in outstanding' /\ new.id = NextId /\ new.waiter = w
        BY <1>3
      <4> HIDE DEF new
      <4> QED
        BY <1>5, <3>1, <4>1
    <3>2. CASE j # i
      BY <1>3, <1>5, <2>1, <3>2 DEF Inv, SlotsMatchRequests
    <3> QED
      BY <3>1, <3>2
  <2>2. ASSUME NEW r \in outstanding'
        PROVE  \E j \in Slot : pending'[j].id = r.id /\ pending'[j].waiter = r.waiter
    <3>1. CASE r = new
      BY <1>2, <1>5, <3>1
    <3>2. CASE r # new
      <4>1. PICK j \in Slot : pending[j].id = r.id /\ pending[j].waiter = r.waiter
        BY <1>3, <2>2, <3>2 DEF Inv, SlotsMatchRequests
      <4> QED
        BY <1>2, <1>3, <1>5, <1>9, <2>2, <3>2, <4>1
    <3> QED
      BY <3>1, <3>2
  <2> QED
    BY <2>1, <2>2 DEF SlotsMatchRequests
<1> QED
  BY <1>10, <1>11, <1>12, <1>13, <1>14 DEF Inv

(* A failed write leaves the table alone and takes the callback's          *)
(* reference, which the caller still had.                                  *)
LEMMA InvWriteFails ==
  ASSUME TypeOK, Inv, ~reused', NEW c \in Caller, WriteFails(c)
  PROVE  Inv'
<1> DEFINE w == waiter[c]
<1>1. /\ pc[c] = "send" /\ RegisterAndFree(w)
      /\ pc' = [pc EXCEPT ![c] = "refused"]
      /\ UNCHANGED <<outstanding, connected, callback, waiter>>
      /\ ~reused /\ \A j \in Slot : pending[j].id # NextId
  BY DEF WriteFails, IssueId
<1>2. /\ w \in Waiter /\ w # None /\ \A d \in Caller : waiter[d] = w => d = c
      /\ CallerHas(w)
  BY <1>1, CallerFacts, TableAssumption
<1>3. Unsent(c) /\ ~heap[w].done /\ ~TableHas(w) /\ callback # w
  BY <1>1 DEF Unsent, Inv, HandOverInv
<1>4. heap[w].refs = 2
  BY <1>1, <1>2, <1>3, CallerFacts DEF CallbackHas
<1>5. pending' = pending /\ heap' = Unref(Fire(heap, w, None), w)
  BY <1>1, <1>2, RegisterAndFreeUndoes DEF Inv
<1>6. /\ \A v \in Waiter : v # w => heap'[v] = heap[v]
      /\ heap'[w].refs = 1 /\ heap'[w].done = TRUE /\ heap'[w].answer = heap[w].answer
  <2> DEFINE fired == Fire(heap, w, None)
  <2>1. heap \in [Waiter -> Cell] /\ w \in Waiter
    BY <1>2 DEF TypeOK
  <2> HIDE DEF w
  <2>2. /\ fired \in [Waiter -> Cell]
        /\ \A v \in Waiter : v # w => fired[v] = heap[v]
        /\ fired[w].refs = 2 /\ fired[w].done = TRUE /\ fired[w].answer = heap[w].answer
    <3>1. /\ fired \in [Waiter -> Cell]
          /\ \A v \in Waiter : v # w => fired[v] = heap[v]
          /\ fired[w].refs = heap[w].refs
          /\ fired[w].done = TRUE
          /\ fired[w].answer = IF heap[w].answer = None THEN None ELSE heap[w].answer
      BY <2>1, FireFacts
    <3> QED
      BY <1>4, <3>1
  <2> HIDE DEF fired
  <2>3. /\ \A v \in Waiter : v # w => Unref(fired, w)[v] = fired[v]
        /\ Unref(fired, w)[w].refs = 1
        /\ Unref(fired, w)[w].done = fired[w].done
        /\ Unref(fired, w)[w].answer = fired[w].answer
    BY <2>1, <2>2, UnrefFacts
  <2> QED
    BY <1>5, <2>2, <2>3 DEF fired
<1>7. /\ \A d \in Caller : d # c => (Unsent(d)' <=> Unsent(d))
      /\ ~Unsent(c)'
  BY <1>1, <1>2, <1>6 DEF Unsent, TypeOK
<1>8. OwnershipInv' /\ SlotsMatchRequests'
  BY <1>1, <1>5 DEF Inv, OwnershipInv, SlotsMatchRequests
<1>9. CountInv'
  <2>1. \A v \in Waiter : CallerHas(v)' <=> CallerHas(v)
    BY <1>1 DEF CallerHas
  <2>2. \A v \in Waiter : CallbackHas(v)' <=> CallbackHas(v) /\ v # w
    BY <1>1, <1>2, <1>3, <1>5, <1>7 DEF CallbackHas, TableHas
  <2> QED
    BY <1>2, <1>6, <2>1, <2>2 DEF Inv, CountInv
<1>10. HandOverInv'
  <2>1. \A v \in Waiter : TableHas(v)' => ~heap'[v].done /\ callback' # v
    BY <1>1, <1>3, <1>5, <1>6 DEF Inv, HandOverInv, TableHas
  <2>2. \A d \in Caller :
          Unsent(d)' => (~heap[waiter[d]].done /\ ~TableHas(waiter[d]) /\ callback # waiter[d])'
    BY <1>1, <1>2, <1>5, <1>6, <1>7 DEF Inv, HandOverInv, TableHas, Unsent, TypeOK
  <2>3. callback' # None => heap'[callback'].done
    BY <1>1, <1>3, <1>6 DEF Inv, HandOverInv, TypeOK
  <2>4. \A d \in Caller : pc'[d] = "result" => heap'[waiter'[d]].done
    BY <1>1, <1>2, <1>6 DEF Inv, HandOverInv, TypeOK
  <2>5. \A d \in Caller : pc'[d] = "refused" => callback' # waiter'[d]
    BY <1>1, <1>3 DEF Inv, HandOverInv, TypeOK
  <2> QED
    BY <2>1, <2>2, <2>3, <2>4, <2>5 DEF HandOverInv
<1>11. AnswerInv'
  BY <1>1, <1>2, <1>6 DEF Inv, AnswerInv, ServedBy, TypeOK
<1> QED
  BY <1>8, <1>9, <1>10, <1>11 DEF Inv

(* A caller that leaves the call drops its references.  What stays of the  *)
(* waiter is the callback's share of it.                                   *)
LEMMA InvLeaves ==
  ASSUME TypeOK, Inv, NEW c \in Caller, pc[c] # "ready",
         pc' = [pc EXCEPT ![c] = "ready"], waiter' = [waiter EXCEPT ![c] = None],
         UNCHANGED tableVars, heap' \in [Waiter -> Cell],
         \A v \in Waiter : v # waiter[c] => heap'[v] = heap[v],
         ~Unsent(c) /\ CallbackHas(waiter[c]) =>
           heap'[waiter[c]].refs = 1 /\ heap'[waiter[c]].done = heap[waiter[c]].done,
         Unsent(c) \/ ~CallbackHas(waiter[c]) => heap'[waiter[c]].refs = 0
  PROVE  Inv'
<1> DEFINE w == waiter[c]
<1>1. /\ w \in Waiter /\ w # None /\ \A d \in Caller : waiter[d] = w => d = c
      /\ CallerHas(w)
  BY CallerFacts, TableAssumption
<1>2. /\ \A d \in Caller : d # c => waiter'[d] = waiter[d] /\ pc'[d] = pc[d]
      /\ waiter'[c] = None /\ pc'[c] = "ready"
  BY DEF TypeOK
<1>3. UNCHANGED <<pending, nextReqId, outstanding, connected, callback, reused>>
  BY DEF tableVars
<1>4. \A d \in Caller : d # c /\ pc[d] # "ready" => heap'[waiter[d]] = heap[waiter[d]]
  BY <1>1 DEF TypeOK
<1>5. /\ \A d \in Caller : d # c => (Unsent(d)' <=> Unsent(d))
      /\ ~Unsent(c)'
  BY <1>2, <1>4 DEF Unsent
<1>6. Unsent(c) => ~TableHas(w) /\ callback # w
  BY DEF Inv, HandOverInv
<1>7. TableHas(w) \/ callback = w => heap'[w].done = heap[w].done
  BY <1>6 DEF CallbackHas
<1>8. OwnershipInv' /\ SlotsMatchRequests'
  <2>1. SlotsMatchRequests'
    BY <1>3 DEF Inv, SlotsMatchRequests
  <2> QED
    BY <1>2, <1>3, <2>1 DEF Inv, OwnershipInv
<1>9. CountInv'
  <2>1. \A v \in Waiter : CallerHas(v)' <=> CallerHas(v) /\ v # w
    BY <1>1, <1>2, TableAssumption DEF CallerHas
  <2>2. \A v \in Waiter : CallbackHas(v)' <=> CallbackHas(v) /\ ~(v = w /\ Unsent(c))
    BY <1>1, <1>2, <1>3, <1>5, <1>6, TableAssumption DEF CallbackHas, TableHas
  <2> QED
    BY <1>1, <2>1, <2>2 DEF Inv, CountInv
<1>10. HandOverInv'
  <2>1. \A v \in Waiter : TableHas(v)' => ~heap'[v].done /\ callback' # v
    BY <1>3, <1>7 DEF Inv, HandOverInv, TableHas
  <2>2. \A d \in Caller :
          Unsent(d)' => (~heap[waiter[d]].done /\ ~TableHas(waiter[d]) /\ callback # waiter[d])'
    BY <1>2, <1>3, <1>4, <1>5 DEF Inv, HandOverInv, TableHas, Unsent
  <2>3. callback' # None => heap'[callback'].done
    BY <1>3, <1>7 DEF Inv, HandOverInv, TypeOK
  <2>4. \A d \in Caller : pc'[d] = "result" => heap'[waiter'[d]].done
    BY <1>2, <1>4 DEF Inv, HandOverInv
  <2>5. \A d \in Caller : pc'[d] = "refused" => callback' # waiter'[d]
    BY <1>2, <1>3 DEF Inv, HandOverInv
  <2> QED
    BY <2>1, <2>2, <2>3, <2>4, <2>5 DEF HandOverInv
<1>11. AnswerInv'
  BY <1>2, <1>3, <1>4 DEF Inv, AnswerInv, ServedBy, TypeOK
<1> QED
  BY <1>8, <1>9, <1>10, <1>11 DEF Inv

(* Waiting changes nothing but the place of the caller, and leaving drops  *)
(* exactly the references the caller has.                                  *)
LEMMA InvWaiting ==
  ASSUME TypeOK, Inv, NEW c \in Caller, Waiting(c)
  PROVE  Inv'
<1>1. CASE CheckDone(c) \/ Woken(c)
  <2>1. /\ UNCHANGED <<pending, nextReqId, outstanding, connected, callback, reused, heap, waiter>>
        /\ pc[c] \in {"check", "blocked"} /\ pc'[c] \in {"result", "blocked"}
        /\ pc'[c] = "result" => heap[waiter[c]].done
        /\ \A d \in Caller : d # c => pc'[d] = pc[d]
    BY <1>1 DEF CheckDone, Woken, tableVars, TypeOK
  <2>2. \A d \in Caller : Unsent(d)' <=> Unsent(d)
    BY <2>1 DEF Unsent
  <2>3. \A v \in Waiter : (CallerHas(v)' <=> CallerHas(v)) /\ (CallbackHas(v)' <=> CallbackHas(v))
    BY <2>1, <2>2 DEF CallerHas, CallbackHas, TableHas
  <2>4. CountInv'
    BY <2>1, <2>3 DEF Inv, CountInv
  <2>5. HandOverInv'
    BY <2>1, <2>2 DEF Inv, HandOverInv, TableHas
  <2>6. AnswerInv'
    BY <2>1 DEF Inv, AnswerInv, ServedBy
  <2>7. OwnershipInv' /\ SlotsMatchRequests'
    BY <2>1 DEF Inv, OwnershipInv, SlotsMatchRequests
  <2> QED
    BY <2>4, <2>5, <2>6, <2>7 DEF Inv
<1>2. CASE TimedOut(c) \/ ReadResult(c)
  <2>1. /\ pc[c] # "ready" /\ heap' = Unref(heap, waiter[c]) /\ ~Unsent(c)
        /\ pc' = [pc EXCEPT ![c] = "ready"] /\ waiter' = [waiter EXCEPT ![c] = None]
        /\ UNCHANGED tableVars
    BY <1>2 DEF TimedOut, ReadResult, Unsent
  <2> DEFINE w == waiter[c]
  <2>2. /\ w \in Waiter /\ heap \in [Waiter -> Cell]
        /\ heap[w].refs = IF CallbackHas(w) THEN 2 ELSE 1
    BY <2>1, CallerFacts DEF TypeOK
  <2>3. heap' = Unref(heap, w)
    BY <2>1
  <2> HIDE DEF w
  <2>4. /\ heap' \in [Waiter -> Cell]
        /\ \A v \in Waiter : v # w => heap'[v] = heap[v]
        /\ heap[w].refs = 2 => heap'[w].refs = 1 /\ heap'[w].done = heap[w].done
        /\ heap[w].refs = 1 => heap'[w].refs = 0
    BY <2>2, <2>3, UnrefFacts
  <2>5. /\ CallbackHas(w) => heap'[w].refs = 1 /\ heap'[w].done = heap[w].done
        /\ ~CallbackHas(w) => heap'[w].refs = 0
    BY <2>2, <2>4
  <2> QED
    BY <2>1, <2>4, <2>5, InvLeaves DEF w
<1>3. CASE Refused(c)
  <2> DEFINE w == waiter[c]
  <2>1. /\ pc[c] = "refused" /\ pc' = [pc EXCEPT ![c] = "ready"]
        /\ waiter' = [waiter EXCEPT ![c] = None] /\ UNCHANGED tableVars
        /\ heap' = IF heap[w].done THEN Unref(heap, w) ELSE Unref(Unref(heap, w), w)
    BY <1>3 DEF Refused
  <2>2. w \in Waiter /\ heap[w].refs = IF CallbackHas(w) THEN 2 ELSE 1
    BY <2>1, CallerFacts
  <2>3. Unsent(c) <=> ~heap[w].done
    BY <2>1 DEF Unsent
  <2>4. CallbackHas(w) <=> Unsent(c)
    BY <2>1, <2>2, <2>3, CallerFacts DEF CallbackHas, Inv, HandOverInv
  <2>5. /\ heap' \in [Waiter -> Cell]
        /\ \A v \in Waiter : v # w => heap'[v] = heap[v]
        /\ heap'[w].refs = 0
    <3> DEFINE once == Unref(heap, w)
    <3>0. heap \in [Waiter -> Cell]
      BY DEF TypeOK
    <3> HIDE DEF w
    <3>3. /\ once \in [Waiter -> Cell]
          /\ heap[w].refs = 2 => once[w].refs = 1
          /\ heap[w].refs = 1 => once[w].refs = 0
          /\ \A v \in Waiter : v # w => once[v] = heap[v]
      BY <2>2, <3>0, UnrefFacts
    <3>4. heap' = IF heap[w].done THEN once ELSE Unref(once, w)
      BY <2>1
    <3> HIDE DEF once
    <3>1. CASE heap[w].done
      BY <2>2, <2>3, <2>4, <3>1, <3>3, <3>4
    <3>2. CASE ~heap[w].done
      <4>1. heap[w].refs = 2
        BY <2>2, <2>3, <2>4, <3>2
      <4>2. /\ Unref(once, w) \in [Waiter -> Cell] /\ Unref(once, w)[w].refs = 0
            /\ \A v \in Waiter : v # w => Unref(once, w)[v] = once[v]
        BY <2>2, <3>3, <4>1, UnrefFacts
      <4> QED
        BY <3>2, <3>3, <3>4, <4>2
    <3> QED
      BY <3>1, <3>2
  <2> QED
    BY <2>1, <2>4, <2>5, InvLeaves
<1> QED
  BY <1>1, <1>2, <1>3 DEF Waiting

(* The answer finds the slot of its own request, and the callback runs     *)
(* with the reference the slot had.                                        *)
LEMMA InvCompletion ==
  ASSUME TypeOK, Inv, ~reused, NEW r \in outstanding, NEW s \in Result, Completion(r, s)
  PROVE  Inv'
<1> DEFINE w == r.waiter
           a == [request |-> r, result |-> s]
<1>1. PICK i \in FirstWith(pending, r.id) :
        /\ pending' = [pending EXCEPT ![i] = FreeSlot]
        /\ heap' = Fire(heap, pending[i].waiter, a)
        /\ callback' = pending[i].waiter
  BY DEF Completion
<1>2. /\ callback = None /\ outstanding' = outstanding \ {r} /\ i \in Slot /\ pending[i].id = r.id
      /\ UNCHANGED <<nextReqId, connected, reused, pc, waiter, outcome>>
  BY DEF Completion, FirstWith, xportLockFree, callerVars
<1>3. r.id # 0 /\ r.id \in Nat /\ w \in Waiter \cup {None} /\ a \in Answer
  BY DEF TypeOK, Request, Answer
<1>4. pending[i].waiter = w
  <2>1. PICK j \in Slot : pending[j].id = r.id /\ pending[j].waiter = w
    BY DEF Inv, SlotsMatchRequests
  <2> QED
    BY <1>2, <1>3, <2>1 DEF Inv, OwnershipInv
<1>5. /\ \A j \in Slot : j # i => pending'[j] = pending[j] /\ pending[j].id # r.id
      /\ pending'[i].id = 0 /\ pending'[i].waiter = None
  BY <1>1, <1>2, <1>3 DEF FreeSlot, TypeOK, Inv, OwnershipInv
<1>6. OwnershipInv'
  BY <1>2, <1>5 DEF Inv, OwnershipInv
<1>7. SlotsMatchRequests'
  <2>1. ASSUME NEW j \in Slot, pending'[j].id # 0
        PROVE  \E q \in outstanding' : q.id = pending'[j].id /\ q.waiter = pending'[j].waiter
    <3>1. j # i /\ pending'[j] = pending[j]
      BY <1>5, <2>1
    <3>2. PICK q \in outstanding : q.id = pending[j].id /\ q.waiter = pending[j].waiter
      BY <2>1, <3>1 DEF Inv, SlotsMatchRequests
    <3> QED
      BY <1>2, <1>5, <3>1, <3>2
  <2>2. ASSUME NEW q \in outstanding'
        PROVE  \E j \in Slot : pending'[j].id = q.id /\ pending'[j].waiter = q.waiter
    <3>1. q \in outstanding /\ q.id # r.id
      BY <1>2, <2>2 DEF Inv, OwnershipInv
    <3>2. PICK j \in Slot : pending[j].id = q.id /\ pending[j].waiter = q.waiter
      BY <3>1 DEF Inv, SlotsMatchRequests
    <3> QED
      BY <1>2, <1>5, <3>1, <3>2
  <2> QED
    BY <2>1, <2>2 DEF SlotsMatchRequests
<1>8. CASE w = None
  <2>1. heap' = heap /\ callback' = callback
    BY <1>1, <1>2, <1>4, <1>8 DEF Fire
  <2>2. \A v \in Waiter : TableHas(v)' <=> TableHas(v)
    BY <1>4, <1>5, <1>8, TableAssumption DEF TableHas
  <2>3. \A d \in Caller : Unsent(d)' <=> Unsent(d)
    BY <1>2, <2>1 DEF Unsent
  <2>4. CountInv'
    <3>1. \A v \in Waiter : (CallerHas(v)' <=> CallerHas(v)) /\ (CallbackHas(v)' <=> CallbackHas(v))
      BY <1>2, <2>1, <2>2, <2>3 DEF CallerHas, CallbackHas
    <3> QED
      BY <2>1, <3>1 DEF Inv, CountInv
  <2>5. HandOverInv'
    BY <1>2, <2>1, <2>2, <2>3 DEF Inv, HandOverInv, Unsent, TypeOK
  <2>6. AnswerInv'
    BY <1>2, <2>1 DEF Inv, AnswerInv, ServedBy
  <2> QED
    BY <1>6, <1>7, <2>4, <2>5, <2>6 DEF Inv
<1>9. CASE w # None
  <2>1. w \in Waiter /\ heap \in [Waiter -> Cell] /\ heap' = Fire(heap, w, a) /\ callback' = w
    BY <1>1, <1>3, <1>4, <1>9 DEF TypeOK
  <2>2. /\ \A v \in Waiter : v # w => heap'[v] = heap[v]
        /\ heap'[w].refs = heap[w].refs
        /\ heap'[w].done = TRUE
        /\ heap'[w].answer = IF heap[w].answer = None THEN a ELSE heap[w].answer
    <3>1. a \in Answer \cup {None} /\ w \in Waiter /\ heap \in [Waiter -> Cell]
      BY <1>3, <2>1
    <3> HIDE DEF w, a
    <3>2. /\ \A v \in Waiter : v # w => Fire(heap, w, a)[v] = heap[v]
          /\ Fire(heap, w, a)[w].refs = heap[w].refs
          /\ Fire(heap, w, a)[w].done = TRUE
          /\ Fire(heap, w, a)[w].answer = IF heap[w].answer = None THEN a ELSE heap[w].answer
      BY <3>1, FireFacts
    <3> QED
      BY <2>1, <3>2
  <2>3. TableHas(w) /\ ~heap[w].done
    BY <1>2, <1>4, <2>1 DEF TableHas, Inv, HandOverInv
  <2>4. \A v \in Waiter : TableHas(v)' <=> TableHas(v) /\ v # w
    BY <1>2, <1>4, <1>5, <2>1, TableAssumption DEF TableHas, Inv, OwnershipInv
  <2>5. \A d \in Caller : waiter[d] = w => pc[d] \notin {"send", "refused"}
    BY <2>3 DEF Inv, HandOverInv, Unsent
  <2>6. \A d \in Caller : Unsent(d)' <=> Unsent(d)
    BY <1>2, <2>2, <2>5 DEF Unsent, TypeOK
  <2>7. CountInv'
    <3>1. \A v \in Waiter : CallerHas(v)' <=> CallerHas(v)
      BY <1>2 DEF CallerHas
    <3>2. \A v \in Waiter : CallbackHas(v)' <=> CallbackHas(v)
      BY <1>2, <2>1, <2>3, <2>4, <2>6, TableAssumption DEF CallbackHas
    <3>3. \A v \in Waiter : heap'[v].refs = heap[v].refs
      BY <2>2
    <3> QED
      BY <3>1, <3>2, <3>3 DEF Inv, CountInv
  <2>8. HandOverInv'
    <3>1. \A v \in Waiter : TableHas(v)' => ~heap'[v].done /\ callback' # v
      BY <2>1, <2>2, <2>4 DEF Inv, HandOverInv
    <3>2. \A d \in Caller :
            Unsent(d)' => (~heap[waiter[d]].done /\ ~TableHas(waiter[d]) /\ callback # waiter[d])'
      <4>1. SUFFICES ASSUME NEW d \in Caller, Unsent(d)
                     PROVE  (~heap[waiter[d]].done /\ ~TableHas(waiter[d]) /\ callback # waiter[d])'
        BY <2>6
      <4>2. waiter[d] \in Waiter /\ waiter[d] # w /\ waiter'[d] = waiter[d]
        BY <1>2, <2>5, <4>1 DEF Unsent, TypeOK
      <4>3. ~heap[waiter[d]].done /\ ~TableHas(waiter[d])
        BY <4>1 DEF Inv, HandOverInv
      <4>4. ~TableHas(waiter[d])'
        BY <1>5, <4>2, <4>3, TableAssumption DEF TableHas
      <4> QED
        BY <2>1, <2>2, <4>2, <4>3, <4>4
    <3>3. callback' # None => heap'[callback'].done
      BY <2>1, <2>2
    <3>4. \A d \in Caller : pc'[d] = "result" => heap'[waiter'[d]].done
      BY <1>2, <2>2 DEF Inv, HandOverInv, TypeOK
    <3>5. \A d \in Caller : pc'[d] = "refused" => callback' # waiter'[d]
      BY <1>2, <2>1, <2>5
    <3> QED
      BY <3>1, <3>2, <3>3, <3>4, <3>5 DEF HandOverInv
  <2>9. AnswerInv'
    <3>1. \A q \in outstanding' : \A d \in Caller :
            waiter'[d] = q.waiter /\ waiter'[d] # None => q.caller = d
      BY <1>2 DEF Inv, AnswerInv
    <3>2. ASSUME NEW d \in Caller, waiter[d] # None, heap'[waiter[d]].answer # None
          PROVE  ServedBy(d)'
      <4>1. CASE waiter[d] = w /\ heap[w].answer = None
        <5>1. heap'[w].answer = a /\ a.request = r /\ r.caller = d
          BY <2>2, <3>2, <4>1 DEF Inv, AnswerInv
        <5>2. a # None
          BY <2>2, <3>2, <4>1
        <5> HIDE DEF a
        <5> QED
          BY <1>2, <4>1, <5>1, <5>2 DEF ServedBy
      <4>2. CASE ~(waiter[d] = w /\ heap[w].answer = None)
        <5>1. waiter[d] \in Waiter /\ heap'[waiter[d]].answer = heap[waiter[d]].answer
          BY <2>2, <3>2, <4>2 DEF TypeOK
        <5> QED
          BY <1>2, <3>2, <5>1 DEF Inv, AnswerInv, ServedBy
      <4> QED
        BY <4>1, <4>2
    <3> QED
      BY <1>2, <3>1, <3>2 DEF AnswerInv
  <2> QED
    BY <1>6, <1>7, <2>7, <2>8, <2>9 DEF Inv
<1> QED
  BY <1>8, <1>9

(* The callback drops the reference nobody else can drop any more. *)
LEMMA InvCallbackUnref ==
  ASSUME TypeOK, Inv, CallbackUnref
  PROVE  Inv'
<1> DEFINE w == callback
<1>1. /\ w # None /\ w \in Waiter /\ heap \in [Waiter -> Cell] /\ heap' = Unref(heap, w)
      /\ callback' = None
      /\ UNCHANGED <<pending, nextReqId, outstanding, connected, reused, pc, waiter, outcome>>
  BY DEF CallbackUnref, callerVars, TypeOK
<1>2. CallbackHas(w) /\ ~TableHas(w) /\ heap[w].done
  BY <1>1 DEF CallbackHas, Inv, HandOverInv
<1>3. \A d \in Caller : waiter[d] = w => pc[d] \notin {"send", "refused"}
  BY DEF Inv, HandOverInv, Unsent
<1>4. heap[w].refs = IF CallerHas(w) THEN 2 ELSE 1
  BY <1>1, <1>2 DEF Inv, CountInv
<1>5. /\ \A v \in Waiter : v # w => heap'[v] = heap[v]
      /\ CallerHas(w) => /\ heap'[w].refs = 1 /\ heap'[w].done = heap[w].done
                         /\ heap'[w].answer = heap[w].answer
      /\ ~CallerHas(w) => heap'[w].refs = 0
  BY <1>1, <1>4, UnrefFacts
<1>6. \A d \in Caller : pc[d] # "ready" =>
        /\ waiter[d] \in Waiter
        /\ heap'[waiter[d]].done = heap[waiter[d]].done
        /\ heap'[waiter[d]].answer = heap[waiter[d]].answer
  BY <1>5 DEF CallerHas, TypeOK
<1>7. \A d \in Caller : Unsent(d)' <=> Unsent(d)
  BY <1>1, <1>6 DEF Unsent
<1>8. OwnershipInv' /\ SlotsMatchRequests'
  BY <1>1 DEF Inv, OwnershipInv, SlotsMatchRequests
<1>9. CountInv'
  <2>1. \A v \in Waiter : CallerHas(v)' <=> CallerHas(v)
    BY <1>1 DEF CallerHas
  <2>2. \A v \in Waiter : CallbackHas(v)' <=> CallbackHas(v) /\ v # w
    BY <1>1, <1>2, <1>3, <1>7, TableAssumption DEF CallbackHas, TableHas, Unsent
  <2> QED
    BY <1>1, <1>5, <2>1, <2>2 DEF Inv, CountInv
<1>10. HandOverInv'
  <2>1. \A v \in Waiter : TableHas(v)' => ~heap'[v].done /\ callback' # v
    BY <1>1, <1>2, <1>5, TableAssumption DEF Inv, HandOverInv, TableHas
  <2>2. \A d \in Caller :
          Unsent(d)' => (~heap[waiter[d]].done /\ ~TableHas(waiter[d]) /\ callback # waiter[d])'
    BY <1>1, <1>6, <1>7, TableAssumption DEF Inv, HandOverInv, TableHas, Unsent
  <2>3. \A d \in Caller : pc'[d] = "result" => heap'[waiter'[d]].done
    BY <1>1, <1>6 DEF Inv, HandOverInv
  <2>4. \A d \in Caller : pc'[d] = "refused" => callback' # waiter'[d]
    BY <1>1, <1>6, TableAssumption
  <2> QED
    BY <1>1, <2>1, <2>2, <2>3, <2>4 DEF HandOverInv
<1>11. AnswerInv'
  BY <1>1, <1>6 DEF Inv, AnswerInv, ServedBy, TypeOK
<1> QED
  BY <1>8, <1>9, <1>10, <1>11 DEF Inv

(* The capacity probe takes a slot without a waiter, or none. *)
LEMMA InvProbe ==
  ASSUME TypeOK, Inv, ~reused', ProbeCapacity
  PROVE  Inv'
<1> DEFINE new == [id |-> NextId, op |-> "capacity", caller |-> None, waiter |-> None]
<1>1. PICK i \in FirstFree : pending' = Allocated(i, None)
  BY DEF ProbeCapacity
<1>2. i \in Slot /\ pending[i].id = 0 /\ pending[i].waiter = None
  BY DEF FirstFree, FirstWith, Inv, OwnershipInv
<1>3. /\ outstanding' = outstanding \cup {new}
      /\ UNCHANGED <<connected, callback, heap, pc, waiter>>
      /\ ~reused /\ \A j \in Slot : pending[j].id # NextId
  BY DEF ProbeCapacity, IssueId, callerVars
<1>4. /\ \A j \in Slot : j # i => pending'[j] = pending[j]
      /\ pending'[i].id = NextId /\ pending'[i].waiter = None
      /\ NextId \in Nat \ {0}
  BY <1>1, <1>2, NextIdType DEF Allocated, TypeOK
<1>5. \A v \in Waiter : TableHas(v)' <=> TableHas(v)
  BY <1>2, <1>4, TableAssumption DEF TableHas
<1>6. \A r \in outstanding : r.id # NextId /\ r.id # 0
  <2>1. \A r \in outstanding : r.id # 0
    BY DEF TypeOK, Request
  <2> QED
    BY <1>3, <2>1 DEF Inv, SlotsMatchRequests
<1>7. new \in outstanding' /\ new.id = NextId /\ new.waiter = None /\ new.caller = None
  BY <1>3
<1>8. \A r \in outstanding' : r \in outstanding \/ r = new
  BY <1>3
<1> HIDE DEF new
<1>9. OwnershipInv'
  <2>1. \A j, k \in Slot : pending'[j].id = pending'[k].id /\ pending'[j].id # 0 => j = k
    BY <1>3, <1>4 DEF Inv, OwnershipInv
  <2>2. \A j, k \in Slot :
          pending'[j].waiter = pending'[k].waiter /\ pending'[j].waiter # None => j = k
    BY <1>4 DEF Inv, OwnershipInv
  <2>3. \A j \in Slot : pending'[j].waiter # None => pending'[j].id # 0
    BY <1>4 DEF Inv, OwnershipInv
  <2>4. \A r, s \in outstanding' : r.id = s.id => r = s
    BY <1>6, <1>7, <1>8 DEF Inv, OwnershipInv
  <2> QED
    BY <1>3, <2>1, <2>2, <2>3, <2>4 DEF Inv, OwnershipInv
<1>10. \A d \in Caller : Unsent(d)' <=> Unsent(d)
  BY <1>3 DEF Unsent
<1>11. CountInv'
  <2>1. \A v \in Waiter : (CallerHas(v)' <=> CallerHas(v)) /\ (CallbackHas(v)' <=> CallbackHas(v))
    BY <1>3, <1>5, <1>10 DEF CallerHas, CallbackHas
  <2> QED
    BY <1>3, <2>1 DEF Inv, CountInv
<1>12. HandOverInv'
  BY <1>3, <1>5, <1>10 DEF Inv, HandOverInv, Unsent, TypeOK
<1>13. AnswerInv'
  BY <1>3, <1>7, <1>8 DEF Inv, AnswerInv, ServedBy
<1>14. SlotsMatchRequests'
  <2>1. ASSUME NEW j \in Slot, pending'[j].id # 0
        PROVE  \E r \in outstanding' : r.id = pending'[j].id /\ r.waiter = pending'[j].waiter
    <3>1. CASE j = i
      BY <1>4, <1>7, <3>1
    <3>2. CASE j # i
      BY <1>3, <1>4, <2>1, <3>2 DEF Inv, SlotsMatchRequests
    <3> QED
      BY <3>1, <3>2
  <2>2. ASSUME NEW r \in outstanding'
        PROVE  \E j \in Slot : pending'[j].id = r.id /\ pending'[j].waiter = r.waiter
    <3>1. CASE r = new
      BY <1>2, <1>4, <1>7, <3>1
    <3>2. CASE r # new
      <4>1. r \in outstanding /\ r.id # 0
        BY <1>6, <1>8, <2>2, <3>2
      <4>2. PICK j \in Slot : pending[j].id = r.id /\ pending[j].waiter = r.waiter
        BY <1>3, <4>1 DEF Inv, SlotsMatchRequests
      <4> QED
        BY <1>2, <1>4, <4>1, <4>2
    <3> QED
      BY <3>1, <3>2
  <2> QED
    BY <2>1, <2>2 DEF SlotsMatchRequests
<1> QED
  BY <1>9, <1>11, <1>12, <1>13, <1>14 DEF Inv

(* A step that changes none of what the invariant talks about. *)
LEMMA InvUnchanged ==
  ASSUME Inv, ~reused, UNCHANGED <<pending, outstanding, callback, heap, pc, waiter>>
  PROVE  Inv'
BY DEF Inv, OwnershipInv, CountInv, HandOverInv, AnswerInv, SlotsMatchRequests, CallerHas,
       CallbackHas, TableHas, Unsent, ServedBy

(* Once an id has been reused, the history flag says so for good.          *)
LEMMA ReusedStays == reused /\ [Next]_requestVars => reused'
<1> SUFFICES ASSUME reused, [Next]_requestVars PROVE reused'
  OBVIOUS
<1>1. ASSUME NEW c \in Caller, irp_waiter_alloc(c) \/ AllocFails(c) \/ UnderLock(c) \/ Waiting(c)
      PROVE  reused'
  BY <1>1 DEF irp_waiter_alloc, AllocFails, UnderLock, Send, TableFull, WriteFails, IssueId,
              Waiting, Refused, CheckDone, Woken, TimedOut, ReadResult, tableVars
<1>2. CASE LoopStep
  BY <1>2 DEF LoopStep, Completion, CallbackUnref, ProbeCapacity, ProbeFails, IssueId, LoopEnds
<1>3. CASE UNCHANGED requestVars
  BY <1>3 DEF requestVars, tableVars
<1> QED
  BY <1>1, <1>2, <1>3 DEF Next

(* The invariant is inductive up to the first reuse of a pending id, which *)
(* the history flag remembers for good.                                    *)
LEMMA InvStep ==
  ASSUME TypeOK, RequestInv, [Next]_requestVars
  PROVE  RequestInv'
<1>1. reused => reused'
  BY ReusedStays
<1> SUFFICES ASSUME ~reused' PROVE Inv'
  BY DEF RequestInv, Inv
<1>2. Inv /\ ~reused
  BY <1>1 DEF RequestInv, Inv
<1>3. ASSUME NEW c \in Caller, irp_waiter_alloc(c) PROVE Inv'
  BY <1>2, <1>3, InvAlloc
<1>4. ASSUME NEW c \in Caller, AllocFails(c) \/ TableFull(c) PROVE Inv'
  <2>1. CASE AllocFails(c)
    BY <1>2, <2>1, InvUnchanged DEF AllocFails, tableVars
  <2>2. CASE TableFull(c)
    <3>1. /\ pc[c] = "send" /\ pc' = [pc EXCEPT ![c] = "refused"]
          /\ UNCHANGED <<pending, outstanding, callback, reused, heap, waiter>>
      BY <2>2 DEF TableFull, tableVars
    <3>2. ~heap[waiter[c]].done /\ callback # waiter[c]
      BY <1>2, <3>1 DEF Inv, HandOverInv, Unsent
    <3>3. \A d \in Caller : Unsent(d)' <=> Unsent(d)
      BY <3>1, <3>2 DEF Unsent, TypeOK
    <3>4. CountInv'
      <4>1. \A v \in Waiter :
              (CallerHas(v)' <=> CallerHas(v)) /\ (CallbackHas(v)' <=> CallbackHas(v))
        BY <3>1, <3>3 DEF CallerHas, CallbackHas, TableHas
      <4> QED
        BY <1>2, <3>1, <4>1 DEF Inv, CountInv
    <3>5. HandOverInv'
      BY <1>2, <3>1, <3>2, <3>3 DEF Inv, HandOverInv, TableHas, TypeOK
    <3>6. AnswerInv'
      BY <1>2, <3>1 DEF Inv, AnswerInv, ServedBy
    <3>7. OwnershipInv' /\ SlotsMatchRequests'
      BY <1>2, <3>1 DEF Inv, OwnershipInv, SlotsMatchRequests
    <3> QED
      BY <3>4, <3>5, <3>6, <3>7 DEF Inv
  <2> QED
    BY <1>4, <2>1, <2>2
<1>5. ASSUME NEW c \in Caller, NEW op \in Operation, Send(c, op) PROVE Inv'
  BY <1>2, <1>5, InvSend
<1>6. ASSUME NEW c \in Caller, WriteFails(c) PROVE Inv'
  BY <1>2, <1>6, InvWriteFails
<1>7. ASSUME NEW c \in Caller, Waiting(c) PROVE Inv'
  BY <1>2, <1>7, InvWaiting
<1>8. CASE LoopStep
  <2>1. ASSUME NEW r \in outstanding, NEW s \in Result, Completion(r, s) PROVE Inv'
    BY <1>2, <2>1, InvCompletion
  <2>2. CASE CallbackUnref
    BY <1>2, <2>2, InvCallbackUnref
  <2>3. CASE ProbeCapacity
    BY <1>2, <2>3, InvProbe
  <2>4. CASE ProbeFails
    <3>1. pending' = pending /\ heap' = heap
      BY <1>2, <2>4, RegisterAndFreeUndoes DEF ProbeFails, IssueId, Inv
    <3> QED
      BY <1>2, <2>4, <3>1, InvUnchanged DEF ProbeFails, IssueId, callerVars
  <2>5. CASE LoopEnds
    BY <1>2, <2>5, InvUnchanged DEF LoopEnds, callerVars
  <2> QED
    BY <1>8, <2>1, <2>2, <2>3, <2>4, <2>5 DEF LoopStep
<1>9. CASE UNCHANGED requestVars
  BY <1>2, <1>9, InvUnchanged DEF requestVars, tableVars, callerVars
<1> QED
  BY <1>3, <1>4, <1>5, <1>6, <1>7, <1>8, <1>9 DEF Next, UnderLock

-----------------------------------------------------------------------------
(* The theorems                                                            *)

(* References are counted, handed over and answered as RequestInv says     *)
(* (irp_send_wait, irp_waiter_cb and the pending table).                   *)
THEOREM Invariance == Spec => []RequestInv
<1>1. TypeOK /\ RequestInv /\ [Next]_requestVars => RequestInv'
  BY InvStep
<1> QED
  BY <1>1, InvInit, TypeCorrect, PTL DEF Spec

(* No caller, slot or callback refers to freed memory and nothing leaks,   *)
(* however time-outs, late answers and failed sends interleave             *)
(* (RDPWebDAV.c:50-57).                                                    *)
THEOREM WaitersLive == Spec => []WaiterLifetime
<1>1. TypeOK /\ RequestInv => WaiterLifetime
  <2> SUFFICES ASSUME TypeOK, Inv, NEW w \in Waiter
               PROVE  heap[w].refs > 0 <=> Reachable(w)
    BY DEF WaiterLifetime, RequestInv, Inv
  <2>1. Reachable(w) <=> CallerHas(w) \/ CallbackHas(w)
    BY DEF Reachable, CallerHas, CallbackHas, TableHas
  <2> QED
    BY <2>1 DEF Inv, CountInv
<1> QED
  BY <1>1, Invariance, TypeCorrect, PTL

(* The pending table and the client agree on which requests are open.      *)
THEOREM SlotsMatch == Spec => []SlotsMatchRequests
<1>1. RequestInv => SlotsMatchRequests
  BY DEF RequestInv, SlotsMatchRequests
<1> QED
  BY <1>1, Invariance, PTL

-----------------------------------------------------------------------------
(* The refinement                                                          *)

(* A caller inside a call has been served when its waiter has an answer. *)
CallView ==
  [c \in Caller |-> IF pc[c] = "ready" THEN "idle"
                    ELSE IF heap[waiter[c]].answer = None THEN "asked" ELSE "served"]

LEMMA CallStateIsView == TypeOK /\ Inv => callState = CallView
BY TableAssumption DEF callState, CallView, Inv, AnswerInv, TypeOK, ServedBy

AnsweredView == {c \in Caller : outcome[c] # None}

(* Every step of a caller is a step of its own call, or of none. *)
LEMMA CallerKeepsPromise ==
  ASSUME TypeOK, TypeOK', Inv, Inv', ~reused', NEW c \in Caller,
         irp_waiter_alloc(c) \/ AllocFails(c) \/ UnderLock(c) \/ Waiting(c)
  PROVE  RC!Next \/ UNCHANGED RC!callVars
<1>1. callState = CallView /\ callState' = CallView'
  BY CallStateIsView, TableAssumption DEF callState, CallView, Inv, AnswerInv, TypeOK, ServedBy
<1> DEFINE others == \A d \in Caller : d # c => /\ CallView'[d] = CallView[d]
                                                /\ outcome'[d] = outcome[d]
<1>2. CASE irp_waiter_alloc(c)
  <2>1. PICK w \in Waiter :
          /\ heap[w].refs <= 0
          /\ heap' = [heap EXCEPT ![w] = [refs |-> 2, done |-> FALSE, answer |-> None]]
          /\ waiter' = [waiter EXCEPT ![c] = w]
    BY <1>2 DEF irp_waiter_alloc
  <2>2. /\ pc[c] = "ready" /\ pc' = [pc EXCEPT ![c] = "send"]
        /\ outcome' = [outcome EXCEPT ![c] = None]
    BY <1>2 DEF irp_waiter_alloc
  <2>3. \A d \in Caller : waiter[d] # w
    BY <2>1 DEF Inv, CountInv, CallerHas
  <2>4. CallView[c] = "idle" /\ CallView'[c] = "asked" /\ others
    BY <2>1, <2>2, <2>3 DEF CallView, TypeOK
  <2>5. RC!Ask(c)
    BY <1>1, <2>2, <2>4 DEF RC!Ask, CallView, TypeOK
  <2> QED
    BY <2>5 DEF RC!Next
<1>3. CASE AllocFails(c)
  <2>1. CallView' = CallView /\ CallView[c] = "idle"
    BY <1>3 DEF AllocFails, CallView
  <2>2. RC!GiveUp(c)
    BY <1>1, <1>3, <2>1 DEF AllocFails, RC!GiveUp, CallView, TypeOK
  <2> QED
    BY <2>2 DEF RC!Next
<1>4. CASE UnderLock(c) \/ CheckDone(c) \/ Woken(c)
  <2>1. /\ outcome' = outcome /\ waiter' = waiter
        /\ pc[c] # "ready" /\ pc'[c] # "ready"
        /\ \A d \in Caller : d # c => pc'[d] = pc[d]
    BY <1>4 DEF UnderLock, Send, TableFull, WriteFails, CheckDone, Woken, TypeOK
  <2>2. \A d \in Caller : pc[d] # "ready" => heap'[waiter[d]].answer = heap[waiter[d]].answer
    <3>1. CASE WriteFails(c)
      <4> DEFINE w == waiter[c]
                 fired == Fire(heap, w, None)
      <4>1. /\ w \in Waiter /\ w # None /\ heap \in [Waiter -> Cell] /\ pc[c] = "send"
            /\ \A j \in Slot : pending[j].id # NextId
            /\ RegisterAndFree(w)
        BY <2>1, <3>1, CallerFacts, TableAssumption DEF WriteFails, IssueId, TypeOK
      <4>2. heap[w].refs = 2
        BY <2>1, <4>1, CallerFacts DEF CallbackHas, Unsent
      <4>3. heap' = Unref(fired, w)
        BY <4>1, RegisterAndFreeUndoes DEF Inv
      <4> HIDE DEF w
      <4>4. /\ fired \in [Waiter -> Cell]
            /\ \A v \in Waiter : v # w => fired[v] = heap[v]
            /\ fired[w].refs = heap[w].refs
            /\ fired[w].answer = IF heap[w].answer = None THEN None ELSE heap[w].answer
        <5>1. w \in Waiter /\ heap \in [Waiter -> Cell] /\ None \in Answer \cup {None}
          BY <4>1
        <5> QED
          BY <5>1, FireFacts
      <4>5. fired[w].refs = 2 /\ fired[w].answer = heap[w].answer
        BY <4>2, <4>4
      <4> HIDE DEF fired
      <4>6. /\ \A v \in Waiter : v # w => Unref(fired, w)[v] = fired[v]
            /\ Unref(fired, w)[w].answer = fired[w].answer
        BY <4>1, <4>4, <4>5, UnrefFacts
      <4>7. \A v \in Waiter : heap'[v].answer = heap[v].answer
        BY <4>3, <4>4, <4>5, <4>6
      <4> QED
        BY <4>7 DEF TypeOK
    <3>2. CASE ~WriteFails(c)
      BY <1>4, <3>2 DEF UnderLock, Send, TableFull, CheckDone, Woken
    <3> QED
      BY <3>1, <3>2
  <2>3. CallView' = CallView
    BY <2>1, <2>2 DEF CallView
  <2> QED
    BY <1>1, <2>1, <2>3 DEF RC!callVars
<1>5. CASE Refused(c) \/ TimedOut(c) \/ ReadResult(c)
  <2> DEFINE w == waiter[c]
  <2>1. /\ pc[c] # "ready" /\ pc' = [pc EXCEPT ![c] = "ready"]
        /\ waiter' = [waiter EXCEPT ![c] = None]
        /\ heap' \in {Unref(heap, w), Unref(Unref(heap, w), w)}
    BY <1>5 DEF Refused, TimedOut, ReadResult
  <2>2. w \in Waiter /\ heap \in [Waiter -> Cell] /\ \A d \in Caller : waiter[d] = w => d = c
    BY <2>1, CallerFacts DEF TypeOK
  <2>3. \A v \in Waiter : v # w => heap'[v] = heap[v]
    <3> DEFINE once == Unref(heap, w)
    <3> HIDE DEF w
    <3>1. once \in [Waiter -> Cell] /\ \A v \in Waiter : v # w => once[v] = heap[v]
      BY <2>2, UnrefFacts
    <3>2. heap' \in {once, Unref(once, w)}
      BY <2>1
    <3> HIDE DEF once
    <3>3. \A v \in Waiter : v # w => Unref(once, w)[v] = once[v]
      BY <2>2, <3>1, UnrefFacts
    <3> QED
      BY <3>1, <3>2, <3>3
  <2>4. /\ \A d \in Caller : d # c => CallView'[d] = CallView[d]
        /\ CallView'[c] = "idle"
    BY <2>1, <2>2, <2>3 DEF CallView, TypeOK
  <2>5. CASE ReadResult(c) /\ heap[w].answer # None
    <3>1. CallView[c] = "served"
      BY <2>1, <2>5 DEF CallView
    <3>2. outcome' = [outcome EXCEPT ![c] = heap[w].answer.result]
      BY <2>5 DEF ReadResult
    <3>3. heap[w].answer.result \in Result
      BY <2>2, <2>5 DEF Cell, Answer
    <3>4. AnsweredView' = AnsweredView \cup {c}
      BY <3>2, <3>3, TableAssumption DEF AnsweredView, TypeOK
    <3>5. RC!Return(c)
      BY <1>1, <2>4, <3>1, <3>4 DEF RC!Return, CallView, AnsweredView
    <3> QED
      BY <3>5 DEF RC!Next
  <2>6. CASE ~(ReadResult(c) /\ heap[w].answer # None)
    <3>1. outcome[c] = None /\ outcome'[c] = None
          /\ \A d \in Caller : d # c => outcome'[d] = outcome[d]
      BY <1>5, <2>1, <2>6 DEF Refused, TimedOut, ReadResult, TypeOK
    <3>2. RC!GiveUp(c)
      BY <1>1, <2>4, <3>1 DEF RC!GiveUp, CallView
    <3> QED
      BY <3>2 DEF RC!Next
  <2> QED
    BY <2>5, <2>6
<1> QED
  BY <1>2, <1>3, <1>4, <1>5 DEF Waiting

(* An answer serves the call of the one caller that waits for it. *)
LEMMA LoopKeepsPromise ==
  ASSUME TypeOK, TypeOK', Inv, Inv', ~reused', LoopStep
  PROVE  RC!Next \/ UNCHANGED RC!callVars
<1>1. callState = CallView /\ callState' = CallView'
  BY CallStateIsView, TableAssumption DEF callState, CallView, Inv, AnswerInv, TypeOK, ServedBy
<1>2. UNCHANGED <<pc, waiter, outcome>>
  BY DEF LoopStep, Completion, CallbackUnref, ProbeCapacity, ProbeFails, LoopEnds, callerVars
<1>3. ASSUME \A d \in Caller : pc[d] # "ready" =>
                heap'[waiter[d]].answer = heap[waiter[d]].answer
      PROVE  UNCHANGED RC!callVars
  BY <1>1, <1>2, <1>3 DEF CallView, RC!callVars
<1>4. ASSUME NEW r \in outstanding, NEW s \in Result, Completion(r, s)
      PROVE  RC!Next \/ UNCHANGED RC!callVars
  <2> DEFINE a == [request |-> r, result |-> s]
  <2>1. PICK w \in Waiter \cup {None} : heap' = Fire(heap, w, a)
    BY <1>4 DEF Completion, FirstWith, TypeOK
  <2>2. heap \in [Waiter -> Cell] /\ a \in Answer /\ a \in Answer \cup {None}
    BY DEF TypeOK, Answer
  <2>3. CASE \E d \in Caller : waiter[d] = w /\ w # None /\ heap[w].answer = None
    <3>1. PICK d \in Caller : waiter[d] = w /\ w # None /\ heap[w].answer = None
      BY <2>3
    <3>2. w \in Waiter /\ pc[d] # "ready" /\ \A e \in Caller : waiter[e] = w => e = d
      BY <2>1, <3>1 DEF TypeOK, Inv, OwnershipInv
    <3> HIDE DEF a
    <3>3. /\ \A v \in Waiter : v # w => Fire(heap, w, a)[v] = heap[v]
          /\ Fire(heap, w, a)[w].answer = IF heap[w].answer = None THEN a ELSE heap[w].answer
      BY <2>2, <3>2, FireFacts
    <3>4. /\ \A v \in Waiter : v # w => heap'[v] = heap[v]
          /\ heap'[w].answer = a
      BY <2>1, <3>1, <3>3
    <3>5. /\ \A e \in Caller : e # d => CallView'[e] = CallView[e]
          /\ CallView[d] = "asked"
      BY <1>2, <3>1, <3>2, <3>4 DEF CallView, TypeOK
    <3>6. a # None => RC!Serve(d)
      BY <1>1, <1>2, <3>1, <3>2, <3>4, <3>5 DEF RC!Serve, CallView
    <3>7. a = None => UNCHANGED RC!callVars
      BY <1>1, <1>2, <3>1, <3>2, <3>4, <3>5 DEF RC!callVars, CallView
    <3> QED
      BY <3>6, <3>7 DEF RC!Next
  <2>4. CASE ~\E d \in Caller : waiter[d] = w /\ w # None /\ heap[w].answer = None
    <3>1. CASE w = None
      BY <1>3, <2>1, <3>1 DEF Fire
    <3>2. CASE w # None
      <4>1. w \in Waiter
        BY <3>2
      <4> HIDE DEF a
      <4>2. /\ \A v \in Waiter : v # w => Fire(heap, w, a)[v] = heap[v]
            /\ Fire(heap, w, a)[w].answer = IF heap[w].answer = None THEN a ELSE heap[w].answer
        BY <2>2, <4>1, FireFacts
      <4>3. \A d \in Caller : pc[d] # "ready" =>
              heap'[waiter[d]].answer = heap[waiter[d]].answer
        BY <2>1, <2>4, <3>2, <4>2 DEF TypeOK
      <4> QED
        BY <1>3, <4>3
    <3> QED
      BY <3>1, <3>2
  <2> QED
    BY <2>3, <2>4
<1>5. CASE CallbackUnref
  <2> DEFINE w == callback
  <2>1. w \in Waiter /\ heap \in [Waiter -> Cell] /\ heap' = Unref(heap, w)
    BY <1>5 DEF CallbackUnref, TypeOK
  <2>2. \A d \in Caller : waiter[d] = w => heap[w].refs = 2
    BY <2>1 DEF Inv, CountInv, CallerHas, CallbackHas
  <2>3. /\ \A v \in Waiter : v # w => heap'[v] = heap[v]
        /\ heap[w].refs = 2 => heap'[w].answer = heap[w].answer
    BY <2>1, UnrefFacts
  <2>4. \A d \in Caller : pc[d] # "ready" => heap'[waiter[d]].answer = heap[waiter[d]].answer
    BY <2>2, <2>3 DEF TypeOK
  <2> QED
    BY <1>3, <2>4
<1>6. CASE ProbeCapacity \/ LoopEnds
  BY <1>3, <1>6 DEF ProbeCapacity, LoopEnds
<1>7. CASE ProbeFails
  <2>1. heap' = heap
    BY <1>7, RegisterAndFreeUndoes DEF ProbeFails, IssueId, Inv
  <2> QED
    BY <1>3, <2>1
<1> QED
  BY <1>4, <1>5, <1>6, <1>7 DEF LoopStep

(* Up to the reuse of a pending id, the table and the waiters implement    *)
(* the promise to the WebDAV threads: a call ends once, and answered only  *)
(* by the client's answer to that very call.                               *)
THEOREM Refinement == Spec => CallsKeepPromise
<1>1. Init => RC!Init
  BY DEF Init, RC!Init, callState
<1>2. TypeOK /\ RequestInv /\ (TypeOK /\ RequestInv)' /\ [Next]_requestVars
        => [RC!Next \/ reused']_(RC!callVars)
  <2> SUFFICES ASSUME TypeOK, RequestInv, TypeOK', RequestInv', Next, ~reused'
               PROVE  RC!Next \/ UNCHANGED RC!callVars
    BY DEF requestVars, tableVars, callerVars, RC!callVars, callState, ServedBy
  <2>1. ~reused
    BY DEF Next, irp_waiter_alloc, AllocFails, UnderLock, Send, TableFull, WriteFails, IssueId,
           Waiting, Refused, CheckDone, Woken, TimedOut, ReadResult, tableVars,
           LoopStep, Completion, CallbackUnref, ProbeCapacity, ProbeFails, LoopEnds
  <2>2. Inv /\ Inv'
    BY <2>1 DEF RequestInv, Inv
  <2> QED
    BY <2>1, <2>2, CallerKeepsPromise, LoopKeepsPromise DEF Next
<1> QED
  BY <1>1, <1>2, Invariance, TypeCorrect, PTL DEF Spec, CallsKeepPromise

-----------------------------------------------------------------------------
(* Before the ids wrap around                                              *)

(* The request counter has not come to its limit: with 32 bits, fewer than *)
(* 2^32 - 1 requests have been sent in the session.                        *)
BeforeWrap == nextReqId + 1 < IdLimit

IdsInOrder == ~reused /\ \A i \in Slot : pending[i].id <= nextReqId

LEMMA IssueIsFresh ==
  ASSUME TypeOK, BeforeWrap, IdsInOrder, IssueId
  PROVE  /\ ~reused' /\ NextId = nextReqId + 1 /\ nextReqId' = nextReqId + 1
         /\ \A i \in Slot : pending[i].id <= nextReqId'
<1>1. NextId = nextReqId + 1 /\ nextReqId \in Nat /\ IdLimit \in Nat
  BY TableAssumption DEF NextId, BeforeWrap, TypeOK
<1>2. \A i \in Slot : pending[i].id \in Nat /\ pending[i].id <= nextReqId
  BY TableAssumption DEF TypeOK, IdsInOrder
<1>3. \A i \in Slot : pending[i].id # NextId
  BY <1>1, <1>2
<1>4. ~reused'
  BY <1>3 DEF IssueId, IdsInOrder
<1>5. nextReqId' = nextReqId + 1
  BY <1>1 DEF IssueId
<1>6. \A i \in Slot : pending[i].id <= nextReqId'
  BY <1>1, <1>2, <1>5
<1>7. QED
  BY <1>1, <1>4, <1>5, <1>6

LEMMA AllocatedInOrder ==
  ASSUME TypeOK, BeforeWrap, IdsInOrder, IssueId, NEW w,
         NEW i \in Slot, NEW k \in Slot
  PROVE  Allocated(i, w)[k].id <= nextReqId'
<1>1. NextId = nextReqId + 1 /\ nextReqId' = nextReqId + 1 /\ pending[k].id <= nextReqId'
  BY IssueIsFresh
<1>2. Allocated(i, w)[k].id \in {NextId, pending[k].id}
  BY DEF Allocated, TypeOK
<1>3. nextReqId' \in Nat
  BY <1>1 DEF TypeOK
<1>4. QED
  BY <1>1, <1>2, <1>3

LEMMA IdsInOrderStep == TypeOK /\ BeforeWrap /\ IdsInOrder /\ [Next]_requestVars => IdsInOrder'
<1> SUFFICES ASSUME TypeOK, BeforeWrap, IdsInOrder, [Next]_requestVars PROVE IdsInOrder'
  OBVIOUS
<1> USE DEF tableVars
<1>1. nextReqId \in Nat /\ \A i \in Slot : pending[i] \in [id : 0..(IdLimit - 1), waiter : Waiter \cup {None}]
  BY TableAssumption DEF TypeOK
<1>2. ASSUME NEW w, NEW i \in Slot, pending' = Allocated(i, w), IssueId PROVE IdsInOrder'
  BY <1>2, IssueIsFresh, AllocatedInOrder DEF IdsInOrder
<1>3. ASSUME NEW w, RegisterAndFree(w), IssueId PROVE IdsInOrder'
  <2>1. PICK i \in Slot, j \in Slot : pending' = [Allocated(i, w) EXCEPT ![j] = FreeSlot]
    BY <1>3 DEF RegisterAndFree, FirstFree, FirstWith
  <2>2. ASSUME NEW k \in Slot PROVE pending'[k].id <= nextReqId'
    <3>1. Allocated(i, w)[k].id <= nextReqId' /\ nextReqId' \in Nat
      BY <1>1, <1>3, AllocatedInOrder, IssueIsFresh
    <3>2. pending'[k] \in {FreeSlot, Allocated(i, w)[k]}
      BY <2>1 DEF Allocated, TypeOK
    <3>3. QED
      BY <3>1, <3>2 DEF FreeSlot
  <2>3. QED
    BY <1>3, <2>2, IssueIsFresh DEF IdsInOrder
<1>4. ASSUME NEW c \in Caller, UnderLock(c) PROVE IdsInOrder'
  <2>1. ASSUME NEW op \in Operation, Send(c, op) PROVE IdsInOrder'
    BY <1>2, <2>1 DEF Send, FirstFree, FirstWith
  <2>2. CASE TableFull(c)
    BY <2>2 DEF TableFull, IdsInOrder
  <2>3. CASE WriteFails(c)
    BY <1>3, <2>3 DEF WriteFails
  <2>4. QED
    BY <1>4, <2>1, <2>2, <2>3 DEF UnderLock
<1>5. CASE ProbeCapacity
  BY <1>2, <1>5 DEF ProbeCapacity, FirstFree, FirstWith
<1>6. CASE ProbeFails
  BY <1>3, <1>6 DEF ProbeFails
<1>7. ASSUME NEW r \in outstanding, NEW s \in Result, Completion(r, s) PROVE IdsInOrder'
  <2>1. PICK i \in Slot : pending' = [pending EXCEPT ![i] = FreeSlot]
    BY <1>7 DEF Completion, FirstWith
  <2>2. UNCHANGED <<nextReqId, reused>>
    BY <1>7 DEF Completion
  <2>3. QED
    BY <1>1, <2>1, <2>2 DEF IdsInOrder, FreeSlot, TypeOK
<1>8. CASE UNCHANGED <<pending, nextReqId, reused>>
  BY <1>8 DEF IdsInOrder
<1>9. CASE CallbackUnref \/ LoopEnds \/ UNCHANGED requestVars
  BY <1>8, <1>9 DEF CallbackUnref, LoopEnds, requestVars
<1>10. ASSUME NEW c \in Caller, irp_waiter_alloc(c) \/ AllocFails(c) \/ Waiting(c)
       PROVE  IdsInOrder'
  BY <1>8, <1>10 DEF irp_waiter_alloc, AllocFails, Waiting, Refused, CheckDone, Woken,
                     TimedOut, ReadResult
<1>11. QED
  BY <1>4, <1>5, <1>6, <1>7, <1>9, <1>10 DEF Next, LoopStep

(* No id is issued twice before the counter wraps around, so what          *)
(* RequestInv, WaiterLifetime and SlotsMatchRequests promise until then    *)
(* holds in every state of such a session.                                 *)
THEOREM NoReuseBeforeWrap == Spec /\ []BeforeWrap => []~reused
<1>1. Init => IdsInOrder
  BY DEF Init, IdsInOrder, FreeSlot
<1>2. TypeOK /\ BeforeWrap /\ IdsInOrder /\ [Next]_requestVars => IdsInOrder'
  BY IdsInOrderStep
<1>3. IdsInOrder => ~reused
  BY DEF IdsInOrder
<1>4. QED
  BY <1>1, <1>2, <1>3, TypeCorrect, PTL DEF Spec

(* Memory and table, without reservation: no reference to freed memory, no *)
(* leak, and the table is what the client has.                             *)
THEOREM SoundBeforeWrap ==
  Spec /\ []BeforeWrap
    => [](/\ OwnershipInv /\ CountInv /\ HandOverInv /\ AnswerInv
          /\ \A w \in Waiter : heap[w].refs > 0 <=> Reachable(w))
<1>1. RequestInv /\ WaiterLifetime /\ ~reused
        => /\ OwnershipInv /\ CountInv /\ HandOverInv /\ AnswerInv
           /\ \A w \in Waiter : heap[w].refs > 0 <=> Reachable(w)
  BY DEF RequestInv, WaiterLifetime
<1>2. QED
  BY <1>1, NoReuseBeforeWrap, Invariance, WaitersLive, PTL

(* The promise to the WebDAV threads, without reservation.                 *)
THEOREM RefinementBeforeWrap == Spec /\ []BeforeWrap => RC!Spec
<1>1. [RC!Next \/ reused']_(RC!callVars) /\ ~reused' => [RC!Next]_(RC!callVars)
  OBVIOUS
<1>2. QED
  BY <1>1, NoReuseBeforeWrap, Refinement, PTL DEF CallsKeepPromise, RC!Spec

=============================================================================
