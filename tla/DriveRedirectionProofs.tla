----------------------- MODULE DriveRedirectionProofs -----------------------
(***************************************************************************)
(* Theorems about DriveRedirection, for any number of servers, drives and  *)
(* requests.  Its steps are steps of DeviceRequests, so that what is       *)
(* proved of the pending table holds with the servers around it; and with  *)
(* that, threads have their servers and handlers close their files.        *)
(***************************************************************************)
EXTENDS DriveRedirection, DeviceRequestsProofs

-----------------------------------------------------------------------------
(* Slots and handlers.                                                     *)
LEMMA SlotNumbers ==
  /\ MaxDevices \in Nat
  /\ \A c \in Caller : c \in Nat /\ c < MaxDevices
  /\ \A i \in 0..MaxDevices : i < MaxDevices => i \in Caller
BY DriveAssumption DEF MaxDevices

Job == [method : Method, op : Operation \cup {"end"}, left : 0..MaxChunks,
        failed : BOOLEAN, file : BOOLEAN]

LEMMA OperationsAreKnown ==
  {"open", "opendir", "list", "read", "write", "delete", "close"} \subseteq Operation
BY DriveAssumption

LEMMA FirstOpIsOp == \A m \in Method : FirstOp(m) \in {"open", "opendir", "end"}
BY DEF FirstOp

LEMMA NextOpsAreOps ==
  ASSUME NEW m, NEW o, NEW ok \in BOOLEAN, NEW n, NEW next \in NextOps(m, o, ok, n)
  PROVE  next \in {"open", "list", "read", "write", "delete", "close", "end"}
BY DEF NextOps, Creates

(* A handler ends after a CLOSE, or a CREATE that has not succeeded.       *)
LEMMA EndsAfter ==
  ASSUME NEW m, NEW o, NEW ok \in BOOLEAN, NEW n, "end" \in NextOps(m, o, ok, n)
  PROVE  o = "close" \/ (o \in Creates /\ ~ok)
BY DEF NextOps, Creates

LEMMA NoJobIsJob == NoJob \in Job
BY DriveAssumption DEF NoJob, Job, Method

LEMMA ToldIsJob ==
  ASSUME NEW j \in Job, NEW o \in Operation \cup {"end"}, NEW result
  PROVE  Told(j, o, result) \in Job
<1>1. /\ j.method \in Method /\ j.left \in 0..MaxChunks
      /\ j.failed \in BOOLEAN /\ j.file \in BOOLEAN
  BY DEF Job
<1>2. (IF j.op \in {"read", "write"} /\ j.left > 0 THEN j.left - 1 ELSE j.left) \in 0..MaxChunks
  BY <1>1, DriveAssumption
<1>3. (j.failed \/ Unknown(j.op, result)) \in BOOLEAN
  BY DEF Unknown
<1>4. QED
  BY <1>1, <1>2, <1>3 DEF Told, Job

-----------------------------------------------------------------------------
(* Types, in two parts.                                                    *)
LoopType ==
  /\ rdpdrState \in {"SentAnnounce", "ReceivedName", "Ready", "Error"}
  /\ loop \in LoopPlace
  /\ slot \in 0..MaxDevices
  /\ devices \in Seq(Drive)
  /\ announced \subseteq Drive
  /\ server \in [Caller -> Drive \cup {None}]
  /\ running \in [Caller -> BOOLEAN]
  /\ mounted \in [Caller -> BOOLEAN]
  /\ mounter \in {"idle", "asking", "answered"}

JobType ==
  /\ thread \in [Caller -> {"none", "accept", "serve", "calling", "exited"}]
  /\ job \in [Caller -> Job]
  /\ \A c \in Caller : thread[c] # "calling" => pc[c] = "ready"
  /\ rdpPath \in Caller \cup {None}
  /\ requests \in 0..MaxRequests

LEMMA DriveTypeParts ==
  /\ DriveTypeOK <=> LoopType /\ JobType
  /\ DriveTypeOK' <=> LoopType' /\ JobType'
BY DEF DriveTypeOK, LoopType, JobType, Job

(* The actions of the loop that leave the handlers alone, and others.      *)
LoopOnly ==
  \/ ClientName \/ (\E list \in DeviceLists : DeviceListAnnounce(list))
  \/ ServerFails \/ (\E ok \in BOOLEAN : MountEnds(ok)) \/ ProbeDrive
  \/ CallbackEnds \/ PeerLoopEnds
  \/ Unmount \/ StopServer \/ JoinThread \/ NoServer \/ ContextFreed

LEMMA LoopOnlyKeepsJobs == LoopOnly => UNCHANGED <<jobVars, callerVars>>
BY DEF LoopOnly, ClientName, DeviceListAnnounce, ServerFails, MountEnds, ProbeDrive, ProbeCapacity,
   ProbeFails, CallbackEnds, CallbackUnref, PeerLoopEnds, LoopEnds, Unmount, StopServer, JoinThread,
   NoServer, ContextFreed, requestVars, tableVars

(* Who is where, after a step.                                             *)
LEMMA JobStep ==
  ASSUME DriveNext
  PROVE  \/ LoopOnly
         \/ ServerCreated
         \/ \E r \in outstanding, s \in Result : IoCompletion(r, s)
         \/ \E m \in {"OPTIONS", "PROPFIND"} : MountAsks(m)
         \/ \E c \in Caller : \/ ThreadStep(c) \/ LeaveAcceptLoop(c)
                              \/ \E m \in Method : Connect(c, m)
BY DEF DriveNext, DriveLoopStep, LoopOnly

LEMMA SlotUsed ==
  ASSUME LoopType, PlaceInv
  PROVE  loop \in {"create", "mount", "destroy", "join"} => slot \in Caller
BY SlotNumbers DEF LoopType, PlaceInv

LEMMA HeadIsDrive ==
  ASSUME devices \in Seq(Drive), devices # <<>>
  PROVE  Head(devices) \in Drive /\ Tail(devices) \in Seq(Drive)
OBVIOUS

LEMMA LoopTypeStep == LoopType /\ PlaceInv /\ [DriveNext]_driveVars => LoopType'
<1> SUFFICES ASSUME LoopType, PlaceInv, [DriveNext]_driveVars PROVE LoopType'
  OBVIOUS
<1>1. CASE UNCHANGED <<loopVars, mounter>>
  BY <1>1 DEF LoopType, loopVars
<1>2. CASE \E c \in Caller : \/ ThreadStep(c) \/ LeaveAcceptLoop(c)
                             \/ \E m \in Method : Connect(c, m)
  <2>1. UNCHANGED loopVars /\ mounter' \in {mounter, "answered"}
    BY <1>2 DEF ThreadStep, Call, SendRequest, Wait, Continue, Respond, LeaveAcceptLoop, Connect,
       handle_connection
  <2>2. QED
    BY <2>1 DEF LoopType, loopVars
<1>3. CASE \E m \in {"OPTIONS", "PROPFIND"} : MountAsks(m)
  <2>1. UNCHANGED loopVars /\ mounter' = "asking"
    BY <1>3 DEF MountAsks, handle_connection
  <2>2. QED
    BY <2>1 DEF LoopType, loopVars
<1>4. CASE \E r \in outstanding, s \in Result : IoCompletion(r, s)
  BY <1>1, <1>4 DEF IoCompletion
<1>5. CASE ServerCreated
  <2>1. slot \in Caller /\ Head(devices) \in Drive
    BY <1>5, SlotUsed, HeadIsDrive DEF ServerCreated, PlaceInv, LoopType
  <2>2. QED
    BY <1>5, <2>1 DEF ServerCreated, LoopType, LoopPlace
<1>6. CASE ClientName
  BY <1>6 DEF ClientName, LoopType
<1>7. ASSUME NEW list \in DeviceLists, DeviceListAnnounce(list) PROVE LoopType'
  <2>1. list \in Seq(Drive) /\ ForDrive(0) \in LoopPlace /\ 0 \in 0..MaxDevices
    BY DriveAssumption, SlotNumbers DEF ForDrive, LoopPlace
  <2>2. announced' \subseteq Drive
    BY <1>7, <2>1 DEF DeviceListAnnounce, LoopType
  <2>3. QED
    BY <1>7, <2>1, <2>2 DEF DeviceListAnnounce, LoopType
<1>8. CASE ServerFails
  BY <1>8 DEF ServerFails, LoopType, LoopPlace
<1>9. ASSUME NEW ok \in BOOLEAN, MountEnds(ok) PROVE LoopType'
  BY <1>9 DEF MountEnds, LoopType, LoopPlace
<1>10. CASE ProbeDrive
  <2>1. Tail(devices) \in Seq(Drive)
    BY <1>10, HeadIsDrive DEF ProbeDrive, PlaceInv, LoopType
  <2>2. (IF slot < MaxDevices THEN slot + 1 ELSE slot) \in 0..MaxDevices
    BY SlotNumbers DEF LoopType
  <2>3. loop' \in LoopPlace
    BY <1>10 DEF ProbeDrive, ForDrive, LoopPlace
  <2>4. rdpdrState' \in {rdpdrState, "Ready"}
    BY <1>10 DEF ProbeDrive
  <2>5. slot' = (IF slot < MaxDevices THEN slot + 1 ELSE slot) /\ devices' = Tail(devices)
        /\ UNCHANGED <<announced, server, running, mounted, mounter>>
    BY <1>10 DEF ProbeDrive
  <2>6. QED
    BY <2>1, <2>2, <2>3, <2>4, <2>5 DEF LoopType
<1>11. CASE CallbackEnds
  BY <1>1, <1>11 DEF CallbackEnds
<1>12. CASE PeerLoopEnds
  BY <1>12, SlotNumbers DEF PeerLoopEnds, LoopType, LoopPlace
<1>13. CASE Unmount
  BY <1>13 DEF Unmount, LoopType, LoopPlace
<1>14. CASE StopServer
  BY <1>14 DEF StopServer, LoopType, LoopPlace
<1>15. CASE JoinThread
  <2>1. slot + 1 \in 0..MaxDevices
    BY <1>15, SlotNumbers DEF JoinThread, LoopType, PlaceInv
  <2>2. QED
    BY <1>15, <2>1 DEF JoinThread, LoopType, LoopPlace
<1>16. CASE NoServer
  <2>1. slot + 1 \in 0..MaxDevices
    BY <1>16, SlotNumbers DEF NoServer, LoopType
  <2>2. QED
    BY <1>16, <2>1 DEF NoServer, LoopType
<1>17. CASE ContextFreed
  BY <1>17 DEF ContextFreed, LoopType, LoopPlace
<1>18. CASE LoopOnly
  BY <1>6, <1>7, <1>8, <1>9, <1>10, <1>11, <1>12, <1>13, <1>14, <1>15, <1>16, <1>17, <1>18
     DEF LoopOnly
<1>19. CASE UNCHANGED driveVars
  BY <1>1, <1>19 DEF driveVars
<1>20. QED
  BY <1>2, <1>3, <1>4, <1>5, <1>18, <1>19, JobStep

(* What handlers do to their locals and their calls.                       *)
LEMMA ConnectionStep ==
  ASSUME JobType, NEW c \in Caller, NEW m \in Method, handle_connection(c, m)
  PROVE  /\ job' \in [Caller -> Job]
         /\ thread[c] = "accept" /\ running[c]
         /\ thread' = [thread EXCEPT ![c] = "serve"]
         /\ \A d \in Caller : d # c => job'[d] = job[d]
         /\ job'[c].file = FALSE /\ rdpPath' \in {rdpPath, c}
         /\ UNCHANGED <<requestVars, loopVars>>
<1>1. PICK n \in 0..MaxChunks :
        job' = [job EXCEPT ![c] = [method |-> m, op |-> FirstOp(m), left |-> n,
                                   failed |-> FALSE, file |-> FALSE]]
  <2>1. (IF m \in {"GET", "PUT"} THEN 0..MaxChunks ELSE {0}) \subseteq 0..MaxChunks
    BY DriveAssumption
  <2>2. PICK n \in IF m \in {"GET", "PUT"} THEN 0..MaxChunks ELSE {0} :
          job' = [job EXCEPT ![c] = [method |-> m, op |-> FirstOp(m), left |-> n,
                                     failed |-> FALSE, file |-> FALSE]]
    BY DEF handle_connection
  <2>3. n \in 0..MaxChunks
    BY <2>1, <2>2
  <2>4. QED
    BY <2>2, <2>3
<1>2. [method |-> m, op |-> FirstOp(m), left |-> n, failed |-> FALSE, file |-> FALSE] \in Job
  BY FirstOpIsOp, OperationsAreKnown DEF Job
<1>3. job' \in [Caller -> Job] /\ job'[c].file = FALSE
      /\ \A d \in Caller : d # c => job'[d] = job[d]
  BY <1>1, <1>2 DEF JobType
<1>4. QED
  BY <1>3 DEF handle_connection

LEMMA ContinueStep ==
  ASSUME JobType, NEW c \in Caller, Continue(c)
  PROVE  \E o \in Operation \cup {"end"} :
           /\ o \in NextOps(job[c].method, job[c].op, Succeeded(job[c].op, outcome[c]), job[c].left)
           /\ job' = [job EXCEPT ![c] = Told(job[c], o, outcome[c])]
           /\ Told(job[c], o, outcome[c]) \in Job
<1>1. PICK o \in NextOps(job[c].method, job[c].op, Succeeded(job[c].op, outcome[c]), job[c].left) :
        job' = [job EXCEPT ![c] = Told(job[c], o, outcome[c])]
  BY DEF Continue
<1>2. Succeeded(job[c].op, outcome[c]) \in BOOLEAN
  BY DEF Succeeded
<1>3. o \in {"open", "list", "read", "write", "delete", "close", "end"}
  BY <1>2, NextOpsAreOps
<1>4. o \in Operation \cup {"end"}
  BY <1>3, OperationsAreKnown
<1>5. Told(job[c], o, outcome[c]) \in Job
  BY <1>4, ToldIsJob DEF JobType
<1>6. QED
  BY <1>1, <1>4, <1>5

LEMMA AnsweredStep ==
  ASSUME JobType, NEW r, NEW s, IoCompletion(r, s)
  PROVE  /\ job' \in [Caller -> Job]
         /\ UNCHANGED <<thread, rdpPath, requests, callerVars, loopVars>>
         /\ \A c \in Caller : job'[c].op = job[c].op /\ job'[c].failed = job[c].failed
         /\ \A c \in Caller :
              job'[c].file = IF /\ r.op \in Creates \cup {"close"}
                                /\ waiter[r.caller] = r.waiter /\ r.caller = c
                             THEN r.op # "close" /\ s.status = "success"
                             ELSE job[c].file
<1>1. UNCHANGED <<thread, rdpPath, requests, callerVars, loopVars>>
  BY DEF IoCompletion, Completion
<1>2. job \in [Caller -> Job]
  BY DEF JobType
<1>3. CASE ~(r.op \in Creates \cup {"close"} /\ waiter[r.caller] = r.waiter)
  <2>1. job' = job
    BY <1>3 DEF IoCompletion
  <2>2. QED
    BY <1>1, <1>2, <1>3, <2>1
<1>4. CASE r.op \in Creates \cup {"close"} /\ waiter[r.caller] = r.waiter
  <2> DEFINE opened == r.op # "close" /\ s.status = "success"
  <2>1. job' = [job EXCEPT ![r.caller].file = opened]
    BY <1>4 DEF IoCompletion
  <2>2. opened \in BOOLEAN
    OBVIOUS
  <2> HIDE DEF opened
  <2>3. \A c \in Caller : job[c] \in Job
    BY <1>2
  <2>4. \A c \in Caller : /\ [job[c] EXCEPT !.file = opened] \in Job
                          /\ [job[c] EXCEPT !.file = opened].op = job[c].op
                          /\ [job[c] EXCEPT !.file = opened].failed = job[c].failed
                          /\ [job[c] EXCEPT !.file = opened].file = opened
    BY <2>2, <2>3 DEF Job
  <2>5. \A c \in Caller :
          job'[c] = IF c = r.caller THEN [job[c] EXCEPT !.file = opened] ELSE job[c]
    BY <1>2, <2>1
  <2>6. job' \in [Caller -> Job]
    BY <1>2, <2>1, <2>4
  <2>7. \A c \in Caller : job'[c].op = job[c].op /\ job'[c].failed = job[c].failed
    BY <2>4, <2>5
  <2>8. \A c \in Caller : job'[c].file = IF r.caller = c THEN opened ELSE job[c].file
    BY <2>4, <2>5
  <2>9. QED
    BY <1>1, <1>4, <2>6, <2>7, <2>8 DEF opened
<1>5. QED
  BY <1>3, <1>4

LEMMA JobTypeStep ==
  ASSUME TypeOK, LoopType, JobType, PlaceInv, ServerInv, [DriveNext]_driveVars
  PROVE  JobType'
<1> pc \in [Caller -> Place]
  BY DEF TypeOK
<1>1. /\ thread \in [Caller -> {"none", "accept", "serve", "calling", "exited"}]
      /\ job \in [Caller -> Job]
      /\ \A c \in Caller : thread[c] # "calling" => pc[c] = "ready"
      /\ rdpPath \in Caller \cup {None} /\ requests \in 0..MaxRequests
  BY DEF JobType
<1>2. CASE UNCHANGED <<thread, job, rdpPath, requests, pc>>
  BY <1>1, <1>2 DEF JobType
<1>3. CASE LoopOnly
  BY <1>2, <1>3, LoopOnlyKeepsJobs DEF jobVars, callerVars
<1>4. CASE ServerCreated
  <2>1. slot \in Caller /\ thread[slot] # "calling"
    BY <1>4, SlotUsed DEF ServerCreated, ServerInv, ThreadsHaveServer
  <2>2. thread' = [thread EXCEPT ![slot] = "accept"] /\ UNCHANGED <<job, rdpPath, requests, pc>>
    BY <1>4 DEF ServerCreated, requestVars, callerVars
  <2>3. QED
    BY <1>1, <2>1, <2>2 DEF JobType
<1>5. ASSUME NEW r \in outstanding, NEW s \in Result, IoCompletion(r, s) PROVE JobType'
  BY <1>1, <1>5, AnsweredStep DEF JobType, callerVars
<1>6. ASSUME NEW c \in Caller, NEW m \in Method, handle_connection(c, m),
             requests' \in 0..MaxRequests
      PROVE  JobType'
  <2>1. /\ job' \in [Caller -> Job] /\ thread' = [thread EXCEPT ![c] = "serve"]
        /\ thread[c] = "accept" /\ rdpPath' \in {rdpPath, c} /\ UNCHANGED pc
    BY <1>6, ConnectionStep DEF requestVars, callerVars
  <2>2. QED
    BY <1>1, <1>6, <2>1 DEF JobType
<1>7. ASSUME NEW m \in {"OPTIONS", "PROPFIND"}, MountAsks(m) PROVE JobType'
  <2>1. slot \in Caller /\ m \in Method /\ handle_connection(slot, m) /\ UNCHANGED requests
    BY <1>7, SlotUsed DEF MountAsks, Method
  <2>2. QED
    BY <1>1, <1>6, <2>1
<1>8. ASSUME NEW c \in Caller, NEW m \in Method, Connect(c, m) PROVE JobType'
  <2>1. requests' \in 0..MaxRequests /\ handle_connection(c, m)
    BY <1>1, <1>8, DriveAssumption DEF Connect
  <2>2. QED
    BY <1>6, <2>1
<1>9. ASSUME NEW c \in Caller, ThreadStep(c) PROVE JobType'
  <2>1. CASE Call(c)
    <3>1. /\ thread' = [thread EXCEPT ![c] = "calling"]
          /\ pc' = pc \/ pc' = [pc EXCEPT ![c] = "send"]
          /\ UNCHANGED <<job, rdpPath, requests>>
      BY <2>1 DEF Call, irp_waiter_alloc, AllocFails
    <3>2. QED
      BY <1>1, <3>1 DEF JobType
  <2>2. CASE SendRequest(c) \/ Wait(c)
    <3>1. /\ pc[c] # "ready" /\ UNCHANGED <<thread, job, rdpPath, requests>>
          /\ \A d \in Caller : d # c => pc'[d] = pc[d]
      BY <2>2 DEF SendRequest, Wait, Send, TableFull, WriteFails, Waiting, Refused, CheckDone, Woken,
         TimedOut, ReadResult, jobVars
    <3>2. QED
      BY <1>1, <3>1 DEF JobType
  <2>3. CASE Continue(c)
    <3>1. \E j \in Job : job' = [job EXCEPT ![c] = j]
      BY <2>3, ContinueStep
    <3>2. /\ thread' = [thread EXCEPT ![c] = "serve"] /\ pc[c] = "ready"
          /\ UNCHANGED <<rdpPath, requests, pc>>
      BY <2>3 DEF Continue, requestVars, callerVars
    <3>3. job' \in [Caller -> Job]
      BY <1>1, <3>1
    <3>4. QED
      BY <1>1, <3>2, <3>3 DEF JobType
  <2>4. CASE Respond(c)
    <3>1. /\ thread' = [thread EXCEPT ![c] = "accept"] /\ job' = [job EXCEPT ![c] = NoJob]
          /\ thread[c] = "serve" /\ UNCHANGED <<rdpPath, requests, pc>>
      BY <2>4 DEF Respond, requestVars, callerVars
    <3>2. QED
      BY <1>1, <3>1, NoJobIsJob DEF JobType
  <2>5. QED
    BY <1>9, <2>1, <2>2, <2>3, <2>4 DEF ThreadStep
<1>10. ASSUME NEW c \in Caller, LeaveAcceptLoop(c) PROVE JobType'
  <2>1. /\ thread' = [thread EXCEPT ![c] = "exited"] /\ thread[c] = "accept"
        /\ UNCHANGED <<job, rdpPath, requests, pc>>
    BY <1>10 DEF LeaveAcceptLoop, requestVars, callerVars
  <2>2. QED
    BY <1>1, <2>1 DEF JobType
<1>11. CASE UNCHANGED driveVars
  BY <1>2, <1>11 DEF driveVars, jobVars, requestVars, callerVars
<1>12. QED
  BY <1>3, <1>4, <1>5, <1>7, <1>8, <1>9, <1>10, <1>11, JobStep

-----------------------------------------------------------------------------
(* Threads and servers.                                                    *)
LEMMA PlaceStep ==
  ASSUME LoopType, JobType, PlaceInv, [DriveNext]_driveVars
  PROVE  PlaceInv'
<1> DEFINE LoopPart == /\ loop \in {"create", "mount", "destroy", "join"} => slot < MaxDevices
                       /\ loop \in {"create", "mount", "probe"} => devices # <<>>
           JobPart == \A c \in Caller : thread[c] = "calling" => job[c].op # "end"
<1>1. LoopPart /\ JobPart
  BY DEF PlaceInv
<1>2. LoopPart'
  <2>1. CASE UNCHANGED loopVars
    BY <1>1, <2>1 DEF loopVars
  <2>2. CASE ServerCreated \/ ServerFails \/ (\E ok \in BOOLEAN : MountEnds(ok))
    BY <1>1, <2>2 DEF ServerCreated, ServerFails, MountEnds
  <2>3. ASSUME NEW list \in DeviceLists, DeviceListAnnounce(list) PROVE LoopPart'
    <3>1. list # <<>>
      BY DriveAssumption
    <3>2. QED
      BY <2>3, <3>1 DEF DeviceListAnnounce, ForDrive
  <2>4. CASE ProbeDrive
    BY <2>4 DEF ProbeDrive, ForDrive
  <2>5. CASE Unmount \/ StopServer \/ JoinThread \/ NoServer \/ ContextFreed \/ PeerLoopEnds
    BY <1>1, <2>5 DEF Unmount, StopServer, JoinThread, NoServer, ContextFreed, PeerLoopEnds
  <2>6. CASE ClientName
    BY <1>1, <2>6 DEF ClientName
  <2>7. CASE CallbackEnds \/ UNCHANGED driveVars
    BY <2>1, <2>7 DEF CallbackEnds, driveVars
  <2>8. CASE LoopOnly
    BY <2>2, <2>3, <2>4, <2>5, <2>6, <2>7, <2>8 DEF LoopOnly
  <2>9. CASE \/ \E r \in outstanding, s \in Result : IoCompletion(r, s)
             \/ \E m \in {"OPTIONS", "PROPFIND"} : MountAsks(m)
             \/ \E c \in Caller : \/ ThreadStep(c) \/ LeaveAcceptLoop(c)
                                  \/ \E m \in Method : Connect(c, m)
    BY <2>1, <2>9 DEF IoCompletion, MountAsks, handle_connection, ThreadStep, Call, SendRequest, Wait,
       Continue, Respond, LeaveAcceptLoop, Connect
  <2>10. QED
    BY <2>2, <2>7, <2>8, <2>9, JobStep
<1>3. JobPart'
  <2>1. CASE UNCHANGED <<thread, job>>
    BY <1>1, <2>1
  <2>2. CASE LoopOnly \/ UNCHANGED driveVars
    BY <2>1, <2>2, LoopOnlyKeepsJobs DEF driveVars, jobVars
  <2>3. CASE ServerCreated
    BY <1>1, <2>3 DEF ServerCreated, JobType
  <2>4. ASSUME NEW r \in outstanding, NEW s \in Result, IoCompletion(r, s) PROVE JobPart'
    BY <1>1, <2>4, AnsweredStep
  <2>5. ASSUME NEW c \in Caller, NEW m \in Method, handle_connection(c, m) PROVE JobPart'
    <3>1. thread' = [thread EXCEPT ![c] = "serve"] /\ \A d \in Caller : d # c => job'[d] = job[d]
      BY <2>5, ConnectionStep
    <3>2. QED
      BY <1>1, <3>1 DEF JobType
  <2>6. ASSUME NEW m \in {"OPTIONS", "PROPFIND"}, MountAsks(m) PROVE JobPart'
    BY <2>5, <2>6, SlotUsed DEF MountAsks, Method
  <2>7. ASSUME NEW c \in Caller, NEW m \in Method, Connect(c, m) PROVE JobPart'
    BY <2>5, <2>7 DEF Connect
  <2>8. ASSUME NEW c \in Caller, ThreadStep(c) \/ LeaveAcceptLoop(c) PROVE JobPart'
    <3>1. CASE Call(c)
      BY <1>1, <3>1 DEF Call, JobType
    <3>2. CASE SendRequest(c) \/ Wait(c)
      BY <2>1, <3>2 DEF SendRequest, Wait, jobVars
    <3>3. CASE Continue(c)
      <4>1. \E j \in Job : job' = [job EXCEPT ![c] = j]
        BY <3>3, ContinueStep
      <4>2. thread' = [thread EXCEPT ![c] = "serve"]
        BY <3>3 DEF Continue
      <4>3. QED
        BY <1>1, <4>1, <4>2 DEF JobType
    <3>4. CASE Respond(c)
      BY <1>1, <3>4 DEF Respond, JobType
    <3>5. CASE LeaveAcceptLoop(c)
      BY <1>1, <3>5 DEF LeaveAcceptLoop, JobType
    <3>6. QED
      BY <2>8, <3>1, <3>2, <3>3, <3>4, <3>5 DEF ThreadStep
  <2>9. QED
    BY <2>2, <2>3, <2>4, <2>6, <2>7, <2>8, JobStep
<1>4. QED
  BY <1>2, <1>3 DEF PlaceInv

LEMMA ServerStep ==
  ASSUME LoopType, JobType, PlaceInv, ServerInv, [DriveNext]_driveVars
  PROVE  ServerInv'
<1> DEFINE Served == \A c \in Caller : thread[c] \notin {"none", "exited"} => server[c] # None
           Cleared == /\ loop = "freed" => \A c \in Caller : server[c] = None
                      /\ loop \in {"unmount", "destroy", "join"} =>
                           \A c \in Caller : c < slot => server[c] = None
<1>1. Served /\ Cleared
  BY DEF ServerInv, ThreadsHaveServer
<1>2. Served'
  <2>1. CASE UNCHANGED <<server, thread>>
    BY <1>1, <2>1
  <2>2. CASE ServerCreated
    <3>1. slot \in Caller /\ Head(devices) # None
      BY <2>2, SlotUsed, HeadIsDrive, DriveAssumption DEF ServerCreated, PlaceInv, LoopType
    <3>2. QED
      BY <1>1, <2>2, <3>1 DEF ServerCreated, LoopType, JobType
  <2>3. CASE JoinThread
    <3>1. slot \in Caller
      BY <2>3, SlotUsed DEF JoinThread
    <3>2. QED
      BY <1>1, <2>3, <3>1 DEF JoinThread, LoopType, jobVars
  <2>4. CASE LoopOnly /\ ~JoinThread
    <3>1. UNCHANGED server
      BY <2>4 DEF LoopOnly, ClientName, DeviceListAnnounce, ServerFails, MountEnds, ProbeDrive,
         CallbackEnds, PeerLoopEnds, Unmount, StopServer, NoServer, ContextFreed, loopVars
    <3>2. QED
      BY <2>1, <2>4, <3>1, LoopOnlyKeepsJobs DEF jobVars
  <2>5. ASSUME NEW r \in outstanding, NEW s \in Result, IoCompletion(r, s) PROVE Served'
    BY <2>1, <2>5 DEF IoCompletion, loopVars
  <2>6. ASSUME NEW m \in {"OPTIONS", "PROPFIND"}, MountAsks(m) PROVE Served'
    BY <1>1, <2>6, SlotUsed DEF MountAsks, handle_connection, loopVars, JobType
  <2>7. ASSUME NEW c \in Caller, \/ ThreadStep(c) \/ LeaveAcceptLoop(c)
                                 \/ \E m \in Method : Connect(c, m)
        PROVE  Served'
    <3>1. UNCHANGED server
      BY <2>7 DEF ThreadStep, Call, SendRequest, Wait, Continue, Respond, LeaveAcceptLoop, Connect,
         handle_connection, loopVars
    <3>2. \/ UNCHANGED thread
          \/ /\ thread[c] \notin {"none", "exited"} \/ pc[c] # "ready"
             /\ \E place \in {"accept", "serve", "calling", "exited"} :
                  thread' = [thread EXCEPT ![c] = place]
      BY <2>7 DEF ThreadStep, Call, SendRequest, Wait, Continue, Respond, LeaveAcceptLoop, Connect,
         handle_connection, jobVars
    <3>3. QED
      BY <1>1, <3>1, <3>2 DEF JobType
  <2>8. CASE UNCHANGED driveVars
    BY <2>1, <2>8 DEF driveVars, loopVars, jobVars
  <2>9. QED
    BY <2>2, <2>3, <2>4, <2>5, <2>6, <2>7, <2>8, JobStep
<1>3. Cleared'
  <2>1. CASE UNCHANGED loopVars
    BY <1>1, <2>1 DEF loopVars
  <2>2. CASE \/ ClientName \/ (\E list \in DeviceLists : DeviceListAnnounce(list))
             \/ ServerFails \/ (\E ok \in BOOLEAN : MountEnds(ok)) \/ ProbeDrive \/ ServerCreated
    BY <1>1, <2>2 DEF ClientName, Pumping, DeviceListAnnounce, ForDrive, ServerFails, MountEnds, ProbeDrive,
       ServerCreated
  <2>3. CASE PeerLoopEnds
    BY <2>3, SlotNumbers DEF PeerLoopEnds
  <2>4. CASE Unmount \/ StopServer
    BY <1>1, <2>4 DEF Unmount, StopServer
  <2>5. CASE JoinThread
    <3>1. slot \in Nat /\ server' = [server EXCEPT ![slot] = None] /\ slot' = slot + 1
          /\ loop' = "unmount" /\ loop = "join"
      BY <2>5, SlotNumbers DEF JoinThread, LoopType
    <3>2. \A c \in Caller : c < slot + 1 => c < slot \/ c = slot
      BY <3>1, SlotNumbers
    <3>3. QED
      BY <1>1, <3>1, <3>2 DEF LoopType
  <2>6. CASE NoServer
    <3>1. slot \in Nat /\ server[slot] = None /\ slot' = slot + 1
          /\ UNCHANGED <<server, loop>> /\ loop = "unmount"
      BY <2>6, SlotNumbers DEF NoServer, LoopType
    <3>2. \A c \in Caller : c < slot + 1 => c < slot \/ c = slot
      BY <3>1, SlotNumbers
    <3>3. QED
      BY <1>1, <3>1, <3>2
  <2>7. CASE ContextFreed
    BY <1>1, <2>7, SlotNumbers DEF ContextFreed
  <2>8. CASE CallbackEnds \/ UNCHANGED driveVars
    BY <2>1, <2>8 DEF CallbackEnds, driveVars
  <2>9. CASE \/ \E r \in outstanding, s \in Result : IoCompletion(r, s)
             \/ \E m \in {"OPTIONS", "PROPFIND"} : MountAsks(m)
             \/ \E c \in Caller : \/ ThreadStep(c) \/ LeaveAcceptLoop(c)
                                  \/ \E m \in Method : Connect(c, m)
    BY <2>1, <2>9 DEF IoCompletion, MountAsks, handle_connection, ThreadStep, Call, SendRequest, Wait,
       Continue, Respond, LeaveAcceptLoop, Connect
  <2>10. QED
    BY <2>2, <2>3, <2>4, <2>5, <2>6, <2>7, <2>8, <2>9, JobStep DEF LoopOnly
<1>4. QED
  BY <1>2, <1>3 DEF ServerInv, ThreadsHaveServer

-----------------------------------------------------------------------------
(* Every step is a step of the pending table, or leaves it alone.          *)
LEMMA RequestStep ==
  ASSUME TypeOK, JobType, PlaceInv, [DriveNext]_driveVars
  PROVE  [Next]_requestVars
<1>1. CASE LoopOnly
  <2>1. CASE ProbeDrive \/ CallbackEnds \/ PeerLoopEnds
    BY <2>1 DEF ProbeDrive, CallbackEnds, PeerLoopEnds, Next, LoopStep
  <2>2. CASE ~(ProbeDrive \/ CallbackEnds \/ PeerLoopEnds)
    BY <1>1, <2>2 DEF LoopOnly, ClientName, DeviceListAnnounce, ServerFails, MountEnds, Unmount,
       StopServer, JoinThread, NoServer, ContextFreed
  <2>3. QED
    BY <2>1, <2>2
<1>2. CASE ServerCreated
  BY <1>2 DEF ServerCreated
<1>3. ASSUME NEW r \in outstanding, NEW s \in Result, IoCompletion(r, s) PROVE [Next]_requestVars
  BY <1>3 DEF IoCompletion, Next, LoopStep
<1>4. CASE \E m \in {"OPTIONS", "PROPFIND"} : MountAsks(m)
  BY <1>4 DEF MountAsks, handle_connection
<1>5. ASSUME NEW c \in Caller, \/ ThreadStep(c) \/ LeaveAcceptLoop(c)
                               \/ \E m \in Method : Connect(c, m)
      PROVE  [Next]_requestVars
  <2>1. CASE SendRequest(c)
    <3>1. CASE TableFull(c) \/ WriteFails(c)
      BY <3>1 DEF Next, UnderLock
    <3>2. CASE Send(c, job[c].op)
      <4>1. thread[c] = "calling" /\ job[c] \in Job
        BY <3>2 DEF Send, JobType
      <4>2. job[c].op \in Operation
        BY <4>1 DEF PlaceInv, Job
      <4>3. QED
        BY <3>2, <4>2 DEF Next, UnderLock
    <3>3. QED
      BY <2>1, <3>1, <3>2 DEF SendRequest
  <2>2. CASE Call(c) \/ Wait(c)
    BY <2>2 DEF Call, Wait, Next
  <2>3. CASE Continue(c) \/ Respond(c) \/ LeaveAcceptLoop(c) \/ (\E m \in Method : Connect(c, m))
    BY <2>3 DEF Continue, Respond, LeaveAcceptLoop, Connect, handle_connection
  <2>4. QED
    BY <1>5, <2>1, <2>2, <2>3 DEF ThreadStep
<1>6. CASE UNCHANGED driveVars
  BY <1>6 DEF driveVars
<1>7. QED
  BY <1>1, <1>2, <1>3, <1>4, <1>5, <1>6, JobStep

-----------------------------------------------------------------------------
(* Files, caller by caller.                                                *)
AnswersDone == \A w \in Waiter : heap[w].answer # None => heap[w].done

CallerFile(c) ==
  /\ \A r \in outstanding : waiter[c] # None /\ waiter[c] = r.waiter => r.op = job[c].op
  /\ waiter[c] # None /\ heap[waiter[c]].answer # None
       => Agrees(c, heap[waiter[c]].answer.result)
  /\ thread[c] = "calling" /\ pc[c] = "ready" /\ outcome[c] # None => Agrees(c, outcome[c])
  /\ thread[c] = "serve" /\ job[c].op = "end" /\ ~job[c].failed => ~job[c].file

LEMMA FileParts ==
  /\ FileInv <=> (~reused => AnswersDone /\ \A c \in Caller : CallerFile(c))
  /\ FileInv' <=> (~reused' => AnswersDone' /\ \A c \in Caller : CallerFile(c)')
BY DEF FileInv, FilesClosed, AnswersDone, CallerFile

(* A caller whose handler and call are as they were, and whose waiter has  *)
(* got neither an answer nor a request.                                    *)
LEMMA FileKept ==
  ASSUME NEW c \in Caller, CallerFile(c),
         /\ job'[c].op = job[c].op
         /\ job'[c].failed = job[c].failed
         /\ job'[c].file = job[c].file,
         thread'[c] \in {thread[c], "accept"},
         pc'[c] = pc[c] \/ "ready" \notin {pc[c], pc'[c]},
         waiter'[c] = waiter[c], outcome'[c] = outcome[c],
         waiter[c] # None =>
           /\ \A r \in outstanding' : r.waiter = waiter[c] => r \in outstanding
           /\ heap'[waiter[c]].answer \in {None, heap[waiter[c]].answer}
  PROVE  CallerFile(c)'
<1>1. \A s : Agrees(c, s) <=> /\ job'[c].op \in Creates => (job'[c].file <=> s.status = "success")
                              /\ job'[c].op = "close" => ~job'[c].file
  BY DEF Agrees
<1>2. waiter[c] # None /\ heap'[waiter[c]].answer # None
        => Agrees(c, heap'[waiter[c]].answer.result)
  BY DEF CallerFile
<1>3. thread'[c] = "calling" /\ pc'[c] = "ready" /\ outcome[c] # None => Agrees(c, outcome[c])
  BY DEF CallerFile
<1>4. \A r \in outstanding' : waiter[c] # None /\ waiter[c] = r.waiter => r.op = job[c].op
  BY DEF CallerFile
<1>5. thread'[c] = "serve" /\ job[c].op = "end" /\ ~job[c].failed => ~job[c].file
  BY DEF CallerFile
<1>6. QED
  BY <1>1, <1>2, <1>3, <1>4, <1>5 DEF CallerFile, Agrees

(* A caller that is not inside a call, and has nothing to learn from one.  *)
LEMMA FileReady ==
  ASSUME NEW c \in Caller, waiter'[c] = None,
         thread'[c] = "calling" => outcome'[c] = None,
         thread'[c] = "serve" /\ job'[c].op = "end" /\ ~job'[c].failed => ~job'[c].file
  PROVE  CallerFile(c)'
BY DEF CallerFile

(* Dropping a reference leaves the answer or frees it.                     *)
LEMMA UnrefAnswers ==
  ASSUME NEW memory \in [Waiter -> Cell], NEW w \in Waiter
  PROVE  /\ Unref(memory, w) \in [Waiter -> Cell]
         /\ \A v \in Waiter : v # w => Unref(memory, w)[v] = memory[v]
         /\ Unref(memory, w)[w].answer # None =>
              /\ Unref(memory, w)[w].answer = memory[w].answer
              /\ Unref(memory, w)[w].done = memory[w].done
<1> DEFINE cell == memory[w]
<1>1. Dropped(cell).answer # None =>
        Dropped(cell).answer = cell.answer /\ Dropped(cell).done = cell.done
  BY DEF Dropped, Garbage
<1>2. Unref(memory, w)[w] = Dropped(cell)
  BY DEF Unref
<1>3. QED
  BY <1>1, <1>2, UnrefFacts

(* The steps of the peer loop.                                             *)
LEMMA FileLoopStep ==
  ASSUME TypeOK, Inv, ~reused', LoopOnly, AnswersDone, \A c \in Caller : CallerFile(c)
  PROVE  AnswersDone' /\ \A c \in Caller : CallerFile(c)'
<1>1. UNCHANGED <<thread, job, pc, waiter, outcome>>
  BY LoopOnlyKeepsJobs DEF jobVars, callerVars
<1>2. ASSUME \A r \in outstanding' : r \in outstanding \/ r.waiter = None,
             \A w \in Waiter : heap'[w].answer # None =>
               heap'[w].answer = heap[w].answer /\ heap'[w].done = heap[w].done
      PROVE  AnswersDone' /\ \A c \in Caller : CallerFile(c)'
  <2>1. AnswersDone'
    BY <1>2 DEF AnswersDone
  <2>2. ASSUME NEW c \in Caller PROVE CallerFile(c)'
    <3>1. waiter[c] # None =>
            /\ \A r \in outstanding' : r.waiter = waiter[c] => r \in outstanding
            /\ heap'[waiter[c]].answer \in {None, heap[waiter[c]].answer}
      BY <1>2 DEF TypeOK
    <3>2. QED
      BY <1>1, <3>1, FileKept
  <2>3. QED
    BY <2>1, <2>2
<1>3. CASE UNCHANGED <<outstanding, heap>>
  BY <1>2, <1>3
<1>4. CASE CallbackEnds
  <2>1. heap \in [Waiter -> Cell] /\ callback \in Waiter
    BY <1>4 DEF TypeOK, CallbackEnds, CallbackUnref
  <2>2. heap' = Unref(heap, callback) /\ UNCHANGED outstanding
    BY <1>4 DEF CallbackEnds, CallbackUnref
  <2>3. QED
    BY <1>2, <2>1, <2>2, UnrefAnswers
<1>5. CASE ProbeDrive /\ ProbeFails
  <2>1. heap' = heap
    BY <1>5, RegisterAndFreeUndoes DEF ProbeFails, IssueId, Inv
  <2>2. QED
    BY <1>3, <1>5, <2>1 DEF ProbeFails
<1>6. CASE ProbeDrive /\ ProbeCapacity
  BY <1>2, <1>6 DEF ProbeCapacity
<1>7. CASE ProbeDrive /\ UNCHANGED requestVars
  BY <1>3, <1>7 DEF requestVars, tableVars
<1>8. CASE PeerLoopEnds
  BY <1>3, <1>8 DEF PeerLoopEnds, LoopEnds
<1>9. CASE ~(ProbeDrive \/ CallbackEnds \/ PeerLoopEnds)
  BY <1>3, <1>9 DEF LoopOnly, ClientName, DeviceListAnnounce, ServerFails, MountEnds, Unmount,
     StopServer, JoinThread, NoServer, ContextFreed, requestVars, tableVars
<1>10. QED
  BY <1>4, <1>5, <1>6, <1>7, <1>8, <1>9 DEF ProbeDrive

(* An answer goes to the call that waits for it, and says what the client  *)
(* has done about the file.                                                *)
LEMMA FileAnswered ==
  ASSUME TypeOK, Inv, ~reused, JobType, AnswersDone, \A c \in Caller : CallerFile(c),
         NEW r \in outstanding, NEW s \in Result, IoCompletion(r, s)
  PROVE  AnswersDone' /\ \A c \in Caller : CallerFile(c)'
<1> DEFINE a == [request |-> r, result |-> s]
           opened == r.op # "close" /\ s.status = "success"
<1>1. PICK i \in FirstWith(pending, r.id) :
        heap' = Fire(heap, pending[i].waiter, [request |-> r, result |-> s])
  BY DEF IoCompletion, Completion
<1>2. i \in Slot /\ pending[i].id = r.id /\ r \in Request
  BY DEF FirstWith, TypeOK
<1>3. pending[i].waiter = r.waiter
  <2>1. PICK j \in Slot : pending[j].id = r.id /\ pending[j].waiter = r.waiter
    BY DEF Inv, SlotsMatchRequests
  <2>2. r.id # 0
    BY <1>2 DEF Request
  <2>3. QED
    BY <1>2, <2>1, <2>2 DEF Inv, OwnershipInv
<1>4. /\ r.waiter # None => r.waiter \in Waiter
      /\ r.waiter = None => r.op = "capacity"
  BY <1>2, TableAssumption DEF Request
<1>5. heap \in [Waiter -> Cell] /\ a \in Answer \cup {None}
  BY <1>2 DEF TypeOK, Answer
<1>6. r.waiter # None => heap[r.waiter].answer = None
  <2>1. r.waiter # None => TableHas(r.waiter) /\ ~heap[r.waiter].done
    BY <1>2, <1>3, <1>4 DEF TableHas, Inv, HandOverInv
  <2>2. QED
    BY <1>4, <2>1 DEF AnswersDone
<1>7. /\ \A w \in Waiter : w # r.waiter => heap'[w] = heap[w]
      /\ r.waiter # None => heap'[r.waiter].answer = a /\ heap'[r.waiter].done
  <2>1. CASE r.waiter = None
    BY <1>1, <1>3, <2>1 DEF Fire
  <2>2. CASE r.waiter # None
    <3>1. heap' = Fire(heap, r.waiter, a) /\ r.waiter \in Waiter
      BY <1>1, <1>3, <1>4, <2>2
    <3> HIDE DEF a
    <3>2. QED
      BY <1>5, <1>6, <2>2, <3>1, FireFacts
  <2>3. QED
    BY <2>1, <2>2
<1>8. AnswersDone'
  BY <1>7, TableAssumption DEF AnswersDone
<1>9. /\ UNCHANGED <<thread, pc, waiter, outcome>>
      /\ \A c \in Caller : job'[c].op = job[c].op /\ job'[c].failed = job[c].failed
      /\ \A c \in Caller :
           job'[c].file = IF /\ r.op \in Creates \cup {"close"}
                             /\ waiter[r.caller] = r.waiter /\ r.caller = c
                          THEN opened ELSE job[c].file
  <2>1. UNCHANGED <<thread, pc, waiter, outcome>>
    BY AnsweredStep DEF callerVars
  <2>2. QED
    BY <2>1, AnsweredStep
<1>10. outstanding' \subseteq outstanding
  BY DEF IoCompletion, Completion
<1>11. ASSUME NEW c \in Caller PROVE CallerFile(c)'
  <2>1. CASE waiter[c] # r.waiter \/ waiter[c] = None
    <3>1. job'[c].file = job[c].file
      <4>1. r.op \in Creates \cup {"close"} => r.waiter # None
        BY <1>4 DEF Creates
      <4>2. QED
        BY <1>9, <2>1, <4>1
    <3>2. waiter[c] # None =>
            /\ \A q \in outstanding' : q.waiter = waiter[c] => q \in outstanding
            /\ heap'[waiter[c]].answer \in {None, heap[waiter[c]].answer}
      BY <1>7, <1>10, <2>1 DEF TypeOK
    <3>3. QED
      BY <1>9, <3>1, <3>2, FileKept
  <2>2. CASE waiter[c] = r.waiter /\ waiter[c] # None
    <3>1. r.caller = c /\ r.op = job[c].op
      BY <2>2 DEF Inv, AnswerInv, CallerFile
    <3>2. pc[c] # "ready" /\ thread[c] = "calling"
      BY <2>2 DEF TypeOK, JobType
    <3>3. \A q \in outstanding' : waiter[c] = q.waiter => q.op = job'[c].op
      BY <1>9, <1>10, <2>2 DEF CallerFile
    <3>4. /\ job'[c].op \in Creates => (job'[c].file <=> s.status = "success")
          /\ job'[c].op = "close" => ~job'[c].file
      BY <1>9, <2>2, <3>1 DEF Creates
    <3>5. heap'[waiter'[c]].answer.result = s
      BY <1>7, <1>9, <2>2
    <3>6. QED
      BY <1>9, <2>2, <3>2, <3>3, <3>4, <3>5 DEF CallerFile, Agrees
  <2>3. QED
    BY <2>1, <2>2
<1>12. QED
  BY <1>8, <1>11

(* The steps of a thread inside a call. *)
LEMMA FileCallStep ==
  ASSUME TypeOK, Inv, ~reused', JobType, AnswersDone, \A d \in Caller : CallerFile(d),
         NEW c \in Caller, SendRequest(c) \/ Wait(c)
  PROVE  AnswersDone' /\ \A d \in Caller : CallerFile(d)'
<1> DEFINE w == waiter[c]
<1>1. /\ pc[c] # "ready" /\ thread[c] = "calling" /\ outcome[c] = None
      /\ UNCHANGED <<thread, job>>
  <2>1. pc[c] # "ready"
    BY DEF SendRequest, Send, TableFull, WriteFails, Wait, Waiting, Refused, CheckDone, Woken, TimedOut,
       ReadResult
  <2>2. QED
    BY <2>1 DEF SendRequest, Wait, jobVars, JobType, TypeOK
<1>2. w \in Waiter /\ \A d \in Caller : d # c => waiter[d] # w
  BY <1>1, CallerFacts
<1>3. heap \in [Waiter -> Cell]
  BY DEF TypeOK
<1>4. \A d \in Caller : d # c => /\ pc'[d] = pc[d] /\ waiter'[d] = waiter[d]
                                 /\ outcome'[d] = outcome[d]
  BY DEF SendRequest, Send, TableFull, WriteFails, Wait, Waiting, Refused, CheckDone, Woken, TimedOut,
     ReadResult, TypeOK
<1>5. /\ \A v \in Waiter : v # w => heap'[v] = heap[v]
      /\ heap'[w].answer # None => heap'[w].answer = heap[w].answer /\ heap'[w].done
  <2>1. CASE UNCHANGED heap
    BY <1>2, <2>1 DEF AnswersDone
  <2>2. CASE heap' = Unref(heap, w)
    BY <1>2, <1>3, <2>2, UnrefAnswers DEF AnswersDone
  <2>3. CASE heap' = Unref(Unref(heap, w), w)
    <3>1. Unref(heap, w) \in [Waiter -> Cell]
      BY <1>2, <1>3, UnrefAnswers
    <3>2. \A v \in Waiter : v # w => heap'[v] = heap[v]
      BY <1>2, <1>3, <2>3, <3>1, UnrefAnswers
    <3>3. heap'[w].answer # None =>
            /\ heap'[w].answer = Unref(heap, w)[w].answer
            /\ heap'[w].done = Unref(heap, w)[w].done
      BY <1>2, <2>3, <3>1, UnrefAnswers
    <3>4. QED
      BY <1>2, <1>3, <3>2, <3>3, UnrefAnswers DEF AnswersDone
  <2>4. CASE WriteFails(c)
    <3>1. heap' = Unref(Fire(heap, w, None), w)
      BY <1>2, <2>4, RegisterAndFreeUndoes, TableAssumption DEF WriteFails, IssueId, Inv
    <3>2. /\ Fire(heap, w, None) \in [Waiter -> Cell]
          /\ \A v \in Waiter : v # w => Fire(heap, w, None)[v] = heap[v]
          /\ Fire(heap, w, None)[w].done = TRUE
          /\ Fire(heap, w, None)[w].answer = heap[w].answer
      <4> HIDE DEF w
      <4>1. None \in Answer \cup {None}
        OBVIOUS
      <4>2. w \in Waiter
        BY <1>2
      <4>3. /\ Fire(heap, w, None) \in [Waiter -> Cell]
            /\ \A v \in Waiter : v # w => Fire(heap, w, None)[v] = heap[v]
            /\ Fire(heap, w, None)[w].refs = heap[w].refs
            /\ Fire(heap, w, None)[w].done = TRUE
            /\ Fire(heap, w, None)[w].answer = IF heap[w].answer = None THEN None ELSE heap[w].answer
        BY <1>3, <4>1, <4>2, FireFacts
      <4>4. QED
        BY <4>3
    <3>3. QED
      BY <1>2, <3>1, <3>2, UnrefAnswers
  <2>5. CASE SendRequest(c)
    BY <2>1, <2>4, <2>5 DEF SendRequest, Send, TableFull
  <2>6. CASE Wait(c)
    BY <2>1, <2>2, <2>3, <2>6 DEF Wait, Waiting, Refused, CheckDone, Woken, TimedOut, ReadResult
  <2>7. QED
    BY <2>5, <2>6
<1>6. AnswersDone'
  BY <1>5 DEF AnswersDone
<1>7. \A r \in outstanding' : r \in outstanding \/ (r.waiter = w /\ r.op = job[c].op)
  BY DEF SendRequest, Send, TableFull, WriteFails, Wait, Waiting, Refused, CheckDone, Woken, TimedOut,
     ReadResult, tableVars
<1>8. ASSUME NEW d \in Caller, d # c PROVE CallerFile(d)'
  <2>1. waiter[d] # None =>
          /\ \A r \in outstanding' : r.waiter = waiter[d] => r \in outstanding
          /\ heap'[waiter[d]].answer \in {None, heap[waiter[d]].answer}
    BY <1>2, <1>5, <1>7, <1>8 DEF TypeOK
  <2>2. QED
    BY <1>1, <1>4, <1>8, <2>1, FileKept
<1>9. CallerFile(c)'
  <2>1. CASE ReadResult(c)
    <3>1. /\ waiter'[c] = None /\ pc'[c] = "ready"
          /\ outcome'[c] # None =>
               heap[w].answer # None /\ outcome'[c] = heap[w].answer.result
      BY <2>1 DEF ReadResult, TypeOK
    <3>2. outcome'[c] # None => Agrees(c, outcome'[c])
      BY <1>2, <3>1, TableAssumption DEF CallerFile
    <3>3. QED
      BY <1>1, <3>1, <3>2 DEF CallerFile, Agrees
  <2>2. CASE Refused(c) \/ TimedOut(c)
    <3>1. waiter'[c] = None /\ outcome'[c] = None
      BY <1>1, <2>2 DEF Refused, TimedOut, TypeOK
    <3>2. QED
      BY <1>1, <3>1, FileReady
  <2>3. CASE SendRequest(c) \/ CheckDone(c) \/ Woken(c)
    <3>1. waiter'[c] = w /\ outcome'[c] = None /\ UNCHANGED <<thread, job>>
      BY <1>1, <2>3 DEF SendRequest, Send, TableFull, WriteFails, CheckDone, Woken
    <3>2. heap'[w].answer # None => Agrees(c, heap'[w].answer.result)
      BY <1>2, <1>5, TableAssumption DEF CallerFile
    <3>3. \A r \in outstanding' : w = r.waiter => r.op = job[c].op
      BY <1>2, <1>7, TableAssumption DEF CallerFile
    <3>4. QED
      BY <1>1, <3>1, <3>2, <3>3 DEF CallerFile, Agrees
  <2>4. QED
    BY <2>1, <2>2, <2>3 DEF Wait, Waiting
<1>10. QED
  BY <1>6, <1>8, <1>9

(* The steps of a thread outside a call. *)
LEMMA FileServeStep ==
  ASSUME TypeOK, Inv, ~reused, JobType, AnswersDone, \A d \in Caller : CallerFile(d),
         NEW c \in Caller,
         \/ Call(c) \/ Continue(c) \/ Respond(c) \/ LeaveAcceptLoop(c)
         \/ \E m \in Method : handle_connection(c, m)
  PROVE  AnswersDone' /\ \A d \in Caller : CallerFile(d)'
<1>1. pc[c] = "ready" /\ waiter[c] = None
  BY DEF Call, irp_waiter_alloc, AllocFails, Continue, Respond, LeaveAcceptLoop, handle_connection,
     JobType, TypeOK
<1>2. ASSUME UNCHANGED <<outstanding, heap, pc, waiter>>,
             \A d \in Caller : d # c => /\ job'[d] = job[d] /\ thread'[d] = thread[d]
                                        /\ outcome'[d] = outcome[d],
             thread'[c] = "calling" => outcome'[c] = None,
             thread'[c] = "serve" /\ job'[c].op = "end" /\ ~job'[c].failed => ~job'[c].file
      PROVE  AnswersDone' /\ \A d \in Caller : CallerFile(d)'
  <2>1. AnswersDone'
    BY <1>2 DEF AnswersDone
  <2>2. CallerFile(c)'
    BY <1>1, <1>2, FileReady
  <2>3. ASSUME NEW d \in Caller, d # c PROVE CallerFile(d)'
    BY <1>2, <2>3, FileKept
  <2>4. QED
    BY <2>1, <2>2, <2>3
<1>3. CASE Call(c) /\ AllocFails(c)
  <2>1. /\ thread' = [thread EXCEPT ![c] = "calling"] /\ outcome' = [outcome EXCEPT ![c] = None]
        /\ UNCHANGED <<job, outstanding, heap, pc, waiter>>
    BY <1>3 DEF Call, AllocFails, tableVars
  <2>2. QED
    BY <1>2, <2>1 DEF JobType, TypeOK
<1>4. CASE Call(c) /\ irp_waiter_alloc(c)
  <2>1. PICK w \in Waiter :
          /\ heap[w].refs <= 0
          /\ heap' = [heap EXCEPT ![w] = [refs |-> 2, done |-> FALSE, answer |-> None]]
          /\ waiter' = [waiter EXCEPT ![c] = w]
    BY <1>4 DEF irp_waiter_alloc
  <2>2. /\ thread' = [thread EXCEPT ![c] = "calling"] /\ outcome' = [outcome EXCEPT ![c] = None]
        /\ pc' = [pc EXCEPT ![c] = "send"] /\ UNCHANGED <<job, outstanding>>
    BY <1>4 DEF Call, irp_waiter_alloc, tableVars
  <2>3. ~CallerHas(w) /\ ~TableHas(w) /\ w # None
    BY <2>1, TableAssumption DEF Inv, CountInv, CallbackHas
  <2>4. /\ \A v \in Waiter : v # w => heap'[v] = heap[v]
        /\ heap'[w].answer = None
    BY <2>1 DEF TypeOK
  <2>5. \A r \in outstanding : r.waiter # w
    BY <2>3 DEF Inv, OwnershipInv, SlotsMatchRequests, TableHas
  <2>6. AnswersDone'
    BY <2>4 DEF AnswersDone
  <2>7. ASSUME NEW d \in Caller, d # c PROVE CallerFile(d)'
    <3>1. /\ job'[d] = job[d] /\ thread'[d] = thread[d] /\ pc'[d] = pc[d]
          /\ waiter'[d] = waiter[d] /\ outcome'[d] = outcome[d]
      BY <2>1, <2>2, <2>7 DEF TypeOK, JobType
    <3>2. waiter[d] # None =>
            /\ \A r \in outstanding' : r.waiter = waiter[d] => r \in outstanding
            /\ heap'[waiter[d]].answer \in {None, heap[waiter[d]].answer}
      BY <2>2, <2>4 DEF TypeOK
    <3>3. QED
      BY <3>1, <3>2, FileKept
  <2>8. CallerFile(c)'
    <3>1. waiter'[c] = w /\ pc'[c] = "send" /\ thread'[c] = "calling"
      BY <2>1, <2>2 DEF TypeOK, JobType
    <3>2. QED
      BY <2>2, <2>4, <2>5, <3>1 DEF CallerFile
  <2>9. QED
    BY <2>6, <2>7, <2>8
<1>5. CASE Continue(c)
  <2>1. PICK o \in Operation \cup {"end"} :
          /\ o \in NextOps(job[c].method, job[c].op, Succeeded(job[c].op, outcome[c]), job[c].left)
          /\ job' = [job EXCEPT ![c] = Told(job[c], o, outcome[c])]
    BY <1>5, ContinueStep
  <2>2. /\ thread' = [thread EXCEPT ![c] = "serve"] /\ thread[c] = "calling"
        /\ UNCHANGED <<outstanding, heap, pc, waiter, outcome>>
    BY <1>5 DEF Continue, requestVars, tableVars, callerVars
  <2>3. job'[c] = Told(job[c], o, outcome[c]) /\ \A d \in Caller : d # c => job'[d] = job[d]
    BY <2>1 DEF JobType
  <2>4. /\ job'[c].op = o /\ job'[c].file = job[c].file
        /\ job'[c].failed = (job[c].failed \/ Unknown(job[c].op, outcome[c]))
    BY <2>3 DEF Told
  <2>5. o = "end" => \/ job[c].op = "close"
                     \/ job[c].op \in Creates /\ ~Succeeded(job[c].op, outcome[c])
    <3> DEFINE ok == Succeeded(job[c].op, outcome[c])
    <3>1. ok \in BOOLEAN /\ o \in NextOps(job[c].method, job[c].op, ok, job[c].left)
      BY <2>1 DEF Succeeded
    <3> HIDE DEF ok
    <3>2. o = "end" => job[c].op = "close" \/ (job[c].op \in Creates /\ ~ok)
      BY <3>1, EndsAfter
    <3>3. QED
      BY <3>2 DEF ok
  <2>6. outcome[c] # None => Agrees(c, outcome[c])
    BY <1>1, <2>2 DEF CallerFile
  <2>7. job'[c].op = "end" /\ ~job'[c].failed => ~job'[c].file
    BY <2>4, <2>5, <2>6 DEF Agrees, Succeeded, Unknown
  <2>8. thread'[c] = "serve" /\ \A d \in Caller : d # c => thread'[d] = thread[d]
    BY <2>2 DEF JobType
  <2>9. QED
    BY <1>2, <2>2, <2>3, <2>7, <2>8
<1>6. CASE Respond(c)
  <2>1. /\ thread' = [thread EXCEPT ![c] = "accept"] /\ job' = [job EXCEPT ![c] = NoJob]
        /\ UNCHANGED <<outstanding, heap, pc, waiter, outcome>>
    BY <1>6 DEF Respond, requestVars, tableVars, callerVars
  <2>2. QED
    BY <1>2, <2>1 DEF JobType
<1>7. CASE LeaveAcceptLoop(c)
  <2>1. /\ thread' = [thread EXCEPT ![c] = "exited"]
        /\ UNCHANGED <<job, outstanding, heap, pc, waiter, outcome>>
    BY <1>7 DEF LeaveAcceptLoop, requestVars, tableVars, callerVars
  <2>2. QED
    BY <1>2, <2>1 DEF JobType
<1>8. ASSUME NEW m \in Method, handle_connection(c, m)
      PROVE  AnswersDone' /\ \A d \in Caller : CallerFile(d)'
  <2>1. /\ thread' = [thread EXCEPT ![c] = "serve"] /\ job'[c].file = FALSE
        /\ \A d \in Caller : d # c => job'[d] = job[d]
        /\ UNCHANGED <<outstanding, heap, pc, waiter, outcome>>
    BY <1>8, ConnectionStep DEF requestVars, tableVars, callerVars
  <2>2. QED
    BY <1>2, <2>1 DEF JobType
<1>9. QED
  BY <1>3, <1>4, <1>5, <1>6, <1>7, <1>8 DEF Call

LEMMA FileStep ==
  ASSUME TypeOK, RequestInv, LoopType, JobType, PlaceInv, ServerInv, FileInv, [DriveNext]_driveVars
  PROVE  FileInv'
<1>1. reused => reused'
  BY RequestStep, ReusedStays
<1>2. SUFFICES ASSUME ~reused' PROVE AnswersDone' /\ \A c \in Caller : CallerFile(c)'
  BY FileParts
<1>3. ~reused /\ Inv /\ AnswersDone /\ \A c \in Caller : CallerFile(c)
  BY <1>1, <1>2, FileParts DEF RequestInv, Inv
<1>4. CASE LoopOnly
  BY <1>2, <1>3, <1>4, FileLoopStep
<1>5. CASE ServerCreated
  <2>1. /\ thread' = [thread EXCEPT ![slot] = "accept"]
        /\ UNCHANGED <<job, outstanding, heap, pc, waiter, outcome>>
    BY <1>5 DEF ServerCreated, requestVars, tableVars, callerVars
  <2>2. AnswersDone'
    BY <1>3, <2>1 DEF AnswersDone
  <2>3. ASSUME NEW c \in Caller PROVE CallerFile(c)'
    <3>1. thread'[c] \in {thread[c], "accept"}
      BY <2>1 DEF JobType
    <3>2. QED
      BY <1>3, <2>1, <3>1, FileKept
  <2>4. QED
    BY <2>2, <2>3
<1>6. ASSUME NEW r \in outstanding, NEW s \in Result, IoCompletion(r, s)
      PROVE  AnswersDone' /\ \A c \in Caller : CallerFile(c)'
  BY <1>3, <1>6, FileAnswered
<1>7. ASSUME NEW m \in {"OPTIONS", "PROPFIND"}, MountAsks(m)
      PROVE  AnswersDone' /\ \A c \in Caller : CallerFile(c)'
  <2>1. slot \in Caller /\ m \in Method /\ handle_connection(slot, m)
    BY <1>7, SlotUsed DEF MountAsks, Method
  <2>2. QED
    BY <1>2, <1>3, <2>1, FileServeStep
<1>8. ASSUME NEW c \in Caller, \/ ThreadStep(c) \/ LeaveAcceptLoop(c)
                               \/ \E m \in Method : Connect(c, m)
      PROVE  AnswersDone' /\ \A d \in Caller : CallerFile(d)'
  <2>1. CASE SendRequest(c) \/ Wait(c)
    BY <1>2, <1>3, <2>1, FileCallStep
  <2>2. CASE \/ Call(c) \/ Continue(c) \/ Respond(c) \/ LeaveAcceptLoop(c)
             \/ \E m \in Method : Connect(c, m)
    <3>1. \/ Call(c) \/ Continue(c) \/ Respond(c) \/ LeaveAcceptLoop(c)
          \/ \E m \in Method : handle_connection(c, m)
      BY <2>2 DEF Connect
    <3>2. QED
      BY <1>2, <1>3, <3>1, FileServeStep
  <2>3. QED
    BY <1>8, <2>1, <2>2 DEF ThreadStep
<1>9. CASE UNCHANGED driveVars
  <2>1. UNCHANGED <<thread, job, outstanding, heap, pc, waiter, outcome>>
    BY <1>9 DEF driveVars, jobVars, requestVars, tableVars, callerVars
  <2>2. QED
    BY <1>3, <2>1 DEF AnswersDone, CallerFile, Agrees
<1>10. QED
  BY <1>4, <1>5, <1>6, <1>7, <1>8, <1>9, JobStep

-----------------------------------------------------------------------------
(* The theorems                                                            *)

LEMMA DriveTypeInit == DriveInit => LoopType /\ JobType
<1> SUFFICES ASSUME DriveInit PROVE LoopType /\ JobType
  OBVIOUS
<1>1. 0 \in 0..MaxDevices /\ 0 \in 0..MaxRequests
  BY SlotNumbers, DriveAssumption
<1>2. LoopType
  BY <1>1 DEF DriveInit, LoopType, LoopPlace
<1>3. JobType
  BY <1>1, NoJobIsJob DEF DriveInit, Init, JobType
<1>4. QED
  BY <1>2, <1>3

LEMMA DriveInvInit == DriveInit => PlaceInv /\ ServerInv /\ FileInv
<1> SUFFICES ASSUME DriveInit PROVE PlaceInv /\ ServerInv /\ FileInv
  OBVIOUS
<1>1. PlaceInv
  BY DEF DriveInit, PlaceInv
<1>2. ServerInv
  BY DEF DriveInit, ServerInv, ThreadsHaveServer
<1>3. FileInv
  BY DEF DriveInit, Init, Garbage, FileInv, FilesClosed
<1>4. QED
  BY <1>1, <1>2, <1>3

(* The table's invariants and this module's own are inductive together.    *)
LEMMA DriveStep ==
  TypeOK /\ RequestInv /\ DriveInv /\ [DriveNext]_driveVars => RequestInv' /\ DriveInv' /\ [Next]_requestVars
<1> SUFFICES ASSUME TypeOK, RequestInv, DriveInv, [DriveNext]_driveVars
             PROVE  RequestInv' /\ DriveInv' /\ [Next]_requestVars
  OBVIOUS
<1>1. LoopType /\ JobType /\ PlaceInv /\ ServerInv /\ FileInv
  BY DriveTypeParts DEF DriveInv
<1>2. [Next]_requestVars
  BY <1>1, RequestStep
<1>3. RequestInv'
  BY <1>2, InvStep
<1>4. LoopType' /\ JobType' /\ PlaceInv' /\ ServerInv' /\ FileInv'
  BY <1>1, LoopTypeStep, JobTypeStep, PlaceStep, ServerStep, FileStep
<1>5. QED
  BY <1>2, <1>3, <1>4, DriveTypeParts DEF DriveInv

(* The servers, their threads, their handlers and the files of these, as   *)
(* DriveInv says (rdp_webdav_server_create and _destroy, the HTTP handlers *)
(* and context_free).                                                      *)
THEOREM DriveInvariance == DriveSpec => []DriveInv
<1>1. DriveInit => TypeOK /\ RequestInv /\ DriveInv
  BY TypeInit, InvInit, DriveTypeInit, DriveInvInit, DriveTypeParts DEF DriveInit, DriveInv
<1>2. TypeOK /\ RequestInv /\ DriveInv /\ [DriveNext]_driveVars => TypeOK' /\ RequestInv' /\ DriveInv'
  BY DriveStep, TypeStep
<1>3. QED
  BY <1>1, <1>2, PTL DEF DriveSpec

(* The threads, the peer loop and context_free use the pending table as    *)
(* DeviceRequests says, so that its theorems hold here.                    *)
THEOREM DrivesUseTable == DriveSpec => Spec
<1>1. DriveInit => Init
  BY DEF DriveInit
<1>2. DriveInit => TypeOK /\ RequestInv /\ DriveInv
  BY TypeInit, InvInit, DriveTypeInit, DriveInvInit, DriveTypeParts DEF DriveInit, DriveInv
<1>3. TypeOK /\ RequestInv /\ DriveInv /\ [DriveNext]_driveVars
        => TypeOK' /\ RequestInv' /\ DriveInv' /\ [Next]_requestVars
  BY DriveStep, TypeStep
<1>4. QED
  BY <1>1, <1>2, <1>3, PTL DEF DriveSpec, Spec

(* No thread outlives its server, and no server the peer context           *)
(* (rdp_webdav_server_destroy, context_free).                              *)
THEOREM ThreadsServed == DriveSpec => []ThreadsHaveServer
<1>1. DriveInv => ThreadsHaveServer
  BY DEF DriveInv, ServerInv
<1>2. QED
  BY <1>1, DriveInvariance, PTL

(* A handler whose CREATE and CLOSE were answered leaves no file open,     *)
(* as long as no id is issued again while it is pending (handle_get,       *)
(* handle_put, handle_propfind and their error paths).                     *)
THEOREM FilesAreClosed == DriveSpec => [](~reused => FilesClosed)
<1>1. DriveInv => (~reused => FilesClosed)
  BY DEF DriveInv, FileInv
<1>2. QED
  BY <1>1, DriveInvariance, PTL

(* A second announcement overwrites no server that still has a thread.     *)
THEOREM ServersKept == DriveSpec => NoServerLost
<1>1. DriveInv /\ [DriveNext]_driveVars
        => [\A c \in Caller : server[c] # None /\ server'[c] # server[c]
                                => server'[c] = None /\ thread[c] = "exited"]_driveVars
  <2> SUFFICES ASSUME DriveInv, DriveNext, NEW c \in Caller,
                      server[c] # None, server'[c] # server[c]
               PROVE  server'[c] = None /\ thread[c] = "exited"
    OBVIOUS
  <2>1. LoopType /\ PlaceInv
    BY DriveTypeParts DEF DriveInv
  <2>2. ServerCreated \/ JoinThread
    BY JobStep DEF LoopOnly, ClientName, DeviceListAnnounce, ServerFails, MountEnds, ProbeDrive,
       CallbackEnds, PeerLoopEnds, Unmount, StopServer, NoServer, ContextFreed, IoCompletion, MountAsks,
       handle_connection, ThreadStep, Call, SendRequest, Wait, Continue, Respond, LeaveAcceptLoop,
       Connect, loopVars
  <2>3. CASE ServerCreated
    BY <2>1, <2>3 DEF ServerCreated, LoopType
  <2>4. CASE JoinThread
    BY <2>1, <2>4 DEF JoinThread, LoopType
  <2>5. QED
    BY <2>2, <2>3, <2>4
<1>2. QED
  BY <1>1, DriveInvariance, PTL DEF DriveSpec, NoServerLost

(* The promise to the threads of the WebDAV servers, that a call ends once *)
(* and by its own answer, and the lifetime of its waiter, with the real    *)
(* servers and handlers as the callers (irp_send_wait from handle_get on). *)
THEOREM CallsOfDrives == DriveSpec => CallsKeepPromise /\ []WaiterLifetime
BY DrivesUseTable, Refinement, WaitersLive

(* In a session of fewer than 2^32 - 1 device requests, handlers close     *)
(* their files and calls keep their promise without reservation.           *)
THEOREM DrivesBeforeWrap == DriveSpec /\ []BeforeWrap => []FilesClosed /\ RC!Spec
BY DrivesUseTable, NoReuseBeforeWrap, FilesAreClosed, RefinementBeforeWrap, PTL

-----------------------------------------------------------------------------
(* A handler's way to its end.                                             *)

(* How many more device requests a handler can make, at most.  A read or a *)
(* write uses up a chunk, and what follows is the CLOSE.                   *)
Rank(j) ==
  CASE j.op = "end"              -> 0
    [] j.op = "close"            -> 1
    [] j.op \in {"read", "write"} -> 2 + j.left
    [] j.op = "open"             -> 3 + j.left
    [] j.op = "opendir"          -> 4 + j.left
    [] OTHER                     -> 2

(* Each request that returns, with whatever outcome, brings its handler    *)
(* nearer to its end, and nothing but a new connection sets it back.       *)
HandlerShrinks ==
  [][\A c \in Caller :
       /\ thread[c] = "calling" /\ thread'[c] = "serve" => Rank(job'[c]) < Rank(job[c])
       /\ Rank(job[c]) < Rank(job'[c]) => thread[c] = "accept"]_driveVars

LEMMA RankIsNat == \A j \in Job : Rank(j) \in Nat
BY DriveAssumption DEF Rank, Job

LEMMA OpensAfter ==
  ASSUME NEW m, NEW o, NEW ok \in BOOLEAN, NEW n, "open" \in NextOps(m, o, ok, n)
  PROVE  o = "opendir"
BY DEF NextOps, Creates

LEMMA ClosesAfter ==
  ASSUME NEW m, NEW o, NEW ok \in BOOLEAN, NEW n, "close" \in NextOps(m, o, ok, n)
  PROVE  o # "close"
BY DEF NextOps, Creates

LEMMA ToldIsNearer ==
  ASSUME NEW j \in Job, j.op # "end", NEW ok \in BOOLEAN, NEW result,
         NEW o \in NextOps(j.method, j.op, ok, j.left)
  PROVE  Rank(Told(j, o, result)) < Rank(j)
<1> DEFINE left == IF j.op \in {"read", "write"} /\ j.left > 0 THEN j.left - 1 ELSE j.left
<1>1. j.left \in Nat
  BY DriveAssumption DEF Job
<1>2. Told(j, o, result).op = o /\ Told(j, o, result).left = left
  BY DEF Told
<1>3. left \in Nat /\ left <= j.left
  BY <1>1
<1>4. CASE o = "close"
  <2>1. j.op # "close"
    BY <1>4, ClosesAfter
  <2>2. QED
    BY <1>1, <1>2, <1>4, <2>1 DEF Rank
<1>5. CASE o = "open"
  <2>1. j.op = "opendir"
    BY <1>5, OpensAfter
  <2>2. QED
    BY <1>1, <1>2, <1>5, <2>1 DEF Rank
<1>6. CASE o \in {"list", "delete"}
  <2>1. j.op \in {"open", "opendir"}
    BY <1>6 DEF NextOps, Creates
  <2>2. QED
    BY <1>1, <1>2, <1>6, <2>1 DEF Rank
<1>7. CASE o \in {"read", "write"}
  <2>1. j.op = "open" \/ (j.op \in {"read", "write"} /\ j.left > 0)
    BY <1>1, <1>7 DEF NextOps, Creates
  <2>2. QED
    BY <1>1, <1>2, <1>7, <2>1 DEF Rank
<1>8. CASE o = "end"
  BY <1>1, <1>2, <1>8 DEF Rank
<1>9. QED
  BY <1>4, <1>5, <1>6, <1>7, <1>8, NextOpsAreOps

LEMMA RankStep ==
  ASSUME LoopType, JobType, PlaceInv, ServerInv, DriveNext, NEW c \in Caller
  PROVE  /\ thread[c] = "calling" /\ thread'[c] = "serve" => Rank(job'[c]) < Rank(job[c])
         /\ Rank(job[c]) < Rank(job'[c]) => thread[c] = "accept"
<1> DEFINE Goal == /\ thread[c] = "calling" /\ thread'[c] = "serve" => Rank(job'[c]) < Rank(job[c])
                   /\ Rank(job[c]) < Rank(job'[c]) => thread[c] = "accept"
<1>1. thread \in [Caller -> {"none", "accept", "serve", "calling", "exited"}] /\ job \in [Caller -> Job]
  BY DEF JobType
<1>2. job[c] \in Job /\ Rank(job[c]) \in Nat
  BY <1>1, RankIsNat
<1> SUFFICES Goal
  OBVIOUS
<1> HIDE DEF Goal
<1>3. ASSUME Rank(job'[c]) = Rank(job[c]), thread'[c] = thread[c] \/ thread'[c] # "serve" PROVE Goal
  BY <1>2, <1>3 DEF Goal
<1>4. CASE LoopOnly
  BY <1>3, <1>4, LoopOnlyKeepsJobs DEF jobVars
<1>5. CASE ServerCreated
  <2>1. thread'[c] \in {thread[c], "accept"} /\ job' = job
    BY <1>1, <1>5 DEF ServerCreated
  <2>2. QED
    BY <1>3, <2>1
<1>6. ASSUME NEW r \in outstanding, NEW s \in Result, IoCompletion(r, s) PROVE Goal
  <2>1. job'[c].op = job[c].op /\ thread' = thread
    BY <1>6, AnsweredStep
  <2>2. job'[c].left = job[c].left
    <3>1. \A f : [job[c] EXCEPT !.file = f].left = job[c].left
      BY <1>2 DEF Job
    <3>2. job' = job \/ \E d, f : job' = [job EXCEPT ![d] = [job[d] EXCEPT !.file = f]]
      BY <1>6 DEF IoCompletion
    <3>3. job'[c] = job[c] \/ \E f : job'[c] = [job[c] EXCEPT !.file = f]
      BY <1>1, <3>2
    <3>4. QED
      BY <3>1, <3>3
  <2>3. QED
    BY <1>3, <2>1, <2>2 DEF Rank
<1>7. ASSUME NEW d \in Caller, NEW m \in Method, handle_connection(d, m) PROVE Goal
  BY <1>2, <1>3, <1>7, <1>1 DEF handle_connection, Goal
<1>8. ASSUME NEW d \in Caller, ThreadStep(d) PROVE Goal
  <2>1. CASE Call(d)
    BY <1>1, <1>3, <2>1 DEF Call
  <2>2. CASE SendRequest(d) \/ Wait(d)
    BY <1>3, <2>2 DEF SendRequest, Wait, jobVars
  <2>3. CASE Continue(d)
    <3>1. PICK o \in NextOps(job[d].method, job[d].op, Succeeded(job[d].op, outcome[d]), job[d].left) :
            job' = [job EXCEPT ![d] = Told(job[d], o, outcome[d])]
      BY <2>3 DEF Continue
    <3>2. Succeeded(job[d].op, outcome[d]) \in BOOLEAN /\ job[d] \in Job /\ job[d].op # "end"
      <4>1. Succeeded(job[d].op, outcome[d]) \in BOOLEAN
        BY DEF Succeeded
      <4>2. QED
        BY <1>1, <2>3, <4>1 DEF Continue, PlaceInv
    <3>3. Rank(Told(job[d], o, outcome[d])) < Rank(job[d])
      <4> DEFINE ok == Succeeded(job[d].op, outcome[d])
      <4>1. ok \in BOOLEAN /\ o \in NextOps(job[d].method, job[d].op, ok, job[d].left)
        BY <3>1, <3>2
      <4> HIDE DEF ok
      <4>2. QED
        BY <3>2, <4>1, ToldIsNearer
    <3>4. CASE d = c
      <4>1. job'[c] = Told(job[d], o, outcome[d])
        BY <1>1, <3>1, <3>4
      <4>2. Rank(job'[c]) < Rank(job[c])
        BY <3>3, <3>4, <4>1
      <4>3. job'[c] \in Job
        BY <3>2, <3>4, <4>1, ContinueStep, <2>3, <1>1
      <4>4. QED
        BY <1>2, <4>2, <4>3, RankIsNat DEF Goal
    <3>5. CASE d # c
      BY <1>1, <1>3, <2>3, <3>1, <3>5 DEF Continue
    <3>6. QED
      BY <3>4, <3>5
  <2>4. CASE Respond(d)
    <3>1. thread'[c] \in {thread[c], "accept"} /\ job'[c] \in {job[c], NoJob}
      BY <1>1, <2>4 DEF Respond
    <3>2. Rank(NoJob) = 0
      BY DEF Rank, NoJob
    <3>3. CASE job'[c] = NoJob
      BY <1>2, <3>1, <3>2, <3>3 DEF Goal
    <3>4. QED
      BY <1>3, <3>1, <3>3
  <2>5. QED
    BY <1>8, <2>1, <2>2, <2>3, <2>4 DEF ThreadStep
<1>9. ASSUME NEW d \in Caller, LeaveAcceptLoop(d) PROVE Goal
  <2>1. thread'[c] \in {thread[c], "exited"} /\ job' = job
    BY <1>1, <1>9 DEF LeaveAcceptLoop
  <2>2. QED
    BY <1>3, <2>1
<1>10. ASSUME NEW m \in {"OPTIONS", "PROPFIND"}, MountAsks(m) PROVE Goal
  <2>1. slot \in Caller /\ m \in Method /\ handle_connection(slot, m)
    BY <1>10, SlotUsed DEF MountAsks, Method
  <2>2. QED
    BY <1>7, <2>1
<1>11. ASSUME NEW d \in Caller, NEW m \in Method, Connect(d, m) PROVE Goal
  BY <1>7, <1>11 DEF Connect
<1>12. QED
  BY <1>4, <1>5, <1>6, <1>8, <1>9, <1>10, <1>11, JobStep

(* A handler makes at most 4 + MaxChunks device requests, whatever the     *)
(* client answers: no error path of handle_propfind, handle_get or         *)
(* handle_put asks again for what it has asked for.  This is the part of   *)
(* JobEnds that does not rest on fairness.                                 *)
THEOREM HandlersShrink == DriveSpec => HandlerShrinks
<1>1. DriveInv /\ [DriveNext]_driveVars
        => [\A c \in Caller :
              /\ thread[c] = "calling" /\ thread'[c] = "serve" => Rank(job'[c]) < Rank(job[c])
              /\ Rank(job[c]) < Rank(job'[c]) => thread[c] = "accept"]_driveVars
  BY RankStep, DriveTypeParts DEF DriveInv
<1>2. QED
  BY <1>1, DriveInvariance, PTL DEF DriveSpec, HandlerShrinks

=============================================================================
