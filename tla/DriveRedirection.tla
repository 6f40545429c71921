-------------------------- MODULE DriveRedirection --------------------------
(***************************************************************************)
(* Redirected drives: the RDPDR channel of protocol/RDPPeer.c, which       *)
(* announces the client's drives to the peer loop, and the WebDAV servers  *)
(* of protocol/RDPWebDAV.c, one per drive, that macOS mounts.              *)
(*                                                                         *)
(* webdavServers[i] listens on port 8760 + i and has one thread, so i      *)
(* names the slot, the port and the thread (a Caller of DeviceRequests).   *)
(* The thread serves one HTTP request after the other, each with a few     *)
(* device requests.  The peer loop creates and mounts a server inside      *)
(* DEVICE_LIST_ANNOUNCE; context_free, after the loop, unmounts and        *)
(* destroys them one by one.                                               *)
(***************************************************************************)
EXTENDS DeviceRequests, Sequences, FiniteSets

CONSTANTS
  Drive,         (* device ids of the client's drives              *)
  DeviceLists,   (* the device lists the client may announce       *)
  MaxChunks,     (* bound: 64 KB pieces of a file or of a PUT body *)
  MaxRequests    (* bound: HTTP requests                           *)

ASSUME DriveAssumption ==
  /\ Cardinality(Caller) \in Nat
  /\ Caller = 0..(Cardinality(Caller) - 1)
  /\ {"open", "opendir", "list", "read", "write", "delete", "close"} \subseteq Operation
  /\ None \notin Drive
  /\ DeviceLists \subseteq Seq(Drive) \ {<<>>}
  /\ MaxChunks \in Nat /\ MaxRequests \in Nat

VARIABLES
  rdpdrState,   (* the handshake of the channel                             *)
  loop,         (* where the peer loop, later context_free, is              *)
  slot,         (* driveSlot in an announcement, i in context_free          *)
  devices,      (* the drives the announcement still has to deal with       *)
  announced,    (* the drives the client has announced                      *)
  server,       (* webdavServers: the drive each one serves, or None        *)
  running,      (* srv->running, the thread's licence to accept             *)
  mounted,      (* srv->mounted                                             *)
  mounter,      (* how far the mount command is with its own requests       *)
  thread,       (* where each server's thread is between device requests    *)
  job,          (* the locals of its handler, and what became of its file   *)
  rdpPath,      (* whose URL the static buffer of url_to_rdpdr_path holds   *)
  requests      (* HTTP requests of local clients so far, for the bound     *)

loopVars == <<rdpdrState, loop, slot, devices, announced, server, running, mounted>>
jobVars == <<thread, job, rdpPath, requests>>
driveVars == <<requestVars, loopVars, mounter, jobVars>>

-----------------------------------------------------------------------------
MaxDevices == Cardinality(Caller)

Method == {"OPTIONS", "PROPFIND", "GET", "PUT", "DELETE", "MKCOL"}

(* A handler: the method, its next device request, the chunks still to be  *)
(* read or written; did a CREATE or CLOSE go without an answer, or a       *)
(* CREATE's answer come without the file id; does the client hold the file *)
(* of its last CREATE open (the last two are history).                     *)
NoJob == [method |-> "OPTIONS", op |-> "end", left |-> 0, failed |-> FALSE, file |-> FALSE]

LoopPlace == {"poll", "create", "mount", "probe", "unmount", "destroy", "join", "freed"}

DriveTypeOK ==
  /\ rdpdrState \in {"SentAnnounce", "ReceivedName", "Ready", "Error"}
  /\ loop \in LoopPlace
  /\ slot \in 0..MaxDevices
  /\ devices \in Seq(Drive)
  /\ announced \subseteq Drive
  /\ server \in [Caller -> Drive \cup {None}]
  /\ running \in [Caller -> BOOLEAN]
  /\ mounted \in [Caller -> BOOLEAN]
  /\ mounter \in {"idle", "asking", "answered"}
  /\ thread \in [Caller -> {"none", "accept", "serve", "calling", "exited"}]
  /\ job \in [Caller -> [method : Method, op : Operation \cup {"end"},
                         left : 0..MaxChunks, failed : BOOLEAN, file : BOOLEAN]]
  /\ \A c \in Caller : thread[c] # "calling" => pc[c] = "ready"
  /\ rdpPath \in Caller \cup {None}
  /\ requests \in 0..MaxRequests

DriveInit ==
  /\ Init
  /\ rdpdrState = "SentAnnounce"
  /\ loop = "poll"
  /\ slot = 0
  /\ devices = <<>>
  /\ announced = {}
  /\ server = [c \in Caller |-> None]
  /\ running = [c \in Caller |-> FALSE]
  /\ mounted = [c \in Caller |-> FALSE]
  /\ mounter = "idle"
  /\ thread = [c \in Caller |-> "none"]
  /\ job = [c \in Caller |-> NoJob]
  /\ rdpPath = None
  /\ requests = 0

-----------------------------------------------------------------------------
(* The HTTP handlers                                                       *)

Creates == {"open", "opendir"}

FirstOp(m) ==
  CASE m = "OPTIONS" -> "end"
    [] m \in {"PROPFIND", "MKCOL"} -> "opendir"
    [] OTHER -> "open"

(* Faulty: a read that fails ends the handler. *)
NextOpsLeaveFile(m, o, ok, n) ==
  CASE o \in Creates /\ ~ok ->
         {IF m = "PROPFIND" /\ o = "opendir" THEN "open" ELSE "end"}
    [] o = "opendir" /\ m = "PROPFIND" -> {"list", "close"}
    [] o = "open" /\ m = "GET"         -> {"read"}
    [] o = "open" /\ m = "PUT"         -> {IF n > 0 THEN "write" ELSE "close"}
    [] o = "open" /\ m = "DELETE"      -> {"delete"}
    [] o = "read"                      -> {IF ~ok THEN "end" ELSE IF n > 0 THEN "read" ELSE "close"}
    [] o = "write"                     -> {IF ok /\ n > 1 THEN "write" ELSE "close"}
    [] o = "close"                     -> {"end"}
    [] OTHER                           -> {"close"}

(* The device request that follows o in a handler, given whether o         *)
(* succeeded and how many chunks are left; "end" sends the HTTP response.  *)
(* A PROPFIND lists a directory or, with Depth 0 or no memory, closes it.  *)
NextOps(m, o, ok, n) ==
  CASE o \in Creates /\ ~ok ->
         {IF m = "PROPFIND" /\ o = "opendir" THEN "open" ELSE "end"}
    [] o = "opendir" /\ m = "PROPFIND" -> {"list", "close"}
    [] o = "open" /\ m = "GET"         -> {"read"}
    [] o = "open" /\ m = "PUT"         -> {IF n > 0 THEN "write" ELSE "close"}
    [] o = "open" /\ m = "DELETE"      -> {"delete"}
    [] o = "read"                      -> {IF ok /\ n > 0 THEN "read" ELSE "close"}
    [] o = "write"                     -> {IF ok /\ n > 1 THEN "write" ELSE "close"}
    [] o = "close"                     -> {"end"}
    [] OTHER                           -> {"close"}

(* A connection is accepted and its request read; a handler that opens a   *)
(* file first translates the URL into the one static buffer.               *)
handle_connection(c, m) ==
  /\ thread[c] = "accept"
  /\ running[c]
  /\ thread' = [thread EXCEPT ![c] = "serve"]
  /\ \E n \in IF m \in {"GET", "PUT"} THEN 0..MaxChunks ELSE {0} :
       job' = [job EXCEPT ![c] = [method |-> m, op |-> FirstOp(m), left |-> n,
                                  failed |-> FALSE, file |-> FALSE]]
  /\ rdpPath' = IF m = "OPTIONS" THEN rdpPath ELSE c
  /\ UNCHANGED <<requestVars, loopVars>>

(* A client on this Mac, the mounted volume above all. *)
Connect(c, m) ==
  /\ requests < MaxRequests
  /\ requests' = requests + 1
  /\ handle_connection(c, m)
  /\ UNCHANGED mounter

(* The next device request: its waiter, or no memory for it. *)
Call(c) ==
  /\ thread[c] = "serve"
  /\ job[c].op # "end"
  /\ irp_waiter_alloc(c) \/ AllocFails(c)
  /\ thread' = [thread EXCEPT ![c] = "calling"]
  /\ UNCHANGED <<loopVars, mounter, job, rdpPath, requests>>

(* The loop also holds xportLock while it mounts and probes. *)
loopHoldsLock == loop \in {"mount", "probe"}

SendRequest(c) ==
  /\ ~loopHoldsLock
  /\ Send(c, job[c].op) \/ TableFull(c) \/ WriteFails(c)
  /\ UNCHANGED <<loopVars, mounter, jobVars>>

Wait(c) ==
  /\ Waiting(c)
  /\ UNCHANGED <<loopVars, mounter, jobVars>>

(* Faulty: the handler does not wait for the call. *)
ContinueEarly(c) ==
  /\ thread[c] = "calling"
  /\ thread' = [thread EXCEPT ![c] = "serve"]
  /\ \E o \in NextOps(job[c].method, job[c].op, TRUE, job[c].left) :
       job' = [job EXCEPT ![c].op = o]
  /\ UNCHANGED <<requestVars, loopVars, mounter, rdpPath, requests>>

(* Does the handler take the call for a success?  What open_file needs is  *)
(* the file id, and what handle_get needs are the bytes, in the payload.   *)
Succeeded(o, result) ==
  /\ result # None
  /\ result.status = "success"
  /\ o \in Creates \cup {"read"} => result.payload

(* A CREATE or CLOSE of which the handler does not know, or a CREATE whose *)
(* file it cannot name: open at the client, and reported as a failure.     *)
Unknown(o, result) ==
  \/ o \in Creates \cup {"close"} /\ result = None
  \/ o \in Creates /\ result.status = "success" /\ ~result.payload

(* A handler's locals, after its request has returned and with o to follow. *)
Told(j, o, result) ==
  [method |-> j.method,
   op     |-> o,
   left   |-> IF j.op \in {"read", "write"} /\ j.left > 0 THEN j.left - 1 ELSE j.left,
   failed |-> j.failed \/ Unknown(j.op, result),
   file   |-> j.file]

(* The handler looks at what the call returned and goes on. *)
Continue(c) ==
  /\ thread[c] = "calling"
  /\ pc[c] = "ready"
  /\ thread' = [thread EXCEPT ![c] = "serve"]
  /\ \E o \in NextOps(job[c].method, job[c].op, Succeeded(job[c].op, outcome[c]), job[c].left) :
       job' = [job EXCEPT ![c] = Told(job[c], o, outcome[c])]
  /\ UNCHANGED <<requestVars, loopVars, mounter, rdpPath, requests>>

(* The response is sent and the connection closed.  The command that       *)
(* mounts this drive takes it for the answer to its own request.           *)
Respond(c) ==
  /\ thread[c] = "serve"
  /\ job[c].op = "end"
  /\ thread' = [thread EXCEPT ![c] = "accept"]
  /\ job' = [job EXCEPT ![c] = NoJob]
  /\ mounter' = IF loop = "mount" /\ slot = c /\ mounter = "asking"
                THEN "answered" ELSE mounter
  /\ UNCHANGED <<requestVars, loopVars, rdpPath, requests>>

(* The accept loop ends when running is cleared, or accept fails. *)
LeaveAcceptLoop(c) ==
  /\ thread[c] = "accept"
  /\ thread' = [thread EXCEPT ![c] = "exited"]
  /\ UNCHANGED <<requestVars, loopVars, mounter, job, rdpPath, requests>>

-----------------------------------------------------------------------------
(* The peer loop: rdpdr_handle_pdu                                         *)

Pumping == connected /\ xportLockFree /\ loop = "poll" /\ rdpdrState # "Error"

(* CLIENT_NAME: the capability request and the client id are sent. *)
ClientName ==
  /\ Pumping
  /\ rdpdrState = "SentAnnounce"
  /\ rdpdrState' \in {"ReceivedName", "Error"}
  /\ UNCHANGED <<requestVars, loop, slot, devices, announced, server, running,
                 mounted, mounter, jobVars>>

(* Where the loop goes for a drive: to server_create, while there are      *)
(* server slots left.                                                      *)
ForDrive(i) == IF i < MaxDevices THEN "create" ELSE "probe"

(* DEVICE_LIST_ANNOUNCE, in any state of the handshake, counts its server  *)
(* slots from 0 again.  The client announces a drive once.                 *)
DeviceListAnnounce(list) ==
  /\ Pumping
  /\ \A i \in DOMAIN list : list[i] \notin announced
  /\ announced' = announced \cup {list[i] : i \in DOMAIN list}
  /\ devices' = list
  /\ slot' = 0
  /\ loop' = ForDrive(0)
  /\ UNCHANGED <<requestVars, rdpdrState, server, running, mounted, mounter, jobVars>>

(* Faulty: the server is created even when its port is taken. *)
CreatedAnyway ==
  /\ loop = "create"
  /\ server' = [server EXCEPT ![slot] = Head(devices)]
  /\ running' = [running EXCEPT ![slot] = TRUE]
  /\ thread' = [thread EXCEPT ![slot] = "accept"]
  /\ loop' = "mount"
  /\ UNCHANGED <<requestVars, rdpdrState, slot, devices, announced, mounted, mounter,
                 job, rdpPath, requests>>

(* rdp_webdav_server_create, with xportLock released: binding the port     *)
(* works only if no server has it.                                         *)
ServerCreated ==
  /\ loop = "create"
  /\ server[slot] = None
  /\ server' = [server EXCEPT ![slot] = Head(devices)]
  /\ running' = [running EXCEPT ![slot] = TRUE]
  /\ thread' = [thread EXCEPT ![slot] = "accept"]
  /\ loop' = "mount"
  /\ UNCHANGED <<requestVars, rdpdrState, slot, devices, announced, mounted, mounter,
                 job, rdpPath, requests>>

ServerFails ==
  /\ loop = "create"
  /\ loop' = "probe"
  /\ UNCHANGED <<requestVars, rdpdrState, slot, devices, announced, server, running,
                 mounted, mounter, jobVars>>

(* rdp_webdav_mount waits for mount_webdav, which sends a request of its   *)
(* own to the new server and may give up on it.                            *)
MountAsks(m) ==
  /\ loop = "mount"
  /\ mounter = "idle"
  /\ handle_connection(slot, m)
  /\ mounter' = "asking"
  /\ UNCHANGED requests

MountEnds(ok) ==
  /\ loop = "mount"
  /\ ok => mounter = "answered"
  /\ mounted' = [mounted EXCEPT ![slot] = ok]
  /\ mounter' = "idle"
  /\ loop' = "probe"
  /\ UNCHANGED <<requestVars, rdpdrState, slot, devices, announced, server, running, jobVars>>

(* The capacity probe, the reply to the announcement, and the next drive.  *)
ProbeDrive ==
  /\ loop = "probe"
  /\ ProbeCapacity \/ ProbeFails \/ (FirstFree = {} /\ UNCHANGED requestVars)
  /\ devices' = Tail(devices)
  /\ slot' = IF slot < MaxDevices THEN slot + 1 ELSE slot
  /\ IF devices' = <<>>
       THEN /\ loop' = "poll"
            /\ rdpdrState' = "Ready"
       ELSE /\ loop' = ForDrive(slot')
            /\ UNCHANGED rdpdrState
  /\ UNCHANGED <<announced, server, running, mounted, mounter, jobVars>>

(* DEVICE_IOCOMPLETION.  The client has opened or closed the file it       *)
(* answers for, whatever becomes of the answer's payload; a file opened    *)
(* for a call that has been given up belongs to no job any more.           *)
IoCompletion(r, result) ==
  /\ Pumping
  /\ Completion(r, result)
  /\ job' = IF r.op \in Creates \cup {"close"} /\ waiter[r.caller] = r.waiter
            THEN [job EXCEPT ![r.caller].file = r.op # "close" /\ result.status = "success"]
            ELSE job
  /\ UNCHANGED <<loopVars, mounter, thread, rdpPath, requests>>

CallbackEnds ==
  /\ CallbackUnref
  /\ UNCHANGED <<loopVars, mounter, jobVars>>

-----------------------------------------------------------------------------
(* The end of the session: the loop stops reading, then context_free       *)

PeerLoopEnds ==
  /\ loop = "poll"
  /\ LoopEnds
  /\ loop' = "unmount"
  /\ slot' = 0
  /\ UNCHANGED <<rdpdrState, devices, announced, server, running, mounted, mounter, jobVars>>

(* rdp_webdav_unmount, for a server that exists. *)
Unmount ==
  /\ loop = "unmount"
  /\ slot < MaxDevices
  /\ server[slot] # None
  /\ mounted' = [mounted EXCEPT ![slot] = FALSE]
  /\ loop' = "destroy"
  /\ UNCHANGED <<requestVars, rdpdrState, slot, devices, announced, server, running,
                 mounter, jobVars>>

(* Faulty: the thread may go on accepting. *)
StopServerKeepsRunning ==
  /\ loop = "destroy"
  /\ loop' = "join"
  /\ UNCHANGED <<requestVars, rdpdrState, slot, devices, announced, server, running,
                 mounted, mounter, jobVars>>

(* rdp_webdav_server_destroy clears running and closes the listening       *)
(* socket, then joins the thread.                                          *)
StopServer ==
  /\ loop = "destroy"
  /\ running' = [running EXCEPT ![slot] = FALSE]
  /\ loop' = "join"
  /\ UNCHANGED <<requestVars, rdpdrState, slot, devices, announced, server, mounted,
                 mounter, jobVars>>

(* Faulty: the server is freed without a join. *)
FreeWithoutJoin ==
  /\ loop = "join"
  /\ server' = [server EXCEPT ![slot] = None]
  /\ slot' = slot + 1
  /\ loop' = "unmount"
  /\ UNCHANGED <<requestVars, rdpdrState, devices, announced, running, mounted, mounter, jobVars>>

JoinThread ==
  /\ loop = "join"
  /\ thread[slot] = "exited"
  /\ server' = [server EXCEPT ![slot] = None]
  /\ slot' = slot + 1
  /\ loop' = "unmount"
  /\ UNCHANGED <<requestVars, rdpdrState, devices, announced, running, mounted, mounter, jobVars>>

NoServer ==
  /\ loop = "unmount"
  /\ slot < MaxDevices
  /\ server[slot] = None
  /\ slot' = slot + 1
  /\ UNCHANGED <<requestVars, rdpdrState, loop, devices, announced, server, running,
                 mounted, mounter, jobVars>>

ContextFreed ==
  /\ loop = "unmount"
  /\ slot = MaxDevices
  /\ loop' = "freed"
  /\ UNCHANGED <<requestVars, rdpdrState, slot, devices, announced, server, running,
                 mounted, mounter, jobVars>>

-----------------------------------------------------------------------------
ThreadStep(c) ==
  Call(c) \/ SendRequest(c) \/ Wait(c) \/ Continue(c) \/ Respond(c)

DriveLoopStep ==
  \/ ServerCreated \/ ServerFails \/ (\E ok \in BOOLEAN : MountEnds(ok)) \/ ProbeDrive
  \/ CallbackEnds
  \/ Unmount \/ StopServer \/ JoinThread \/ NoServer \/ ContextFreed

DriveNext ==
  \/ \E c \in Caller : ThreadStep(c) \/ LeaveAcceptLoop(c) \/ (\E m \in Method : Connect(c, m))
  \/ \E m \in {"OPTIONS", "PROPFIND"} : MountAsks(m)
  \/ ClientName \/ (\E list \in DeviceLists : DeviceListAnnounce(list))
  \/ \E r \in outstanding, s \in Result : IoCompletion(r, s)
  \/ DriveLoopStep \/ PeerLoopEnds

DriveSpec == DriveInit /\ [][DriveNext]_driveVars

(* Threads run and deadlines pass.  A thread that asks for xportLock gets  *)
(* it in the end, for the peer loop gives it up again and again.  A mount  *)
(* command exits in the end, with or without an answer, and an accept on   *)
(* the closed socket fails.  The client owes no answer.                    *)
DriveFairness ==
  /\ \A c \in Caller :
       /\ WF_driveVars(Call(c) \/ Wait(c) \/ Continue(c) \/ Respond(c))
       /\ SF_driveVars(SendRequest(c))
       /\ WF_driveVars(~running[c] /\ LeaveAcceptLoop(c))
  /\ WF_driveVars(DriveLoopStep)

-----------------------------------------------------------------------------
(* Properties                                                              *)

(* A handler whose CREATE and CLOSE requests were answered, and which got  *)
(* the id of every file that was opened for it, leaves no file open at the *)
(* client, however its reads and writes went.  Without the id open_file    *)
(* reports a failure and nothing will ever close the file.                 *)
FilesClosed ==
  \A c \in Caller :
    thread[c] = "serve" /\ job[c].op = "end" /\ ~job[c].failed => ~job[c].file

(* A thread never outlives its server, nor a server the peer context: the  *)
(* handlers use both without a check.                                      *)
ThreadsHaveServer ==
  /\ \A c \in Caller : thread[c] \notin {"none", "exited"} => server[c] # None
  /\ loop = "freed" => \A c \in Caller : server[c] = None

(* A second announcement counts its slots from 0 again, and yet no server  *)
(* that still has a thread is overwritten in webdavServers: its port is    *)
(* taken.  Only context_free takes a server out, after its thread.         *)
NoServerLost ==
  [][\A c \in Caller : server[c] # None /\ server'[c] # server[c]
                         => server'[c] = None /\ thread[c] = "exited"]_driveVars

(* A handler ends whatever the client answers, even after the session: a   *)
(* request waits for no longer than its deadline.                          *)
JobEnds ==
  \A c \in Caller : thread[c] \in {"serve", "calling"} ~> thread[c] \in {"accept", "exited"}

(* The end of a session is reached: no server's thread can keep            *)
(* context_free waiting for good, even with requests the client will never *)
(* answer.                                                                 *)
ContextIsFreed == ~connected ~> loop = "freed"

(* The path a CREATE request carries is the one its own handler has        *)
(* translated: a server translates its requests into IRPs and returns      *)
(* their results (RDPWebDAV.h:11-14).                                      *)
CreateCarriesOwnPath ==
  [][\A c \in Caller : pc[c] = "send" /\ pc'[c] = "check" /\ job[c].op \in Creates
                         => rdpPath = c]_driveVars

(* The mount of a drive does not hold up the requests it needs itself: the *)
(* lock is released around the start of the server, which may need to call *)
(* back into IRPs (RDPPeer.c:1894-1895), and the loop thread is there to   *)
(* fire the callbacks (RDPWebDAV.h:21-23).                                 *)
MountNotBlocked == ~(loop = "mount" /\ mounter = "asking" /\ pc[slot] = "send")

-----------------------------------------------------------------------------
(* The inductive invariant, part by part.                                  *)

(* The loop has a drive to deal with, and a slot for it, and a handler     *)
(* that waits has something to wait for.                                   *)
PlaceInv ==
  /\ loop \in {"create", "mount", "destroy", "join"} => slot < MaxDevices
  /\ loop \in {"create", "mount", "probe"} => devices # <<>>
  /\ \A c \in Caller : thread[c] = "calling" => job[c].op # "end"

(* context_free goes from slot to slot.                                    *)
ServerInv ==
  /\ ThreadsHaveServer
  /\ loop \in {"unmount", "destroy", "join"} =>
       \A c \in Caller : c < slot => server[c] = None

(* The status of a CREATE or CLOSE that a waiter holds, or its caller has  *)
(* read, is what became of the file at the client; whether the handler can *)
(* use the answer is another matter (Succeeded, Unknown).                  *)
Agrees(c, result) ==
  /\ job[c].op \in Creates => (job[c].file <=> result.status = "success")
  /\ job[c].op = "close" => ~job[c].file

FileInv ==
  ~reused =>
    /\ \A w \in Waiter : heap[w].answer # None => heap[w].done
    /\ \A r \in outstanding, c \in Caller :
         waiter[c] # None /\ waiter[c] = r.waiter => r.op = job[c].op
    /\ \A c \in Caller :
         waiter[c] # None /\ heap[waiter[c]].answer # None
         => Agrees(c, heap[waiter[c]].answer.result)
    /\ \A c \in Caller :
         thread[c] = "calling" /\ pc[c] = "ready" /\ outcome[c] # None
         => Agrees(c, outcome[c])
    /\ FilesClosed

(* The servers, their threads and their files, with the table's own        *)
(* invariant RequestInv.                                                   *)
DriveInv == DriveTypeOK /\ PlaceInv /\ ServerInv /\ FileInv

=============================================================================
