# A TLA+ model of macos-rdp-server

An RDP server for macOS: a daemon that accepts RDP clients, gives the one that
authenticated last a virtual display, streams it as H.264, and redirects input,
clipboard, audio and drives. This directory holds TLA+ modules for the parts of
it that run concurrently or keep a protocol, the TLC configurations that check
them, and TLAPS proofs of what matters most.

## The system

| Part (source) | State it keeps | Operations | Hard behaviour |
|---|---|---|---|
| Server registry (`daemon/RDPServer.m`) | `_sessions`, `_activeSession`, `_running`, the flag behind `+hasActiveSession` | accept, stop, activation request (takeover), `sessionDidEnd` | requests of several sessions interleave around two critical sections; a wait of 10 s that may time out; late `sessionDidEnd` blocks |
| Session (`daemon/RDPSession.m`) | `_sessionState`, `_activated`, the peer, display, media, the teardown semaphore | `setupAndRun`, `disconnect`, `waitForTeardown`, `teardown` | the state is written by two threads without a lock; blocking waits on other sessions' queues |
| Frames: peer's graphics, encoder, capture (`protocol/RDPPeer.c`, `display/FrameEncoder.m`, `display/ScreenCapture.m`) | `gfxReady`, `sentKeyframe`, `keyframeRequested`, `outputSuppressed`, `_forceNextKeyframe`, the compression session, the last surface | capability advertise, suppress/restore, send; feed, encode, emit; start and stop of all three | capture queue, encoder callback and peer loop race around the keyframe gate; asynchronous start and stop |
| Clipboard (`protocol/RDPPeer.c`, `input/ClipboardSync.m`) | requested format, outgoing buffer, last change count | format list, data request and response, poll | the pasteboard has no lock: applications, poll timer and peer loop meet on it; echo suppression; copies cross on the wire |
| Peer, drives (`protocol/RDPPeer.c`, `protocol/RDPWebDAV.c`) | table of pending requests, devices, WebDAV connections | handshake, request, completion, mount, unmount | connection threads wait for answers of the peer loop; time-outs race late answers; table full; ids wrap |
| Peer, audio (`protocol/RDPPeer.c`, `audio/*`) | negotiated format, resampler phase, ring | activate, capture, play | numeric edges; stop against callbacks |
| Display control (`daemon/DisplayControl.m`) | saved brightness, the event tap | start (dim), stop (undim), local activity | one panel, saved and restored by one session after another and by the tap's callback; it outlives the process |
| Updater (`daemon/AutoUpdate.m`) | the live binary, its temporary file | check, download, verify, sign, swap, restart | tests for a session, then swaps and exits; a crash at any step |
| Daemon entry point (`daemon/main.m`) | the process | start, signal, exit; launchd starts it again | ends with sessions, updater and panel in the middle of anything |
| Input, cursor, authentication, mounts, logging | almost none | translation, single calls | boundary values |
| GUI, HID driver, scripts | outside the daemon | | |

Interaction: the accept queue creates sessions; each session runs on its own
serial queue and calls the server's activation request there; the server calls
`-disconnect` on other sessions and blocks on their semaphore; `endWithError`
queues `sessionDidEnd` on a global queue; the updater polls `hasActiveSession`
from its own thread; capture, encoder, audio and clipboard threads call into
the peer that the session's queue owns; WebDAV connection threads send device
requests through the peer and are woken by the peer loop.

## Modules

| Module | Models | Kind |
|---|---|---|
| `RDPSession` | `daemon/RDPSession.m`: one connection's serial queue | component |
| `RDPServer` | `daemon/RDPServer.m`, EXTENDS `RDPSession`: registry and takeover, with all sessions | composition |
| `DisplayOwnership` | what the server promises the rest of the daemon: one owner at a time, each session at most once, and a flag that falls only when nobody claims or owns the display | abstract specification |
| `RDPServerProofs` | theorems about `RDPServer` for any set of sessions | proofs |
| `MCRDPServer` | bounds for TLC | model checking |
| `DeviceRequests` | the pending table of `protocol/RDPPeer.c` and the `IrpWaiter` of `protocol/RDPWebDAV.c` | component |
| `RemoteCall` | what table and waiters promise a calling thread: every call ends once, answered only by its own answer | abstract specification |
| `DriveRedirection` | the RDPDR handshake, announcements, WebDAV threads, mounts and `context_free`, EXTENDS `DeviceRequests` | composition |
| `DeviceRequestsProofs` | theorems about `DeviceRequests` for any number of callers, waiters and slots and any id width | proofs |
| `DriveRedirectionProofs` | theorems about `DriveRedirection` for any number of servers, drives and requests | proofs |
| `MCDeviceRequests`, `MCDriveRedirection` | bounds for TLC | model checking |
| `FramePipeline` | `display/ScreenCapture.m`, `display/FrameEncoder.m` and the graphics channel of `protocol/RDPPeer.c`, for one session | component |
| `FramePipelineProofs` | theorems about `FramePipeline` for any number of frames in the encoder | proofs |
| `AutoUpdate` | `daemon/AutoUpdate.m`: `checkOnce` and the files it works on | component |
| `DisplayControl` | `daemon/DisplayControl.m`: privacy dimming of the built-in panel | component |
| `Daemon` | `daemon/main.m` and launchd, EXTENDS `AutoUpdate` and `DisplayControl`, INSTANCE `DisplayOwnership` for the server | composition |
| `DaemonProofs` | theorems about `Daemon` for any sessions, releases and deaths | proofs |
| `Clipboard` | the clipboard channel of `protocol/RDPPeer.c` and `input/ClipboardSync.m`, with the client and Mac applications | component |
| `ClipboardProofs` | theorem about `Clipboard` for any number of copies: what the client is offered | proofs |
| `ClipboardFollowProofs` | theorems about `Clipboard`: pastes and the client's text | proofs |

### RDPSession and RDPServer

`pc[s]` is the place of session `s`'s serial queue: `idle` (no connection yet),
`accepted`/`queued` (before `setupAndRun`), `loop`/`peer` (the `while` test and
the body of the poll loop), `authenticated`/`claim`/`supersede`/`wait`/`recheck`
(inside `sessionDidAuthenticateAndRequestActivation`), `create`/`control`/`media`
(the rest of `setupDisplayAndMediaForWidth`), `stop`/`undim`/`destroy`/`free`/
`signal` (teardown, one blocking call each) and `done`. `sessionState`,
`activated`, `teardownSem` are the ivars; `display` is the display the session
captures (`virtual`, or `main` when `VirtualDisplay create` failed); `held`
stands for the peer, the display control and the media objects; `ending` holds
the sessions whose `sessionDidEnd` block is queued. A reader may follow one
takeover as: `Claim` (first critical section) - `DisconnectPrevious` - either
`TeardownObserved` or `WaitTimesOut` - `Recheck` (second critical section).

Each `@synchronized` block is one action; everything outside a lock is a step
of its own, so `_running` is read in one step and `_activeSession` claimed in a
later one. `BecomeActive`, `SetupAndRun` and `Disconnect` are plain stores, as
in the code. A wait may time out whenever the semaphore has not been signalled
(time is not modelled: ten seconds are as long as any other queue takes), and
the watchdog may fire whenever the state is still Negotiating.

`phase` combines `_running` with the progress of `-stop`: `stopping` after
`_running` is cleared, `stopped` after the critical section. `claimed`,
`before` and `overran` are history variables; no action reads them.

Definitions that begin with the comment "Faulty:" are variants of the action
that follows them, each with a plausible mistake. No specification uses them;
they show that a property can tell the code from that mistake.

### DeviceRequests and DriveRedirection

A WebDAV thread that needs something from the client calls `irp_send_wait`:
`irp_waiter_alloc` (two references, one for the callback), a send helper under
`xportLock` (`Send`, `TableFull`, `WriteFails`; the table slot is taken by
`rdpdr_alloc_request` inside), `irp_waiter_wait` (`CheckDone`, `Woken`,
`TimedOut`) and `ReadResult`. The peer loop holds `xportLock` while it handles
messages: `Completion` finds the slot by the answer's id, frees it and runs the
callback's first critical section; `CallbackUnref` is the second one.

* A critical section of `xportLock` or of a waiter's mutex is one action. The
  callback is two, and keeps `xportLock` between them (`callback # None`, which
  is what `xportLockFree` tests). `TimedOut` and `ReadResult` stand for two
  sections of the waiter's mutex each: the second only drops the caller's
  reference, and whoever drops the last one frees the waiter in either order.
* `heap` is the memory of the waiters; `refs = 0` is free memory. A use after
  free or a second free would show as a count that disagrees with the
  references (`WaiterLifetime`).
* `outstanding` holds what the client still may answer, in any order and as
  late as it likes. An entry carries its `caller` and `waiter` so that
  properties can tell whose answer arrived; no action but the recording of it
  reads them.
* `reused` is a history flag. The ids are 32 bits wide, the counter wraps, and
  nothing stops the code from issuing an id that a slot has held since 2^32
  requests. The properties say what holds until then.

`DriveRedirection` adds who calls. `thread[c]` is where a server's accept
thread is, `job[c]` the handler it runs: the method and, through `NextOps`, the
sequence of device requests of `handle_propfind`, `handle_get`, `handle_put`,
`handle_delete` and `handle_mkcol`, including which request follows one that
failed. `loop` is the place of the peer's thread: `poll`, then inside an
announcement `create` (lock released), `mount` (lock held, waiting for the
mount command) and `probe` (capacity query, reply, next drive), and after the
session `unmount`, `destroy`, `join`, once per server, and `freed`. `mounter`
is the mount command's own request to the new server. `file` and `failed` in a
job, and `announced`, are there for properties and bounds: whether the client
holds a file open for the handler, whether one of its CREATE or CLOSE requests
went without an answer or a CREATE's answer came without the file id, and which
drives the client has announced.

An answer is the client's status and whether its payload is usable (`Result`):
the client may send none or one too short, and `irp_waiter_cb` drops it when it
finds no memory for the copy. The file at the client follows the status alone
(`IoCompletion`); the handler goes on as if it had succeeded only with the
payload it needs (`Succeeded`). So a CREATE can succeed at the client and be
reported as a failure, and then nobody knows the id that a CLOSE would need.
`FilesClosed` speaks of handlers to which neither that nor an unanswered CREATE
or CLOSE has happened.

### FramePipeline

Three threads, each with a variable for its place: `capture` (the capture
queue, inside `encodeFrame`), `sender` (VideoToolbox's output thread, inside
`rdp_peer_send_h264_frame`) and `loop` (the session's queue: `out` of or inside
a handler, then the steps of `teardown`). The gate's flags are read and written
without `xportLock`, so every access is an action: `TestReady` - `TestGate` -
(`MarkSent` - `ClearRequest`) or (`Ask` - `AskEncoder`) - `SendOK`, against
`CloseGate` - `Demand` - `DemandEncoder`, which end both
`gfx_caps_advertise` and the restore.

`vt` holds the frames submitted to VideoToolbox, with whether each was forced to
be a keyframe; `idrDue` says that a new session's first frame is one. Any frame
may be a keyframe, and any may be lost (`Lose`: the callback gets an error).
`session` tells NULL from a session that has been released and not yet set to
NULL; a use of that one is refused, or kills the process, which ends the
behaviour. `content` follows the asynchronous start of the stream and its
asynchronous stop.

`picture` is what the client can show: a delta needs every frame since the last
keyframe, so a frame that is not sent leaves a `gap`, and the next delta sent
after that makes it `corrupt`. `keyLost`, `sendFailed` and `raced` are history
variables that name the three causes the code cannot exclude.

### AutoUpdate, DisplayControl and Daemon

`AutoUpdate` follows `checkOnce` step by step (`updater`), with what is at the
live and the temporary path: absent, damaged, as published, or signed.
Downloads, hashes, signing and the rename may fail, each with the code's clean-up. A
backup is never read, so it is left out.

`DisplayControl` has one `panel` and, for each session, the place of its
control, what it read (`original`, then `_savedBrightness`) and what a callback
of the event tap is about to set (`tap`): the callback reads the saved
brightness and sets it in two steps, and `stop` may come between them. `spoiled` is a
history flag: a restore failed, or a process ended with the panel dark.

`Daemon` puts them in one process. Its server is not `RDPServer` again, which
would multiply the states, but exactly what that module is proved to implement:
the actions of `DisplayOwnership`, which says who claims and owns a display and
when `hasActiveSession` rises and falls. Theorem `Refines` maps `RDPServer` to
the same module, so nothing is assumed of the server in `Daemon` that has not
been proved of it: a claim may still succeed while `main` stops the server, and
a claimant may time out while nobody owns the display, because in `RDPServer`
both happen. `Die` is everything the end of a process loses, at any
step of anything: by a crash, by SIGTERM (`Signalled`, `MainReturns`), or by
the updater's restart. The panel, the files and the releases remain, and `Relaunch` is
launchd's KeepAlive. A session id may be used again in the next process. The
desk user turns a dark panel up when nobody is logged in from afar.

### Clipboard

A copy is a record of who made it, which one it is, and what it can be had as
(text, ANSI text, PNG, other, or text decoded in the wrong format); the code
sees only formats. `board` is the pasteboard with its change count and its last
owner, `clientBoard` what the client has, its own or offered by the Mac. The two
channels are FIFO, as TCP is. `loop` is the place of `receiveFromClient`, whose
clear, set and note are three steps (the loop thread holds `xportLock` all the
while: `LoopIdle`), `poll` the place of `pollPasteboard` and
`rdp_peer_send_clipboard`: the count is read, compared, stored; the item read;
`held` swapped in one locked section and the format list sent in another. Mac
applications clear and write in two steps, as NSPasteboard has it.

`raced` is a history variable: the client's items whose receipt overlapped a
poll. Only those come back to the client (`NoBounce`); the run shows that they
do. `rdp_peer_send_clipboard` never asks the client for anything but text, so
images travel from the Mac only; the README of the repository promises both
ways, which the code does not attempt.

What the model makes visible and no property forbids: a client's text can be
sent back to it when a poll overlaps its receipt, twice even, since the poll
then stores an older count over the noted one; a copy made on the Mac between
`clearContents` and the note of the count is never seen by a poll; a copy polled
between an application's clear and its write is not sent; a copy held back
before the channel is ready is not advertised later; and when both sides copy at
once the two clipboards may swap.

## Runs

| Run | Question | Bounds |
|---|---|---|
| `takeover` | Does the takeover keep one owner at a time, in claim order, with a truthful flag, one waiter per semaphore and no circular wait? Does it implement `DisplayOwnership`? | three interchangeable connections (symmetry), every interleaving, stop at any time |
| `takeover_liveness` | Is every claim decided, every superseded waiter and every half-open client ended, every ended session forgotten? | three connections that arrive one by one, no stop, virtual displays (`LiveSpec` in `MCRDPServer` names the three bounds) |
| `lost_disconnect` | Is `-disconnect` always honoured, as `RDPSession.h` says? No. | two connections, fair, no stop |
| `claim_after_stop` | Is the request refused while the server stops, as its comment says? Not always. | two connections |
| `device_requests` | Do table, waiter and callback keep the reference counts, the slots and the calls straight, with time-outs, late answers, a full table, failed writes and ids that wrap? Do they implement `RemoteCall`? | three callers, four waiters, two slots, ids 1 to 3; `UntilReuse` cuts what follows the first reuse of a pending id, `PayloadThere` what follows an answer without its payload, on which nothing in this module depends |
| `drives` | Do handlers close the files whose ids they got, do threads never outlive their server, and is no live server overwritten by a second announcement? | two servers, two drives announced at once or one after the other, one request slot, at most two HTTP requests besides the mount's own, one 64 KB chunk, one handler at a time (`OneHandler`) |
| `drives_liveness` | Does every handler end, and does the end of a session reach `context_free`'s end, whatever the client answers? | one server, one request slot, at most three HTTP requests besides the mount's own |
| `mount_under_lock` | May the mount call back into device requests, as the comments say? No. | one server, the mount's own requests only |
| `shared_path` | Does a CREATE carry its own handler's path? No. | two servers, two requests |
| `frames` | Does a closed gate always get its keyframe, does the client decode garbage only for a named cause, and only once, does a black window heal, is the peer free of senders when it is destroyed? | one session from start to teardown, two frames in the encoder |
| `daemon` | Does the live binary always run, the panel come back, the dark stay dark, the updater spare sessions, and the Mac end up with the latest release? | two sessions, one release, one crash or signal (besides the updater's own restart) |
| `clipboard` | Is the client offered what the peer holds, and not what it copied itself (`FollowInv`); is no paste refused for nothing and no text left garbled; do copies reach the other side? | two copies on each side, three together, any number of pastes |

Three connections are the least with an owner, a successor waiting for it and a
third client that supersedes the successor while it waits; a session never acts
on more than one other session (its `previous`), and the proofs cover any number.

`AtMostOneDisplay`, `OwnersInClaimOrder`, `FlagCoversClaim` and the refinement
hold while the protocol is `Orderly`: no wait has timed out (the code logs
"proceeding anyway (display may briefly conflict)") and stop has not dropped the
registry. `OneWaiterPerSession`, `NoWaitCycle` and `OnlySuccessorDisconnects`
need no such condition.

For the request table, three callers and two slots are the least at which the
table is full while a further caller is between its registration and its wait;
a fourth waiter gives a caller that has timed out a fresh one while the old one
is still in a slot. Three ids against two slots make the counter wrap and let an
id come round again while its slot is taken, which is where `reused` is set.
With one slot and two ids (`drives`, `drives_liveness`) an id never is reused
while pending, so those runs need no constraint. Handlers of two servers share
nothing but the table (covered by `device_requests`) and the path buffer
(`shared_path`), so `drives` lets one run at a time; the announcement and the
teardown still interleave with it at every step. `CHECK_DEADLOCK FALSE` stands in
the drive runs because a session ends and its context is freed; in
`device_requests` a caller may always start another call, and deadlock is checked.

Two frames in the encoder are one that was submitted before a request and the
forced one after it; the queue's length enters no other guard. In `daemon` two
sessions are an owner and a successor, and session ids are free again in the next
process; one release makes an update, and one death besides the updater's can
hit every step of it. Three copies are two on one side crossing one on the
other: a second list replaces the format that the answer to the first is decoded
with, and a poll overlaps a receipt with an older copy in hand. `frames` has
`CHECK_DEADLOCK FALSE` because a session ends; `daemon` and `clipboard` check for
deadlock.

### Fairness

`Fairness` asks that every serial queue with an enabled step takes one
(dispatch queues run; every blocking call in the model returns: the wait has a
deadline, teardown's calls end), that queued `sessionDidEnd` blocks run, that
`stop` finishes, and that the negotiation deadline passes (strong fairness: the
loop visits the test again and again and the clock advances). Clients owe
nothing: a connected client may idle in its loop for ever, so `PeerIdle`
satisfies the queue's fairness.

`DriveFairness` asks that accept threads run and their waits' deadlines pass,
that a thread that asks for `xportLock` gets it (strong fairness: the loop
gives the lock up after every message), and that the peer's thread goes on.
Two of its parts are assumptions about the system outside `src/`: a mount
command exits in the end, with or without an answer, and an `accept` on the
closed listening socket fails. The client owes no answer. A local HTTP client
that connects and then sends nothing is outside the model: the connection's
first read has been done when `handle_connection` starts.

In `frames`, threads that can go on do (weak), the heartbeat timer ticks, not
every surface it feeds is refused by `CVPixelBufferCreateWithIOSurface`, the
encoder does not lose every frame and a sender waiting for `xportLock` gets it
(strong: the loop sleeps outside the lock). The client owes nothing, the
stream delivers no frame of its own (`didOutputSampleBuffer` has no fairness),
so `BlackHeals` rests on the heartbeat alone.

In `daemon`, the updater's timer ticks, `main` and launchd go on, and the steps
of an update that depend on the network, codesign or the disk succeed if tried
again and again (strong). `UpdateSettles` is conditional on clients leaving the
Mac alone in the end: an updater that meets a session at every check never
installs anything, as intended.

In `clipboard`, the poll timer, the peer loop and the client's reading go on
(weak), and the poll's thread gets `xportLock` between two PDUs (strong). A copy
for which `rdp_peer_send_clipboard` finds no memory is never offered (`Skipped`):
the poll has noted its count, and tries again with the next copy only.
`ClipboardsFollow` excludes it.

## Findings

* `lost_disconnect`: `RDPSession.m:306` stores Active without looking at the
  state. If a newer client claims the display while a session starts its
  encoder, capture and audio, the newer session's `-disconnect` is overwritten;
  the old session keeps running, the newer one waits ten seconds in vain and
  brings up a second display. The header promises that the state "goes to
  Disconnecting so the peer run loop exits and teardown runs".
* `claim_after_stop`: `_running` is tested before the lock is taken. A request
  past the test becomes the active session after `-stop` has emptied the
  registry, and gets YES; the comment says it "Returns NO if the server is
  stopping".
* `mount_under_lock`: the loop thread releases `xportLock` to create the
  server, takes it again and only then calls `rdp_webdav_mount`, which forks
  the mount command and waits for it. The mount's first PROPFIND needs the
  lock to send its CREATE and the loop to complete it, and gets neither until
  the command gives up. The comment at `RDPPeer.c:1894-1895` releases the lock
  because the start "may need to call back into IRPs".
* `shared_path`: `url_to_rdpdr_path` returns a static buffer. Every server has
  its own thread, and the buffer is read again under `xportLock` when the
  CREATE is sent, so with two drives a request can go out with the path of the
  other drive's request.

## Proofs

`RDPServerProofs` proves, for every finite or infinite set `Session` and any
`None` outside it (the only assumption, `NoneAssumption`), `TypeOK`,
`AtMostOneDisplay`, `OwnersInClaimOrder`, `FlagCoversClaim`,
`OneWaiterPerSession`, `NoWaitCycle`, the action property
`OnlySuccessorDisconnects` and the refinement `KeepsPromise`.

None of these is inductive. The inductive invariant is `TypeOK` with
`ClaimOrderInv`, four parts that each have a lemma with one step per action:

* `LocalInv`: what a queue's place says about its own session (a session that
  owns a display is activated and between `control` and `destroy`; a signalled
  semaphore belongs to a session that is done; ...).
* `OrderInv`: `before` is a strict total order on the claimed sessions, the
  `previous` of a session is the claimant right below it, and the active
  session is on top. This is what makes a takeover chain out of pairwise waits.
* `TurnInv`: while orderly, a claimant that is past its wait finds everyone
  before it done, and no claim is alive when `_activeSession` is nil. The wait
  covers only the direct predecessor; that it is enough follows from `OrderInv`
  and from the predecessor having waited itself.
* `RegistryInv`: the flag mirrors `_activeSession`, and every session on its
  way is in `_sessions`.

An owner is past its wait (`OwnerAfterDone`), so everything before it is done
and holds nothing; two owners would be ordered one way or the other. Two
waiters for one session would both sit right above it.

`NoWaitCycle` speaks of every nonempty set of sessions, of any size. If all of
them waited for one another, the sets of sessions that claimed before each would
descend for ever (`WaitsDescend`); but they are finite, since each step adds at
most one claim (`FinitelyManyClaims`), and strict inclusion of finite sets is
well-founded (`FS_StrictSubsetOrderingWellFounded` and `WFMin` of the library).

The refinement maps `Claim` to `Claim`, `CreateDisplay` to `Acquire`,
`DestroyDisplay` to `GiveUp`, the end of a claimant's teardown to `Withdraw`, the
`SessionDidEnd` of the active session to `LowerFlag`, a timed-out wait to
`Contest`, the stop to `Stop`, and everything else to stuttering. That
`LowerFlag` finds nobody left who claims or owns the display is where `TurnInv`
and `OrderInv` are needed: the active session is on top of the order, and once it
is done everybody below it is.

`DeviceRequestsProofs` proves, for any `Caller`, `Waiter`, `Operation` and
`Status`, any `Slots >= 1` and `IdLimit >= 2` (`TableAssumption`: NULL is none of
them), `TypeOK`, `RequestInv`, `WaiterLifetime`, `SlotsMatchRequests` (a conjunct
of `RequestInv`, which the run checks) and the refinement `CallsKeepPromise`.

The reference count of a waiter only makes sense together with who owns each
reference, so the inductive invariant `RequestInv` is `TypeOK` with, until a
pending id is reused,

* `OwnershipInv`: a waiter in use belongs to at most one caller, one slot and
  one callback; ids of taken slots differ;
* `CountInv`: `refs` is the number of those that refer to it;
* `HandOverInv`: the callback's reference moves from the caller (before the
  send) to one slot to the running callback, so a caller that finds `done` after
  a refused send knows that it has only its own to drop;
* `AnswerInv`: what a waiter holds as an answer is the answer to the request of
  the caller that owns it;
* `SlotsMatchRequests` itself, without which a completion could find no slot.

`WaiterLifetime` follows from the count, and the refinement maps `Completion`
to `Serve`, `ReadResult` to `Return` or `GiveUp`, time-outs and refusals to
`GiveUp`, and the rest to stuttering. The step lemmas follow the actions one by
one; `RegisterAndFreeUndoes` states what a registration that is taken back at
once leaves behind, and both `WriteFails` and `ProbeFails` rest on it.

These results hold until a pending id is issued again (`~reused`).
`NoReuseBeforeWrap` says when that cannot happen: as long as the counter has not
come to its limit (`BeforeWrap`), every id in the table is at most
`rdpdrNextReqId` and the next one is above it. So in a session of fewer than
2^32 - 1 requests the invariants hold without reservation (`SoundBeforeWrap`),
and the table implements `RemoteCall` itself (`RefinementBeforeWrap`).

`DriveRedirectionProofs` proves, for any number of servers and any drives, lists,
chunks and HTTP requests (`DriveAssumption`: the servers are numbered from 0, the
seven operations exist, an announced list is not empty), that every step of
`DriveRedirection` is a step of `DeviceRequests` or leaves it alone
(`DrivesUseTable`), and with that `DriveInv`, which is inductive together with
`RequestInv`, and from it `ThreadsHaveServer`, `NoServerLost` and, until a pending
id is reused, `FilesClosed`. That a handler leaves no file open needs the way of
an answer to it: `FileInv` says that requests open at the client for a waiter are
its handler's own, that the status in a waiter agrees with the file at the
client (`Agrees`), and so does the status the handler has read. Of the payload it
says nothing: a handler that misses the file id is marked as one that has lost
track of its file (`Unknown`). `EndsAfter` says that `NextOps` ends a handler only
after a CLOSE or a CREATE that it takes for a failure, and a failure that is not
`Unknown` is one at the client as well.

Through `DrivesUseTable` what is proved of the table holds with the real
callers: `CallsOfDrives` is the promise to the handlers and the lifetime of
their waiters, `DrivesBeforeWrap` the same and closed files without reservation
before the ids wrap. `HandlersShrink` bounds a handler: `Rank` counts the device
requests it can still make, at most 4 + `MaxChunks`, and every request that
returns, answered or not, lowers it. With that, `JobEnds` needs fairness only for
each single step, which is what TLC checks.

`FramePipelineProofs` proves, for any `MaxInFlight >= 1`, `FrameInv` and from it
`KeyframeOnItsWay`, `UndecodableOnlyFromRace`, `PeerOutlivesSends` and
`OneStaleFrame`. The first two are not inductive: `KeyframeOnItsWay` needs to
know that a keyframe past the gate, whose restore has closed it again, has
another one behind it (`KeyBehind`); `UndecodableOnlyFromRace` needs what an
open gate says of the client's picture (`OpenGate`) and what a delta that has
passed it knows (`PassedDelta`).

`DaemonProofs` proves, for any `Session`, `MaxVersion` and `MaxDeaths`,
`DaemonInv` and from it `LiveBinaryRuns`, `PanelRestored`, `UpdaterSparesOwner`
and the action property `PrivacyHeld`. `PanelRestored` follows from what every
control has read being the user's own brightness (`ReadsTheUsers`), which holds
because controls work one after the other (`OneOwner`, from
`DisplayOwnership`); `LiveBinaryRuns` from what the temporary file holds at each
step (`TempFile`); `UpdaterSparesOwner`, which covers claimants as well as
owners, from the flag being up for every claim that is older than the last test
(`FlagCovers`).

`ClipboardProofs` proves `OfferInv` for any numbers of copies. Its parts are
inductive together: `OfferIsHeld` speaks of the last list in the queue to the
client, so the lemmas `AppendOther`, `AppendList` and `LastOfTail` say what
sending and reading do to that; `NoBounce` rests on `EchoInv`, that a client's
item on the pasteboard which no poll has met has its count noted, or is about
to, and that no poll is past its comparison.

`ClipboardFollowProofs` proves `FollowInv`, which adds `PasteInv` and `TextInv`,
and from it `RefusedForNewer` and `GarbledIsReplaced`.

* `PasteInv`: that what the client was refused is not held again needs to know
  that it cannot be swapped in again (`RefusalInv`), which needs that an offered
  copy of the Mac's that has been swapped out has also left the pasteboard
  (`SupersededInv`), that a copy an application is about to write is nowhere yet
  (`FreshInv`), that one paste is answered at a time and none after the client's
  own text (`OnePasteInv`), and who made what is where (`OriginInv`).
* `TextInv`: the peer decodes the client's text in the format of its last
  request, which the client's next list may have replaced meanwhile. As long as
  the client has text of its own, its list, the request for it or the text in
  the right format is on its way, or nothing here is garbled (`TextIsComing`); of
  several lists, requests or answers under way only the last counts
  (`LatestIs`).

Only model-checked: the liveness properties (liveness under fairness is out of
the prover's reach), on the instances of their runs: `ClaimIsDecided` and the
others of `takeover_liveness`, `JobEnds` and `ContextIsFreed`, `BlackHeals`,
`UpdateSettles`, and `ClipboardsFollow`. Every invariant and every action property of a passing run is
proved.

## Assumptions about code outside src/

* VideoToolbox emits frames in the order they were submitted, one at a time;
  `VTCompressionSessionCompleteFrames` returns when all are out, and
  `VTCompressionSessionInvalidate` after the callback in progress; a client
  takes part in one capability exchange.
* `rename` is atomic; CI stamps a binary with the tag of its release;
  `kickstart -k` ends the process or `exit(0)` does.
* The handlers of one dispatch timer do not overlap; whether the event tap's run
  loop is ever serviced is left open (`TapFires` has no fairness).
* `clearContents` moves the pasteboard's change count, and a writer that is not
  the last to have cleared it is refused.
* A client answers a format data request with what it has at that moment, and
  reads its channel in order.

## Not modelled

The audio channels, capture and input (their concurrency is that of the media
threads against teardown, see below; the rest is numeric: the resampler's phase
and the ring's indices), the cursor and input injection (stateless translation
of single events), the authenticator (one call), the socket set-up, logging, the
GUI (a separate process that edits a plist and calls `launchctl`), the HID driver
(not used by the daemon), the file provider skeleton, build and installation
scripts. `PROJECT.json` gives each part's reason.

Of the drives: reading and parsing HTTP, XML and the bodies of responses;
a socket error in the middle of a handler. Four things no property judges,
listed as hazards: a file that the client opens for a CREATE which has been
given up stays open, and so does one whose id does not reach `open_file`; requests pending at the end of a session keep
their callback's reference for ever; a drive announced in a second list gets no
server, because the slots are counted from 0 again and the port is taken.

Of the frames: `rdp_peer_send_bitmap`, which nothing calls, and the encoder's
bit rate. Of the daemon: a release whose binary is not stamped with its tag,
which would restart the daemon at every check; power assertions. Of the
clipboard: more than one session (the pasteboard is shared by the sessions of a
takeover, one of which is being torn down), and the life of the peer under the
poll's thread.

## Plan

Done: takeover and sessions; device requests and drives; frames; the daemon with
its updater and display control; the clipboard. What is left, in this order:

1. `PeerLifetime`: which of the clipboard, audio and cursor threads may still use
   the peer when it is freed. `PeerOutlivesSends` settles it for the encoder's
   thread.
2. Proofs of the parts of the liveness properties that do not rest on fairness,
   as `HandlersShrink` is for `JobEnds`: a rank for a session's way from its claim
   to `done`, for `context_free`, for `checkOnce`, and for an open request for a
   keyframe.
3. Abstract specifications for the frame gate (a client's picture: none, whole,
   torn) and for the updater (one live release at a time), with refinements.
4. Pure functions against references: resampler phase, wheel deltas, scan codes,
   dirty rectangles.
