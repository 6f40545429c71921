----------------------------- MODULE AutoUpdate -----------------------------
(***************************************************************************)
(* The silent updater (daemon/AutoUpdate.m): a timer on a serial queue     *)
(* runs checkOnce, which fetches the latest release's version and hash,    *)
(* downloads, verifies and signs the binary in a temporary file, renames   *)
(* it over the live one and has launchd start that.  The three files       *)
(* survive the process; everything else is of the running one.             *)
(*                                                                         *)
(* CI stamps a binary with the tag of its release, so the stamp is the     *)
(* version a file holds.  Version 0 is the build installed by hand.        *)
(***************************************************************************)
EXTENDS Naturals

CONSTANT MaxVersion   (* releases CI publishes *)

ASSUME MaxVersionAssumption == MaxVersion \in Nat

VARIABLES
  latest,            (* the tag of releases/latest                         *)
  running,           (* MACOS_RDP_BUILD_VERSION of the running process     *)
  live, tmp,         (* what is at binPath and tmpPath; nobody reads a     *)
                     (* backup, so bakPath is left out                     *)
  updater,           (* where checkOnce is                                 *)
  remoteVer,
  hasActiveSession   (* RDPServer's flag: read here, written there         *)

fileVars   == <<live, tmp>>
updateVars == <<latest, running, fileVars, updater, remoteVer>>

-----------------------------------------------------------------------------
Version == 0 .. MaxVersion

(* What is at a path: damaged is a cut or wrong binary, whole one as it    *)
(* was published, signed one that launchd can start.                       *)
File == [state : {"absent", "damaged", "whole", "signed"}, version : Version]

Absent     == [state |-> "absent",  version |-> 0]
Damaged    == [state |-> "damaged", version |-> 0]
Whole(v)   == [state |-> "whole",   version |-> v]
Signed(v)  == [state |-> "signed",  version |-> v]

Runs(f) == f.state = "signed"

(* The last test is behind it.                                             *)
Committed == updater \in {"swap", "restart"}

UpdateTypeOK ==
  /\ latest \in Version /\ running \in Version /\ remoteVer \in Version
  /\ live \in File /\ tmp \in File
  /\ updater \in {"idle", "fetch", "test", "hash", "clear", "download", "verify",
                  "sign", "retest",
                  "swap", "restart"}
  /\ hasActiveSession \in BOOLEAN

UpdateInit ==
  /\ latest = 0 /\ running = 0 /\ remoteVer = 0
  /\ live = Signed(0) /\ tmp = Absent
  /\ updater = "idle"

-----------------------------------------------------------------------------
(* A push to master, published with its hash.                              *)
Publish ==
  /\ latest < MaxVersion
  /\ latest' = latest + 1
  /\ UNCHANGED <<running, fileVars, updater, remoteVer, hasActiveSession>>

Goto(from, to) == updater = from /\ updater' = to

(* checkOnce returns; the next tick starts all over.                       *)
Return(from) == Goto(from, "idle") /\ remoteVer' = 0

(* A step failed that has a temporary file to remove.                      *)
GiveUpAt(from) ==
  /\ Return(from)
  /\ tmp' = Absent
  /\ UNCHANGED <<latest, running, live>>

-----------------------------------------------------------------------------
(* tick.  On its serial queue it always finds checking = NO.               *)
Tick ==
  /\ Goto("idle", "fetch")
  /\ UNCHANGED <<latest, running, fileVars, remoteVer>>

(* getJSON, and the comparison: any other version is an update.            *)
FetchRelease ==
  /\ \/ latest = running /\ Return("fetch")
     \/ latest # running /\ Goto("fetch", "test") /\ remoteVer' = latest
  /\ UNCHANGED <<latest, running, fileVars>>

FetchFails ==
  /\ Return("fetch")
  /\ UNCHANGED <<latest, running, fileVars>>

FirstTest ==
  /\ \/ hasActiveSession /\ Return("test")
     \/ ~hasActiveSession /\ Goto("test", "hash") /\ UNCHANGED remoteVer
  /\ UNCHANGED <<latest, running, fileVars>>

(* The binary asset's URL and a hash, of the asset or the release's body.  *)
FetchHash ==
  /\ Goto("hash", "clear")
  /\ UNCHANGED <<latest, running, fileVars, remoteVer>>

HashFails ==
  /\ Return("hash")
  /\ UNCHANGED <<latest, running, fileVars>>

(* Faulty: a temporary file left behind means an update is on.             *)
ClearYields ==
  /\ \/ tmp = Absent /\ Goto("clear", "download") /\ UNCHANGED remoteVer
     \/ tmp # Absent /\ Return("clear")
  /\ UNCHANGED <<latest, running, fileVars>>

(* Whatever an earlier process left at tmpPath goes.                       *)
Clear ==
  /\ Goto("clear", "download")
  /\ tmp' = Absent
  /\ UNCHANGED <<latest, running, live, remoteVer>>

(* What arrives with status 200 may still be anything.                     *)
Download ==
  /\ Goto("download", "verify")
  /\ tmp' = Whole(remoteVer)
  /\ UNCHANGED <<latest, running, live, remoteVer>>

DownloadDamaged ==
  /\ Goto("download", "verify")
  /\ tmp' = Damaged
  /\ UNCHANGED <<latest, running, live, remoteVer>>

(* Faulty: the hash is computed and not compared.                          *)
VerifyAccepts ==
  /\ Goto("verify", "sign")
  /\ UNCHANGED <<latest, running, fileVars, remoteVer>>

(* The hash of the file is that of the release.                            *)
Verify ==
  /\ tmp = Whole(remoteVer)
  /\ Goto("verify", "sign")
  /\ UNCHANGED <<latest, running, fileVars, remoteVer>>

VerifyFails == tmp # Whole(remoteVer) /\ GiveUpAt("verify")

(* codesign has rewritten it in place and verified it; chmod succeeded.    *)
Sign ==
  /\ Goto("sign", "retest")
  /\ tmp' = IF tmp = Whole(remoteVer) THEN Signed(remoteVer) ELSE tmp
  /\ UNCHANGED <<latest, running, live, remoteVer>>

(* Faulty: only the start of the check looks for a session.                *)
NoSecondTest ==
  /\ Goto("retest", "swap")
  /\ UNCHANGED <<latest, running, fileVars, remoteVer>>

(* A client may have connected during the download.                        *)
SecondTest ==
  \/ hasActiveSession /\ GiveUpAt("retest")
  \/ /\ ~hasActiveSession /\ Goto("retest", "swap")
     /\ UNCHANGED <<latest, running, fileVars, remoteVer>>

(* The old backup is replaced, or cannot be, which is logged; rename(2).   *)
Swap ==
  /\ Goto("swap", "restart")
  /\ live' = tmp /\ tmp' = Absent
  /\ UNCHANGED <<latest, running, remoteVer>>

Fails ==
  \/ FetchFails \/ HashFails \/ VerifyFails
  \/ \E from \in {"download", "sign", "swap"} : GiveUpAt(from)
  \/ DownloadDamaged

(* checkOnce up to restart, which ends the process.                        *)
CheckOnce ==
  /\ \/ Tick \/ FetchRelease \/ FirstTest \/ FetchHash \/ Clear \/ Download
     \/ Verify \/ Sign \/ SecondTest \/ Swap \/ Fails
  /\ UNCHANGED hasActiveSession

(* The queue is gone with its process; the files stay.                     *)
AbandonCheck ==
  /\ updater' = "idle" /\ remoteVer' = 0
  /\ UNCHANGED <<latest, running, fileVars>>

(* launchd starts what is at binPath.                                      *)
LaunchBinary ==
  /\ Runs(live)
  /\ running' = live.version
  /\ UNCHANGED <<latest, fileVars, updater, remoteVer>>

=============================================================================
