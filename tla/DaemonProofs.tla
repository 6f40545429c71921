---------------------------- MODULE DaemonProofs ----------------------------
(***************************************************************************)
(* DaemonInv is an inductive invariant of Daemon, for any set of sessions  *)
(* and any number of releases and deaths.  The proof follows the threads:  *)
(* the server and the display controls cannot touch the files, nor the     *)
(* updater the panel, and the death of the process resets all but both.    *)
(***************************************************************************)
EXTENDS Daemon, TLAPS

USE MaxVersionAssumption, MaxDeathsAssumption

(* The two halves of the invariant, and what they share.                   *)
ServerOK ==
  /\ phase \in {"down", "up", "stopping"}
  /\ owners \in SUBSET Session /\ retired \in SUBSET Session
  /\ contested \in BOOLEAN
  /\ claimants \in SUBSET Session /\ late \in SUBSET Session
  /\ deaths \in 0 .. MaxDeaths
  /\ hasActiveSession \in BOOLEAN

VersionsOK ==
  /\ latest \in Version /\ running \in Version /\ remoteVer \in Version
  /\ updater \in {"idle", "fetch", "test", "hash", "clear", "download", "verify",
                  "sign", "retest", "swap", "restart"}
  /\ remoteVer <= latest

FilesOK ==
  /\ live \in File /\ tmp \in File
  /\ updater = "sign" => tmp = Whole(remoteVer)
  /\ updater \in {"retest", "swap"} => tmp = Signed(remoteVer)
  /\ LiveBinaryRuns

PanelOK == DisplayTypeOK /\ OneOwner /\ ReadsTheUsers /\ PanelRestored

LEMMA Halves == DaemonInv <=> ServerOK /\ VersionsOK /\ FilesOK /\ PanelOK /\ FlagCovers
BY DEF DaemonInv, TypeOK, UpdateTypeOK, ServerOK, VersionsOK, FilesOK, PanelOK, TempFile

ServerStep ==
  \/ \E s \in Session : Claim(s) \/ Acquire(s) \/ DestroyDisplay(s)
  \/ LowerFlag \/ ClaimEnds

PanelStep ==
  \/ \E s \in Session : StartControl(s) \/ RunControl(s) \/ StopControl(s)
  \/ DeskUserBrightens

Death == UpdaterExits \/ Crash \/ MainReturns

-----------------------------------------------------------------------------
LEMMA SplitNext ==
  ASSUME [Next]_vars
  PROVE  \/ ServerStep \/ PanelStep \/ Update \/ NewRelease \/ Death
         \/ Signalled \/ Relaunch \/ UNCHANGED vars
BY DEF Next, Serve, LifeCycle, ServerStep, PanelStep, Death

LEMMA ServerOKStep == ServerOK /\ [Next]_vars => ServerOK'
<1> SUFFICES ASSUME ServerOK, [Next]_vars PROVE ServerOK'
  OBVIOUS
<1> USE DEF ServerOK
<1>1. CASE ServerStep
  BY <1>1 DEF ServerStep, Claim, Acquire, DestroyDisplay, LowerFlag, ClaimEnds,
     Server!Claim, Server!Withdraw, Server!Acquire, Server!GiveUp, Server!LowerFlag, Server!Contest,
     processVars, up
<1>2. CASE PanelStep
  BY <1>2 DEF PanelStep, StartControl, RunControl, StopControl, DeskUserBrightens,
     serverVars, processVars
<1>3. CASE Update \/ NewRelease
  BY <1>3 DEF Update, NewRelease, CheckOnce, Publish, processVars
<1>4. CASE Death
  <2>1. deaths' \in 0 .. MaxDeaths
    BY <1>4 DEF Death, UpdaterExits, Crash, MainReturns
  <2>2. /\ owners' = {} /\ retired' = {} /\ contested' = FALSE /\ phase' = "down"
        /\ claimants' = {} /\ hasActiveSession' = FALSE /\ late' = {}
    BY <1>4 DEF Death, UpdaterExits, Crash, MainReturns, Die
  <2>3. QED
    BY <2>1, <2>2
<1>5. CASE Signalled
  <2>1. deaths' \in 0 .. MaxDeaths
    BY <1>5 DEF Signalled, Server!Stop
  <2>2. /\ phase' = "stopping" /\ hasActiveSession' = FALSE /\ contested' = TRUE
        /\ UNCHANGED <<owners, retired, claimants, late>>
    BY <1>5 DEF Signalled, Server!Stop
  <2>3. QED
    BY <2>1, <2>2
<1>8. CASE Relaunch
  BY <1>8 DEF Relaunch, serverVars
<1>6. CASE UNCHANGED vars
  BY <1>6 DEF vars, serverVars, processVars
<1>7. QED
  BY SplitNext, <1>1, <1>2, <1>3, <1>4, <1>5, <1>6, <1>8

-----------------------------------------------------------------------------
(* The files.                                                              *)
LEMMA VersionsOKCheck == VersionsOK /\ CheckOnce => VersionsOK'
<1> SUFFICES ASSUME VersionsOK, CheckOnce PROVE VersionsOK'
  OBVIOUS
<1> USE DEF VersionsOK, Version, Goto, Return, GiveUpAt
<1>1. CASE Tick
  BY <1>1 DEF Tick
<1>2. CASE FetchRelease
  BY <1>2 DEF FetchRelease
<1>3. CASE FirstTest
  BY <1>3 DEF FirstTest
<1>4. CASE SecondTest
  BY <1>4 DEF SecondTest
<1>5. CASE Clear \/ Download \/ Verify \/ Sign
  BY <1>5 DEF Clear, Download, Verify, Sign
<1>6. CASE Fails
  BY <1>6 DEF Fails, FetchFails, HashFails, VerifyFails, DownloadDamaged
<1>7. CASE FetchHash \/ Swap
  BY <1>7 DEF FetchHash, Swap
<1>8. QED
  BY <1>1, <1>2, <1>3, <1>4, <1>5, <1>6, <1>7 DEF CheckOnce

LEMMA FileValues ==
  /\ Absent \in File /\ Damaged \in File
  /\ \A v \in Version : /\ Whole(v) \in File /\ Signed(v) \in File
                        /\ Runs(Signed(v)) /\ Signed(v).version = v
BY DEF File, Absent, Damaged, Whole, Signed, Runs, Version

LEMMA FilesOKCheck == VersionsOK /\ FilesOK /\ CheckOnce => FilesOK'
<1> SUFFICES ASSUME VersionsOK, FilesOK, CheckOnce PROVE FilesOK'
  OBVIOUS
<1>1. remoteVer \in Version /\ remoteVer <= latest
  BY DEF VersionsOK
<1> USE FileValues DEF FilesOK, LiveBinaryRuns, Goto, Return, GiveUpAt, fileVars
<1>2. CASE Tick \/ FetchHash \/ Clear \/ Verify
  BY <1>2 DEF Tick, FetchHash, Clear, Verify
<1>3. CASE FetchRelease \/ FirstTest
  BY <1>3 DEF FetchRelease, FirstTest
<1>4. CASE Download
  BY <1>1, <1>4 DEF Download
<1>5. CASE Sign
  BY <1>1, <1>5 DEF Sign
<1>6. CASE SecondTest
  BY <1>6 DEF SecondTest
<1>7. CASE Swap
  BY <1>1, <1>7 DEF Swap
<1>8. CASE Fails
  BY <1>8 DEF Fails, FetchFails, HashFails, VerifyFails, DownloadDamaged
<1>9. QED
  BY <1>2, <1>3, <1>4, <1>5, <1>6, <1>7, <1>8 DEF CheckOnce

LEMMA FilesStep == VersionsOK /\ FilesOK /\ [Next]_vars => VersionsOK' /\ FilesOK'
<1> SUFFICES ASSUME VersionsOK, FilesOK, [Next]_vars PROVE VersionsOK' /\ FilesOK'
  OBVIOUS
<1>1. CASE UNCHANGED updateVars
  BY <1>1 DEF VersionsOK, FilesOK, LiveBinaryRuns, updateVars, fileVars
<1>2. CASE Update
  BY <1>2, VersionsOKCheck, FilesOKCheck DEF Update
<1>3. CASE NewRelease
  <2>1. VersionsOK'
    BY <1>3 DEF NewRelease, Publish, VersionsOK, Version
  <2>2. FilesOK'
    BY <1>3 DEF NewRelease, Publish, VersionsOK, FilesOK, LiveBinaryRuns, fileVars, Version, File
  <2>3. QED
    BY <2>1, <2>2
<1>4. CASE Death
  <2>1. /\ updater' = "idle" /\ remoteVer' = 0
        /\ UNCHANGED <<latest, running, live, tmp>>
    BY <1>4 DEF Death, UpdaterExits, Crash, MainReturns, Die, AbandonCheck, fileVars
  <2>2. VersionsOK'
    BY <2>1 DEF VersionsOK, Version
  <2>3. FilesOK'
    BY <2>1 DEF FilesOK, LiveBinaryRuns
  <2>4. QED
    BY <2>2, <2>3
<1>5. CASE Relaunch
  <2>1. /\ running' = live.version
        /\ UNCHANGED <<latest, remoteVer, updater, live, tmp>>
    BY <1>5 DEF Relaunch, LaunchBinary, fileVars
  <2>2. live.version \in Version
    BY DEF FilesOK, File
  <2>3. VersionsOK'
    BY <2>1, <2>2 DEF VersionsOK
  <2>4. FilesOK'
    BY <2>1 DEF FilesOK, LiveBinaryRuns
  <2>5. QED
    BY <2>3, <2>4
<1>6. CASE ServerStep \/ PanelStep \/ Signalled \/ UNCHANGED vars
  BY <1>1, <1>6 DEF ServerStep, Claim, Acquire, DestroyDisplay, LowerFlag, ClaimEnds, PanelStep, StartControl, RunControl, StopControl, DeskUserBrightens,
     Signalled, vars
<1>7. QED
  BY SplitNext, <1>2, <1>3, <1>4, <1>5, <1>6

-----------------------------------------------------------------------------
(* The flag, the claims and the updater's last test.                       *)
LEMMA FlagStep ==
  ServerOK /\ VersionsOK /\ FlagCovers /\ [Next]_vars => FlagCovers'
<1> SUFFICES ASSUME ServerOK, VersionsOK, FlagCovers, [Next]_vars PROVE FlagCovers'
  OBVIOUS
<1> USE DEF ServerOK, FlagCovers, Committed
<1>1. CASE ServerStep
  BY <1>1 DEF ServerStep, Claim, Acquire, DestroyDisplay, LowerFlag, ClaimEnds,
     Server!Claim, Server!Withdraw, Server!Acquire, Server!GiveUp, Server!LowerFlag, Server!Contest, processVars,
     updateVars, up
<1>2. CASE PanelStep
  BY <1>2 DEF PanelStep, StartControl, RunControl, StopControl, DeskUserBrightens,
     serverVars, processVars, updateVars
<1>3. CASE Update
  <2>1. CASE SecondTest
    BY <1>3, <2>1 DEF Update, CheckOnce, SecondTest, GiveUpAt, Return, Goto, processVars, up
  <2>2. CASE Swap \/ Tick \/ FetchRelease \/ FirstTest \/ FetchHash \/ Clear \/ Download \/ Verify
              \/ Sign \/ Fails
    BY <1>3, <2>2 DEF Update, CheckOnce, Swap, Tick, FetchRelease, FirstTest, FetchHash, Clear,
       Download, Verify, Sign, Fails, FetchFails, HashFails, VerifyFails, DownloadDamaged,
       GiveUpAt, Return, Goto, processVars, up
  <2>3. QED
    BY <1>3, <2>1, <2>2 DEF Update, CheckOnce
<1>4. CASE NewRelease
  BY <1>4 DEF NewRelease, Publish, processVars
<1>5. CASE Death
  BY <1>5 DEF Death, UpdaterExits, Crash, MainReturns, Die, AbandonCheck
<1>6. CASE Signalled
  BY <1>6 DEF Signalled, Server!Stop, updateVars
<1>7. CASE Relaunch
  BY <1>7 DEF Relaunch, LaunchBinary, serverVars
<1>8. CASE UNCHANGED vars
  BY <1>8 DEF vars, serverVars, processVars, updateVars
<1>9. QED
  BY SplitNext, <1>1, <1>2, <1>3, <1>4, <1>5, <1>6, <1>7, <1>8

-----------------------------------------------------------------------------
(* The panel.                                                              *)
LEMMA PanelServer == ServerOK /\ PanelOK /\ ServerStep => PanelOK'
<1> SUFFICES ASSUME ServerOK, PanelOK, ServerStep PROVE PanelOK'
  OBVIOUS
<1>1. UNCHANGED <<panel, place, original, tap, spoiled>>
  BY DEF ServerStep, Claim, Acquire, DestroyDisplay, LowerFlag, ClaimEnds, displayVars
<1>2. contested => contested'
  BY DEF ServerStep, Claim, Acquire, DestroyDisplay, LowerFlag, ClaimEnds,
     Server!Claim, Server!Withdraw, Server!Acquire, Server!GiveUp, Server!LowerFlag, Server!Contest
<1>3. DisplayTypeOK' /\ ReadsTheUsers' /\ PanelRestored'
  BY <1>1, <1>2 DEF PanelOK, DisplayTypeOK, ReadsTheUsers, PanelRestored
<1>4. OneOwner'
  <2>1. /\ owners \cap retired = {} /\ claimants \cap (owners \cup retired) = {}
        /\ \A s \in Session : place[s] \in {"get", "set", "lit", "dimmed"} => s \in owners
    BY DEF PanelOK, OneOwner
  <2>2. ASSUME NEW s \in Session, Acquire(s) PROVE OneOwner'
    BY <1>1, <2>2 DEF PanelOK, OneOwner, ServerOK, Acquire, Server!Acquire
  <2>3. ASSUME NEW s \in Session, DestroyDisplay(s) PROVE OneOwner'
    <3>1. /\ place[s] = "stopped" /\ owners' = owners \ {s} /\ retired' = retired \cup {s}
          /\ s \in owners /\ UNCHANGED <<contested, claimants>>
      BY <2>3 DEF DestroyDisplay, Server!GiveUp
    <3>2. owners' \cap retired' = {} /\ claimants' \cap (owners' \cup retired') = {}
      BY <2>1, <3>1
    <3>3. \A t \in Session : place[t] \in {"get", "set", "lit", "dimmed"} => t \in owners'
      BY <2>1, <3>1
    <3>4. QED
      BY <1>1, <3>1, <3>2, <3>3 DEF PanelOK, OneOwner
  <2>4. ASSUME NEW s \in Session, Claim(s) PROVE OneOwner'
    BY <1>1, <2>4 DEF PanelOK, OneOwner, Claim, Server!Claim
  <2>5. CASE LowerFlag \/ ClaimEnds
    BY <1>1, <1>2, <2>5 DEF PanelOK, OneOwner, LowerFlag, ClaimEnds, Server!LowerFlag,
       Server!Withdraw, Server!Contest
  <2>6. QED
    BY <2>2, <2>3, <2>4, <2>5 DEF ServerStep
<1>5. QED
  BY <1>3, <1>4 DEF PanelOK

LEMMA PanelDeath == ServerOK /\ PanelOK /\ Death => PanelOK'
<1> SUFFICES ASSUME ServerOK, PanelOK, Death PROVE PanelOK'
  OBVIOUS
<1>1. /\ owners' = {} /\ retired' = {} /\ claimants' = {}
      /\ place' = [s \in Session |-> "off"]
      /\ original' = [s \in Session |-> "user"]
      /\ tap' = [s \in Session |-> "idle"]
      /\ spoiled' = (spoiled \/ panel = "dark")
      /\ UNCHANGED panel
  BY DEF Death, UpdaterExits, Crash, MainReturns, Die, AbandonControls
<1>2. DisplayTypeOK'
  BY <1>1 DEF PanelOK, DisplayTypeOK, Brightness, Place
<1>3. OneOwner' /\ ReadsTheUsers'
  BY <1>1 DEF OneOwner, ReadsTheUsers
<1>4. PanelRestored'
  BY <1>1 DEF PanelOK, DisplayTypeOK, Brightness, PanelRestored
<1>5. QED
  BY <1>2, <1>3, <1>4 DEF PanelOK

LEMMA PanelPanel == ServerOK /\ PanelOK /\ PanelStep => PanelOK'
<1> SUFFICES ASSUME ServerOK, PanelOK, PanelStep PROVE PanelOK'
  OBVIOUS
<1> USE DEF PanelOK, DisplayTypeOK, Brightness, Place
<1>1. UNCHANGED <<owners, retired, claimants, contested>>
  BY DEF PanelStep, StartControl, RunControl, StopControl, DeskUserBrightens, serverVars
<1>2. CASE DeskUserBrightens
  BY <1>1, <1>2 DEF DeskUserBrightens, OneOwner, ReadsTheUsers, PanelRestored
<1>3. ASSUME NEW s \in Session, Start(s), s \in owners PROVE PanelOK'
  BY <1>1, <1>3 DEF Start, OneOwner, ReadsTheUsers, PanelRestored
<1>4. ASSUME NEW s \in Session, GetBrightness(s) PROVE PanelOK'
  <2>1. DisplayTypeOK' /\ OneOwner'
    BY <1>1, <1>4 DEF GetBrightness, OneOwner
  <2>2. ~contested /\ ~spoiled => panel = "user"
    <3> SUFFICES ASSUME ~contested, ~spoiled PROVE panel = "user"
      OBVIOUS
    <3>1. \A t \in Session : place[t] # "dimmed"
      BY <1>4 DEF GetBrightness, OneOwner
    <3>2. QED
      BY <3>1 DEF PanelRestored
  <2>3. ReadsTheUsers' /\ PanelRestored'
    BY <1>1, <1>4, <2>2 DEF GetBrightness, ReadsTheUsers, PanelRestored
  <2>4. QED
    BY <2>1, <2>3
<1>5. ASSUME NEW s \in Session, Dim(s) PROVE PanelOK'
  BY <1>1, <1>5 DEF Dim, OneOwner, ReadsTheUsers, PanelRestored
<1>6. ASSUME NEW s \in Session, DimFails(s) PROVE PanelOK'
  BY <1>1, <1>6 DEF DimFails, Forget, OneOwner, ReadsTheUsers, PanelRestored
<1>7. ASSUME NEW s \in Session, TapFires(s) PROVE PanelOK'
  BY <1>1, <1>7 DEF TapFires, OneOwner, ReadsTheUsers, PanelRestored
<1>8. ASSUME NEW s \in Session, TapRestores(s) PROVE PanelOK'
  <2>1. DisplayTypeOK' /\ OneOwner'
    BY <1>1, <1>8 DEF TapRestores, Forget, OneOwner
  <2>2. ReadsTheUsers'
    BY <1>1, <1>8 DEF TapRestores, Forget, ReadsTheUsers
  <2>3. CASE panel' = tap[s] /\ UNCHANGED spoiled
    <3>1. ~contested /\ ~spoiled => tap[s] = "user"
      BY <1>8 DEF TapRestores, ReadsTheUsers
    <3>2. QED
      BY <1>1, <2>1, <2>2, <2>3, <3>1 DEF PanelRestored
  <2>4. CASE UNCHANGED panel /\ spoiled' = (spoiled \/ place[s] = "dimmed")
    <3> SUFFICES ASSUME ~contested, ~spoiled, place[s] # "dimmed",
                        \A t \in Session : place'[t] # "dimmed"
                 PROVE  panel = "user"
      BY <1>1, <2>1, <2>2, <2>4 DEF PanelRestored
    <3>1. \A t \in Session : place[t] # "dimmed"
      BY <1>8 DEF TapRestores
    <3>2. QED
      BY <3>1 DEF PanelRestored
  <2>5. QED
    BY <1>8, <2>1, <2>2, <2>3, <2>4 DEF TapRestores
<1>9. ASSUME NEW s \in Session, Stop(s) PROVE PanelOK'
  <2>1. DisplayTypeOK' /\ OneOwner'
    BY <1>1, <1>9 DEF Stop, Forget, OneOwner
  <2>2. ReadsTheUsers'
    BY <1>1, <1>9 DEF Stop, Forget, ReadsTheUsers
  <2>3. PanelRestored'
    BY <1>1, <1>9 DEF Stop, Forget, ReadsTheUsers, PanelRestored
  <2>4. QED
    BY <2>1, <2>2, <2>3
<1>10. ASSUME NEW s \in Session, StopFails(s) PROVE PanelOK'
  BY <1>1, <1>10 DEF StopFails, Forget, OneOwner, ReadsTheUsers, PanelRestored
<1>11. QED
  BY <1>2, <1>3, <1>4, <1>5, <1>6, <1>7, <1>8, <1>9, <1>10
     DEF PanelStep, StartControl, RunControl, ControlStep, StopControl

LEMMA PanelStays ==
  ServerOK /\ PanelOK /\ (Update \/ NewRelease \/ Signalled \/ Relaunch \/ UNCHANGED vars)
  => PanelOK'
<1> SUFFICES ASSUME ServerOK, PanelOK,
                    Update \/ NewRelease \/ Signalled \/ Relaunch \/ UNCHANGED vars
             PROVE  PanelOK'
  OBVIOUS
<1>1. /\ UNCHANGED <<panel, place, original, tap, spoiled, owners, retired, claimants>>
      /\ contested => contested'
  BY DEF Update, NewRelease, Signalled, Server!Stop, Relaunch, vars, serverVars, displayVars
<1>2. QED
  BY <1>1 DEF PanelOK, DisplayTypeOK, OneOwner, ReadsTheUsers, PanelRestored

-----------------------------------------------------------------------------
LEMMA InitOK == Init => DaemonInv
<1> SUFFICES ASSUME Init PROVE DaemonInv
  OBVIOUS
<1>1. VersionsOK
  BY MaxVersionAssumption DEF Init, UpdateInit, VersionsOK, Version
<1>2. FilesOK
  <2>1. latest = 0 /\ remoteVer = 0 /\ live = Signed(0) /\ tmp = Absent /\ updater = "idle"
    BY DEF Init, UpdateInit
  <2>2. 0 \in Version
    BY MaxVersionAssumption DEF Version
  <2>3. live \in File /\ tmp \in File /\ Runs(live) /\ live.version = 0
    BY <2>1, <2>2, FileValues
  <2>4. LiveBinaryRuns
    BY <2>1, <2>3 DEF LiveBinaryRuns
  <2>5. updater # "sign" /\ ~(updater \in {"retest", "swap"})
    BY <2>1
  <2>6. QED
    BY <2>3, <2>4, <2>5 DEF FilesOK
<1>3. ServerOK
  <2>1. deaths \in 0 .. MaxDeaths
    BY MaxDeathsAssumption DEF Init
  <2>2. /\ owners = {} /\ retired = {} /\ contested = FALSE /\ hasActiveSession = FALSE
        /\ claimants = {} /\ late = {} /\ phase = "up"
    BY DEF Init, Server!Init
  <2>3. QED
    BY <2>1, <2>2 DEF ServerOK
<1>4. PanelOK
  BY DEF Init, DisplayInit, NoControls, Server!Init, PanelOK, DisplayTypeOK, OneOwner,
     ReadsTheUsers, PanelRestored, Brightness, Place
<1>5. FlagCovers
  BY DEF Init, UpdateInit, Server!Init, FlagCovers, Committed
<1>6. QED
  BY <1>1, <1>2, <1>3, <1>4, <1>5, Halves

LEMMA Inductive == DaemonInv /\ [Next]_vars => DaemonInv'
<1> SUFFICES ASSUME DaemonInv, [Next]_vars PROVE DaemonInv'
  OBVIOUS
<1>1. ServerOK /\ VersionsOK /\ FilesOK /\ PanelOK /\ FlagCovers
  BY Halves
<1>2. ServerOK' /\ VersionsOK' /\ FilesOK' /\ FlagCovers'
  BY <1>1, ServerOKStep, FilesStep, FlagStep
<1>3. PanelOK'
  BY <1>1, SplitNext, PanelServer, PanelDeath, PanelPanel, PanelStays
<1>4. (ServerOK /\ VersionsOK /\ FilesOK /\ PanelOK /\ FlagCovers)' => DaemonInv'
  BY Halves, PTL
<1>5. QED
  BY <1>2, <1>3, <1>4

(* Whatever the daemon does, its files, its flag, its panel and its owners *)
(* agree: DaemonInv, the inductive invariant of the daemon's process.      *)
THEOREM DaemonCorrect == Spec => []DaemonInv
BY InitOK, Inductive, PTL DEF Spec

(* AutoUpdate.m never leaves launchd a binary that does not start.         *)
THEOREM LiveBinaryAlwaysRuns == Spec => []LiveBinaryRuns
<1>1. DaemonInv => LiveBinaryRuns
  BY DEF DaemonInv
<1>2. QED
  BY <1>1, DaemonCorrect, PTL

(* DisplayControl.m gives the desk user's brightness back.                 *)
THEOREM PanelComesBack == Spec => []PanelRestored
<1>1. DaemonInv => PanelRestored
  BY DEF DaemonInv
<1>2. QED
  BY <1>1, DaemonCorrect, PTL

(* The updater's restart hits no session that its last test could see.     *)
THEOREM RestartSparesOwner == Spec => []UpdaterSparesOwner
<1>1. DaemonInv => UpdaterSparesOwner
  BY DEF DaemonInv, FlagCovers, Committed, UpdaterSparesOwner
<1>2. QED
  BY <1>1, DaemonCorrect, PTL

(* One session's stop lights the panel under another's only by a callback  *)
(* of the tap that was late: the privacy that DisplayControl.m promises.   *)
THEOREM PrivacyIsHeld == Spec => PrivacyHeld
<1> DEFINE Kept ==
      panel = "dark" /\ panel' = "user" /\ ~contested
      => \/ \A s \in Session : ~(place[s] = "dimmed" /\ place'[s] = "dimmed")
         \/ \E s \in Session : tap[s] # "idle" /\ tap'[s] = "idle"
<1>1. DaemonInv /\ [Next]_vars => [Kept]_vars
  <2> SUFFICES ASSUME DaemonInv, Next, panel = "dark", panel' = "user", ~contested
               PROVE  \/ \A s \in Session : ~(place[s] = "dimmed" /\ place'[s] = "dimmed")
                      \/ \E s \in Session : tap[s] # "idle" /\ tap'[s] = "idle"
    OBVIOUS
  <2>1. PanelStep
    BY SplitNext DEF ServerStep, Claim, Acquire, DestroyDisplay, LowerFlag, ClaimEnds, Update, NewRelease, Death, UpdaterExits, Crash, MainReturns, Die,
       AbandonControls, Signalled, Relaunch, vars, displayVars
  <2>2. DisplayTypeOK /\ OneOwner
    BY DEF DaemonInv, TypeOK
  <2>3. CASE DeskUserBrightens
    BY <2>2, <2>3 DEF DeskUserBrightens, OneOwner
  <2>4. DeskUserBrightens \/ \E s \in Session : Stop(s) \/ TapRestores(s)
    BY <2>1 DEF PanelStep, StartControl, RunControl, StopControl, ControlStep, Start,
       GetBrightness, Dim, DimFails, StopFails, TapFires
  <2>5. CASE \E s \in Session : Stop(s)
    BY <2>2, <2>5 DEF Stop, OneOwner, DisplayTypeOK
  <2>6. CASE \E s \in Session : TapRestores(s)
    BY <2>2, <2>6 DEF TapRestores, DisplayTypeOK
  <2>7. QED
    BY <2>3, <2>4, <2>5, <2>6
<1>2. QED
  BY <1>1, DaemonCorrect, PTL DEF Spec, PrivacyHeld

=============================================================================
