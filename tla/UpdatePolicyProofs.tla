------------------------ MODULE UpdatePolicyProofs ------------------------
(***************************************************************************)
(* Theorems about OtaManager and UpdatePolicy, for any channels, releases, *)
(* file length and number of answers under way.                            *)
(***************************************************************************)
EXTENDS UpdatePolicy, SequenceTheorems, TLAPS

-----------------------------------------------------------------------------
(***************************************************************************)
(* The inductive invariant of OtaManager.                                  *)
(***************************************************************************)
\* What was chosen for installation, or offered, is newer than what runs.
NewerChosen ==
    phase \in {"ready", "requesting", "downloading", "applied"} =>
        image.version \in Versions /\ image.version > running

\* While a file is written the update is open, and it stays open only behind a file
\* that failed verification.
OpenWhileWriting ==
    /\ phase = "downloading" => open
    /\ open => spoilt \/ phase = "downloading"

InstallInv == OtaTypeOK /\ NewerChosen /\ OpenWhileWriting /\ BootImageSound

\* What loop() does to OtaManager: call it, have it work, be returned to.
OtaMove ==
    \/ calling /\ calling' = TRUE /\ \E apply \in BOOLEAN : OtaStep(channel, apply)
    \/ ~calling /\ calling' = TRUE /\ BeginCheck
    \/ calling /\ calling' = FALSE /\ phase \notin Working /\ Return
    \/ calling' = FALSE /\ OtaReset
    \/ calling' = calling /\ (UNCHANGED otaVars \/ \E c \in Channels : Publish(c))

Busyness == (phase # "idle") = calling

-----------------------------------------------------------------------------
(***************************************************************************)
(* OtaManager.                                                             *)
(***************************************************************************)
LEMMA VersionsFacts ==
    /\ \A v \in Versions : v \in Nat /\ v > 0
    /\ \A c \in Channels : \A v \in 1 .. LastRelease[c] : v \in Versions
    /\ 1 \in Versions
<1>1. ASSUME NEW c \in Channels, NEW v \in 1 .. LastRelease[c]
      PROVE  v \in Versions
  BY DEF Versions
<1>2. ASSUME NEW v \in Versions
      PROVE  v \in Nat /\ v > 0
  <2>1. PICK c \in Channels : v \in 1 .. LastRelease[c]
    BY DEF Versions
  <2> QED
    BY <2>1, OtaConstants
<1>3. 1 \in 1 .. LastRelease[Stable]
  BY OtaConstants, PolicyConstants
<1> QED
  BY <1>1, <1>2, <1>3, PolicyConstants

LEMMA InstallInvInit == OtaInit => InstallInv
<1> SUFFICES ASSUME OtaInit PROVE InstallInv
  OBVIOUS
<1>1. OtaTypeOK
  BY VersionsFacts DEF OtaInit, OtaTypeOK
<1> QED
  BY <1>1 DEF OtaInit, InstallInv, NewerChosen, OpenWhileWriting, BootImageSound

\* An operation's steps up to the download.
LEMMA ChoosingPreserves ==
    ASSUME InstallInv, NEW c \in Channels, NEW apply \in BOOLEAN,
           ManifestFails \/ ManifestRead(c, apply) \/ DownloadRefused \/ BeginWriting
    PROVE  InstallInv'
<1> USE VersionsFacts DEF InstallInv, BootImageSound, Working
<1>1. CASE ManifestFails \/ DownloadRefused \/ BeginWriting
  <2>1. OtaTypeOK'
    BY <1>1 DEF ManifestFails, DownloadRefused, BeginWriting, OtaTypeOK
  <2>2. NewerChosen'
    BY <1>1 DEF ManifestFails, DownloadRefused, BeginWriting, NewerChosen
  <2>3. OpenWhileWriting'
    BY <1>1 DEF ManifestFails, DownloadRefused, BeginWriting, OpenWhileWriting
  <2>4. boot' = boot /\ running' = running
    BY <1>1 DEF ManifestFails, DownloadRefused, BeginWriting
  <2> QED
    BY <2>1, <2>2, <2>3, <2>4
<1>2. CASE ManifestRead(c, apply)
  <2>1. newest[c] \in Versions
    BY DEF OtaTypeOK
  <2>2. image' = [version |-> newest[c], got |-> 0, intact |-> TRUE]
        /\ image' \in [version : Versions, got : 0 .. FileUnits, intact : BOOLEAN]
    BY <1>2, <2>1, OtaConstants DEF ManifestRead
  <2>3. OtaTypeOK'
    BY <1>2, <2>2 DEF ManifestRead, OtaTypeOK
  <2>4. NewerChosen'
    BY <1>2, <2>1, <2>2 DEF ManifestRead, NewerChosen, Available
  <2> QED
    BY <1>2, <2>3, <2>4 DEF ManifestRead, OpenWhileWriting
<1> QED
  BY <1>1, <1>2

\* The download's steps.
LEMMA WritingPreserves ==
    ASSUME InstallInv,
           \/ GiveUp \/ Mismatch \/ EndFails \/ Applied
           \/ \E intact \in BOOLEAN : ReadUnit(intact)
    PROVE  InstallInv'
<1> USE VersionsFacts DEF InstallInv, BootImageSound, Working
<1>1. CASE GiveUp \/ Mismatch \/ EndFails
  BY <1>1 DEF GiveUp, Mismatch, EndFails, OtaTypeOK, NewerChosen, OpenWhileWriting
<1>2. phase = "downloading" =>
        image \in [version : Versions, got : 0 .. FileUnits, intact : BOOLEAN]
  BY DEF OtaTypeOK, NewerChosen, NoImage
<1>3. CASE Applied
  <2>1. boot' = [version |-> image.version, intact |-> TRUE]
    BY <1>3, <1>2 DEF Applied, Verified
  <2>2. image.version \in Versions /\ image.version > running /\ running \in Versions
    BY <1>3 DEF Applied, NewerChosen, OtaTypeOK
  <2>3. boot' \in [version : Versions, intact : BOOLEAN]
    BY <2>1, <2>2
  <2>4. OtaTypeOK'
    BY <1>3, <2>3 DEF Applied, OtaTypeOK
  <2>5. NewerChosen' /\ OpenWhileWriting'
    BY <1>3, <2>2 DEF Applied, NewerChosen, OpenWhileWriting
  <2>6. boot'.intact /\ boot'.version = image.version /\ running' = running
    BY <1>3, <2>1 DEF Applied
  <2> QED
    BY <2>2, <2>4, <2>5, <2>6
<1>4. ASSUME NEW intact \in BOOLEAN, ReadUnit(intact)
      PROVE  InstallInv'
  <2>1. image \in [version : Versions, got : 0 .. FileUnits, intact : BOOLEAN]
    BY <1>2, <1>4 DEF ReadUnit
  <2> DEFINE sound == image.intact /\ intact
  <2>2. sound \in BOOLEAN
    OBVIOUS
  <2>3. image.got + 1 \in 0 .. FileUnits
    <3>1. image.got < FileUnits
      BY <1>4 DEF ReadUnit
    <3> QED
      BY <2>1, <3>1, OtaConstants
  <2>4. image' \in [version : Versions, got : 0 .. FileUnits, intact : BOOLEAN]
        /\ image'.version = image.version
    <3>1. image' = [image EXCEPT !.got = image.got + 1, !.intact = sound]
      BY <1>4 DEF ReadUnit
    <3> HIDE DEF sound
    <3> QED
      BY <2>1, <2>2, <2>3, <3>1
  <2>5. OtaTypeOK'
    BY <1>4, <2>4 DEF ReadUnit, OtaTypeOK
  <2>6. NewerChosen' /\ OpenWhileWriting'
    BY <1>4, <2>4 DEF ReadUnit, NewerChosen, OpenWhileWriting
  <2>7. boot' = boot /\ running' = running
    BY <1>4 DEF ReadUnit
  <2> QED
    BY <2>5, <2>6, <2>7
<1> QED
  BY <1>1, <1>3, <1>4

\* Calls, returns, resets and releases.
LEMMA AroundPreserves ==
    ASSUME InstallInv,
           \/ phase = "idle" /\ BeginCheck
           \/ phase \notin Working /\ Return
           \/ OtaReset
           \/ UNCHANGED otaVars
           \/ \E c \in Channels : Publish(c)
    PROVE  InstallInv'
<1> USE VersionsFacts DEF InstallInv, BootImageSound, Working
<1>1. CASE UNCHANGED otaVars
  BY <1>1 DEF otaVars, OtaTypeOK, NewerChosen, OpenWhileWriting
<1>2. CASE phase = "idle" /\ BeginCheck
  BY <1>2 DEF BeginCheck, OtaTypeOK, NewerChosen, OpenWhileWriting
<1>3. CASE phase \notin Working /\ Return
  BY <1>3 DEF Return, OtaTypeOK, NewerChosen, OpenWhileWriting
<1>4. CASE OtaReset
  <2>1. boot.version \in Versions
    BY DEF OtaTypeOK
  <2>2. OtaTypeOK'
    BY <1>4, <2>1 DEF OtaReset, OtaTypeOK
  <2>3. NewerChosen' /\ OpenWhileWriting'
    BY <1>4 DEF OtaReset, NewerChosen, OpenWhileWriting
  <2>4. boot' = boot /\ running' = boot.version
    BY <1>4 DEF OtaReset
  <2> QED
    BY <2>1, <2>2, <2>3, <2>4
<1>5. ASSUME NEW c \in Channels, Publish(c)
      PROVE  InstallInv'
  <2>1. newest[c] + 1 \in Versions
    <3>1. newest[c] \in Nat
      BY DEF OtaTypeOK
    <3>2. newest[c] + 1 \in 1 .. LastRelease[c]
      BY <1>5, <3>1, OtaConstants DEF Publish
    <3> QED
      BY <3>2
  <2>2. OtaTypeOK'
    BY <1>5, <2>1 DEF Publish, OtaTypeOK
  <2>3. NewerChosen' /\ OpenWhileWriting'
    BY <1>5 DEF Publish, NewerChosen, OpenWhileWriting
  <2>4. boot' = boot /\ running' = running
    BY <1>5 DEF Publish
  <2> QED
    BY <2>2, <2>3, <2>4
<1> QED
  BY <1>1, <1>2, <1>3, <1>4, <1>5

LEMMA InstallInvStep ==
    ASSUME InstallInv, Busyness, channel \in Channels, OtaMove
    PROVE  InstallInv' /\ Busyness'
<1>1. CASE calling /\ calling' = TRUE /\ \E apply \in BOOLEAN : OtaStep(channel, apply)
  <2>1. InstallInv'
    BY <1>1, ChoosingPreserves, WritingPreserves DEF OtaStep, OtaFails
  <2>2. phase' # "idle"
    BY <1>1 DEF OtaStep, OtaFails, ManifestFails, ManifestRead, DownloadRefused, BeginWriting,
                GiveUp, Mismatch, EndFails, Applied, ReadUnit
  <2> QED
    BY <1>1, <2>1, <2>2 DEF Busyness
<1>2. CASE ~calling /\ calling' = TRUE /\ BeginCheck
  <2>1. phase = "idle"
    BY <1>2 DEF Busyness
  <2> QED
    BY <1>2, <2>1, AroundPreserves DEF Busyness, BeginCheck
<1>3. CASE calling /\ calling' = FALSE /\ phase \notin Working /\ Return
  BY <1>3, AroundPreserves DEF Busyness, Return
<1>4. CASE calling' = FALSE /\ OtaReset
  BY <1>4, AroundPreserves DEF Busyness, OtaReset
<1>5. CASE calling' = calling /\ (UNCHANGED otaVars \/ \E c \in Channels : Publish(c))
  <2>1. InstallInv'
    BY <1>5, AroundPreserves
  <2>2. UNCHANGED phase
    BY <1>5 DEF otaVars, Publish
  <2> QED
    BY <1>5, <2>1, <2>2 DEF Busyness
<1> QED
  BY <1>1, <1>2, <1>3, <1>4, <1>5 DEF OtaMove

-----------------------------------------------------------------------------
(***************************************************************************)
(* loop() and its environment use OtaManager as OtaMove says.              *)
(***************************************************************************)
\* The actions that take a new step of loop(), without OtaManager ...
LEMMA LoopGoesOn ==
    ASSUME Busyness,
           \/ BootOffline \/ Quiet \/ Connect \/ Disconnect \/ ReadAnswer
           \/ \E c \in Channels : SetChannel(c)
           \/ CommandApply \/ Attended \/ NothingToApply \/ AutoApply
    PROVE  OtaMove
<1>1. ~calling /\ calling' = FALSE /\ UNCHANGED otaVars
  BY DEF BootOffline, Quiet, Connect, Disconnect, ReadAnswer, SetChannel, CommandApply, Attended,
         NothingToApply, AutoApply, Unattended, Onwards, GoTo, At
<1>2. calling = FALSE
  BY <1>1 DEF Busyness
<1> QED
  BY <1>1, <1>2 DEF OtaMove

\* ... that call OtaManager ...
LEMMA LoopCalls ==
    ASSUME BootCheck \/ CommandCheck \/ SelfCheck \/ ApplyUpdate
    PROVE  OtaMove
BY DEF BootCheck, CommandCheck, SelfCheck, ApplyUpdate, Unattended, Call, At, OtaMove

\* ... that are inside it, or returned to ...
LEMMA LoopWaits ==
    ASSUME Busyness, Ota \/ InstallReturns \/ CommandCheckReturns \/ SelfCheckReturns
    PROVE  OtaMove
<1>1. CASE Ota
  <2>1. calling = TRUE /\ calling' = TRUE
    BY <1>1 DEF Ota, Busyness
  <2>2. (lp \in {"boot", "requested"}) \in BOOLEAN
    OBVIOUS
  <2>3. OtaStep(channel, lp \in {"boot", "requested"})
    BY <1>1 DEF Ota
  <2>4. \E apply \in BOOLEAN : OtaStep(channel, apply)
    BY <2>2, <2>3
  <2> QED
    BY <2>1, <2>4 DEF OtaMove
<1>2. CASE InstallReturns
  BY <1>2 DEF InstallReturns, CallEnds, Reset, Restart, GoTo, OtaMove
<1>3. CASE CommandCheckReturns \/ SelfCheckReturns
  BY <1>3 DEF CommandCheckReturns, SelfCheckReturns, CallEnds, GoTo, OtaMove
<1> QED
  BY <1>1, <1>2, <1>3

\* ... and that end in a reset.
LEMMA LoopRestarts ==
    ASSUME CommandConfig \/ CommandReset \/ Reset
    PROVE  OtaMove
BY DEF CommandConfig, CommandReset, Reset, Restart, OtaMove

LEMMA PolicyStepIsOtaMove ==
    ASSUME Busyness, [PolicyNext]_policyVars
    PROVE  OtaMove
<1>1. CASE Loop
  BY <1>1, LoopGoesOn, LoopCalls, LoopWaits, LoopRestarts DEF Loop
<1>2. CASE Reset
  BY <1>2, LoopRestarts
<1>3. CASE DeviceComesOrGoes
  BY <1>3 DEF DeviceComesOrGoes, OtaMove
<1>4. CASE \E c \in Channels : Release(c)
  BY <1>4 DEF Release, OtaMove
<1>5. CASE \E timer \in Timers : Tick(timer)
  BY <1>5 DEF Tick, OtaMove
<1>6. CASE UNCHANGED policyVars
  BY <1>6 DEF policyVars, OtaMove
<1> QED
  BY <1>1, <1>2, <1>3, <1>4, <1>5, <1>6 DEF PolicyNext

-----------------------------------------------------------------------------
(***************************************************************************)
(* The uplink, and the version taken for the newest.                       *)
(***************************************************************************)
Answer == [version : Versions, channel : Channels]

UplinkTyped ==
    /\ channel \in Channels
    /\ latest \in Answer \cup {NoVersion}
    /\ link \in BOOLEAN
    /\ answers \in Seq(Answer) /\ Len(answers) <= MaxAnswers
    /\ checkDue \in BOOLEAN

\* What one step does to it: lose the connection, connect, read an answer, change
\* the channel, ask, or take note of what OtaManager found.
UplinkMove ==
    \/ /\ link' = FALSE /\ answers' = <<>>
       /\ latest' \in {latest, NoVersion} /\ channel' \in {channel, Stable}
       /\ checkDue' \in {checkDue, TRUE}
    \/ /\ link' = TRUE /\ answers' = <<Newest(channel)>>
       /\ UNCHANGED <<channel, latest, checkDue>>
    \/ /\ answers # <<>> /\ latest' = Head(answers) /\ answers' = Tail(answers)
       /\ UNCHANGED <<channel, link, checkDue>>
    \/ /\ channel' \in Channels /\ latest' = NoVersion /\ checkDue' = TRUE
       /\ UNCHANGED uplinkVars
    \/ VersionCheck /\ UNCHANGED <<channel, latest>>
    \/ /\ latest' \in {latest, NoVersion} \/ (phase = "ready" /\ latest' = Offered)
       /\ checkDue' \in {checkDue, TRUE}
       /\ UNCHANGED <<channel, uplinkVars>>

LEMMA RestartMovesUplink ==
    ASSUME Reset \/ CommandConfig \/ CommandReset
    PROVE  UplinkMove
BY DEF Reset, CommandConfig, CommandReset, Restart, UplinkMove

LEMMA LoopMovesUplink ==
    ASSUME Loop
    PROVE  UplinkMove
<1>1. CASE CommandConfig \/ CommandReset
  BY <1>1, RestartMovesUplink
<1>2. CASE InstallReturns
  BY <1>2, RestartMovesUplink DEF InstallReturns, UplinkMove, uplinkVars, timerVars
<1>3. CASE Connect
  BY <1>3 DEF Connect, UplinkMove, timerVars
<1>4. CASE Disconnect
  BY <1>4 DEF Disconnect, UplinkMove, timerVars
<1>5. CASE ReadAnswer
  BY <1>5 DEF ReadAnswer, UplinkMove
<1>6. CASE \E c \in Channels : SetChannel(c)
  BY <1>6 DEF SetChannel, UplinkMove, uplinkVars
<1>7. CASE Attended \/ SelfCheck \/ NothingToApply \/ AutoApply
  BY <1>7 DEF Attended, SelfCheck, NothingToApply, AutoApply, Unattended, UplinkMove
<1>8. CASE CommandCheckReturns \/ SelfCheckReturns
  BY <1>8 DEF CommandCheckReturns, SelfCheckReturns, UplinkMove, uplinkVars, timerVars
<1>9. CASE BootCheck \/ BootOffline \/ Ota \/ Quiet \/ CommandCheck \/ CommandApply \/ ApplyUpdate
  BY <1>9 DEF BootCheck, BootOffline, Ota, Quiet, CommandCheck, CommandApply, ApplyUpdate,
              UplinkMove, uplinkVars, timerVars
<1> QED
  BY <1>1, <1>2, <1>3, <1>4, <1>5, <1>6, <1>7, <1>8, <1>9 DEF Loop

LEMMA PolicyStepMovesUplink ==
    ASSUME [PolicyNext]_policyVars
    PROVE  UplinkMove
<1>1. CASE Loop
  BY <1>1, LoopMovesUplink
<1>2. CASE Reset
  BY <1>2, RestartMovesUplink
<1>3. CASE DeviceComesOrGoes \/ \E c \in Channels : Release(c)
  BY <1>3 DEF DeviceComesOrGoes, Release, UplinkMove, uplinkVars, timerVars
<1>4. ASSUME NEW timer \in Timers, Tick(timer)
      PROVE  UplinkMove
  <2>1. UNCHANGED <<channel, latest, uplinkVars>>
    BY <1>4 DEF Tick
  <2>2. checkDue' \in {checkDue, TRUE}
    BY <1>4 DEF Tick
  <2> QED
    BY <2>1, <2>2 DEF UplinkMove
<1>5. CASE UNCHANGED policyVars
  BY <1>5 DEF policyVars, UplinkMove, uplinkVars, timerVars
<1> QED
  BY <1>1, <1>2, <1>3, <1>4, <1>5 DEF PolicyNext

LEMMA UplinkTypedInit == PolicyInit => UplinkTyped
<1> SUFFICES ASSUME PolicyInit PROVE UplinkTyped
  OBVIOUS
<1>1. <<>> \in Seq(Answer) /\ Len(<<>>) = 0
  OBVIOUS
<1>2. answers = <<>> /\ channel = Stable /\ latest = NoVersion /\ link = FALSE /\ checkDue = TRUE
  BY DEF PolicyInit
<1>3. answers \in Seq(Answer) /\ Len(answers) <= MaxAnswers
  BY <1>1, <1>2, PolicyConstants
<1> QED
  BY <1>2, <1>3, PolicyConstants DEF UplinkTyped

LEMMA NewestIsAnswer ==
    ASSUME OtaTypeOK, channel \in Channels
    PROVE  Newest(channel) \in Answer
BY DEF OtaTypeOK, Newest, Answer

LEMMA UplinkTypedStep ==
    ASSUME InstallInv, UplinkTyped, UplinkMove
    PROVE  UplinkTyped'
<1> USE PolicyConstants DEF UplinkTyped
<1>1. Newest(channel) \in Answer
  BY NewestIsAnswer DEF InstallInv
<1>2. <<>> \in Seq(Answer) /\ Len(<<>>) = 0
  OBVIOUS
<1>3. CASE /\ link' = FALSE /\ answers' = <<>>
           /\ latest' \in {latest, NoVersion} /\ channel' \in {channel, Stable}
           /\ checkDue' \in {checkDue, TRUE}
  <2>1. answers' \in Seq(Answer) /\ Len(answers') <= MaxAnswers
    BY <1>2, <1>3
  <2> QED
    BY <1>3, <2>1
<1>4. CASE /\ link' = TRUE /\ answers' = <<Newest(channel)>>
           /\ UNCHANGED <<channel, latest, checkDue>>
  <2>1. answers' \in Seq(Answer) /\ Len(answers') = 1
    BY <1>1, <1>4
  <2> QED
    BY <1>4, <2>1
<1>5. CASE /\ answers # <<>> /\ latest' = Head(answers) /\ answers' = Tail(answers)
           /\ UNCHANGED <<channel, link, checkDue>>
  <2>1. latest' \in Answer /\ answers' \in Seq(Answer) /\ Len(answers') = Len(answers) - 1
    BY <1>5, HeadTailProperties
  <2>2. Len(answers) \in Nat /\ Len(answers') <= MaxAnswers
    BY <2>1, LenProperties
  <2> QED
    BY <1>5, <2>1, <2>2
<1>6. CASE /\ channel' \in Channels /\ latest' = NoVersion /\ checkDue' = TRUE
           /\ UNCHANGED uplinkVars
  BY <1>6 DEF uplinkVars
<1>7. CASE VersionCheck /\ UNCHANGED <<channel, latest>>
  <2>1. CASE link /\ checkDue /\ Len(answers) < MaxAnswers
    <3>1. answers' = Append(answers, Newest(channel)) /\ checkDue' = FALSE /\ link' = link
      BY <1>7, <2>1 DEF VersionCheck
    <3>2. answers' \in Seq(Answer) /\ Len(answers') = Len(answers) + 1
      BY <1>1, <3>1, AppendProperties
    <3>3. Len(answers) \in Nat /\ Len(answers') <= MaxAnswers
      BY <2>1, <3>2, LenProperties
    <3> QED
      BY <1>7, <3>1, <3>2, <3>3
  <2>2. CASE ~(link /\ checkDue /\ Len(answers) < MaxAnswers)
    <3>1. UNCHANGED <<uplinkVars, checkDue>>
      BY <1>7, <2>2 DEF VersionCheck
    <3> QED
      BY <1>7, <3>1 DEF uplinkVars
  <2> QED
    BY <2>1, <2>2
<1>8. CASE /\ latest' \in {latest, NoVersion} \/ (phase = "ready" /\ latest' = Offered)
           /\ checkDue' \in {checkDue, TRUE}
           /\ UNCHANGED <<channel, uplinkVars>>
  <2>1. phase = "ready" => Offered \in Answer
    BY DEF InstallInv, NewerChosen, Offered, Answer
  <2>2. latest' \in Answer \cup {NoVersion}
    BY <1>8, <2>1
  <2> QED
    BY <1>8, <2>2 DEF uplinkVars
<1> QED
  BY <1>3, <1>4, <1>5, <1>6, <1>7, <1>8 DEF UplinkMove

\* The rest of the state.
TimersTyped ==
    /\ lp \in {"boot", "uplink", "required", "requested"}
    /\ selfDue \in BOOLEAN /\ grace \in BOOLEAN /\ accept \in BOOLEAN /\ live \in BOOLEAN
    /\ idle \in {"no", "yes", "long"}
    /\ retry \in {"open", "blocked", "past"}
    /\ pending \in {"no", "asked", "due"}

LEMMA RestartTyped ==
    ASSUME TimersTyped, Reset \/ CommandConfig \/ CommandReset
    PROVE  TimersTyped'
BY DEF Reset, CommandConfig, CommandReset, Restart, TimersTyped

LEMMA RequiredUpdateTyped ==
    ASSUME TimersTyped, Attended \/ SelfCheck \/ NothingToApply \/ AutoApply
    PROVE  TimersTyped'
<1>1. accept' \in BOOLEAN
  BY DEF Attended, SelfCheck, NothingToApply, AutoApply, Unattended, PairingLock
<1>2. lp' \in {"boot", "uplink", "required", "requested"}
  BY DEF Attended, SelfCheck, NothingToApply, AutoApply, Unattended, Onwards, GoTo, Call
<1>3. UNCHANGED live /\ UNCHANGED grace /\ selfDue' \in {selfDue, FALSE}
  BY DEF Attended, SelfCheck, NothingToApply, AutoApply, Unattended
<1>4. /\ idle' \in {idle, "no", "yes"} /\ retry' \in {retry, "blocked"}
      /\ pending' \in {pending, "due"}
  BY DEF Attended, SelfCheck, NothingToApply, AutoApply, Unattended
<1> QED
  BY <1>1, <1>2, <1>3, <1>4 DEF TimersTyped

LEMMA TickTyped ==
    ASSUME TimersTyped, NEW timer \in Timers, Tick(timer)
    PROVE  TimersTyped'
<1>1. UNCHANGED <<lp, accept, live>>
  BY DEF Tick
<1>2. selfDue' \in BOOLEAN
  BY DEF Tick, TimersTyped
<1>3. grace' \in BOOLEAN
  BY DEF Tick, TimersTyped
<1>4. /\ idle' \in {idle, "long"} /\ retry' \in {retry, "past", "blocked"}
      /\ pending' \in {pending, "due"}
  BY DEF Tick
<1> QED
  BY <1>1, <1>2, <1>3, <1>4 DEF TimersTyped

LEMMA TimersTypedStep ==
    ASSUME TimersTyped, [PolicyNext]_policyVars
    PROVE  TimersTyped'
<1>1. CASE Reset \/ CommandConfig \/ CommandReset
  BY <1>1, RestartTyped
<1>2. CASE Attended \/ SelfCheck \/ NothingToApply \/ AutoApply
  BY <1>2, RequiredUpdateTyped
<1>3. CASE \E timer \in Timers : Tick(timer)
  BY <1>3, TickTyped
<1>4. CASE InstallReturns
  BY <1>4, RestartTyped DEF InstallReturns, GoTo, timerVars, TimersTyped
<1>5. CASE DeviceComesOrGoes
  <2>1. live' \in BOOLEAN /\ UNCHANGED <<lp, accept, timerVars>>
    BY <1>5 DEF DeviceComesOrGoes
  <2> QED
    BY <2>1 DEF timerVars, TimersTyped
<1>6. CASE ReadAnswer \/ CommandApply \/ \E c \in Channels : SetChannel(c)
  BY <1>6 DEF ReadAnswer, CommandApply, SetChannel, GoTo, TimersTyped
<1>7. CASE BootCheck \/ BootOffline \/ Ota \/ Quiet \/ Connect \/ Disconnect
  BY <1>7 DEF BootCheck, BootOffline, Ota, Quiet, Connect, Disconnect, GoTo, Call, timerVars,
              TimersTyped
<1>8. CASE \/ CommandCheck \/ CommandCheckReturns \/ SelfCheckReturns \/ ApplyUpdate
           \/ \E c \in Channels : Release(c)
  BY <1>8 DEF CommandCheck, CommandCheckReturns, SelfCheckReturns, ApplyUpdate, Release, GoTo,
              Call, timerVars, TimersTyped
<1>9. CASE UNCHANGED policyVars
  BY <1>9 DEF policyVars, timerVars, TimersTyped
<1> QED
  BY <1>1, <1>2, <1>3, <1>4, <1>5, <1>6, <1>7, <1>8, <1>9 DEF PolicyNext, Loop

-----------------------------------------------------------------------------
(***************************************************************************)
(* A version named for a channel that was left is corrected.               *)
(***************************************************************************)
\* Behind every answer for another channel comes one for this one, or the question is
\* due: without this, reading an answer could leave LatestCorrected.
AnswersCorrected ==
    link => \A j \in DOMAIN answers :
        answers[j].channel # channel =>
            checkDue \/ \E i \in DOMAIN answers : i > j /\ answers[i].channel = channel

LatestCorrected ==
    link /\ latest.version > 0 /\ latest.channel # channel =>
        checkDue \/ \E i \in DOMAIN answers : answers[i].channel = channel

Corrected == AnswersCorrected /\ LatestCorrected

LEMMA ReadKeepsCorrected ==
    ASSUME UplinkTyped, Corrected, answers # <<>>, latest' = Head(answers),
           answers' = Tail(answers), UNCHANGED <<channel, link, checkDue>>
    PROVE  Corrected'
<1>1. /\ Len(answers) \in Nat /\ Len(answers) > 0 /\ DOMAIN answers = 1 .. Len(answers)
      /\ DOMAIN answers' = 1 .. (Len(answers) - 1)
      /\ latest' = answers[1]
      /\ \A i \in 1 .. (Len(answers) - 1) : answers'[i] = answers[i + 1]
  BY HeadTailProperties, LenProperties, EmptySeq DEF UplinkTyped
<1>2. ASSUME NEW j \in DOMAIN answers, link, answers[j].channel # channel, ~checkDue
      PROVE  \E i \in DOMAIN answers' : i + 1 > j /\ answers'[i].channel = channel
  <2>1. PICK i \in DOMAIN answers : i > j /\ answers[i].channel = channel
    BY <1>2 DEF Corrected, AnswersCorrected
  <2>2. i - 1 \in DOMAIN answers' /\ (i - 1) + 1 = i
    BY <1>1, <1>2, <2>1
  <2>3. answers'[i - 1] = answers[i]
    BY <1>1, <2>2
  <2> QED
    BY <2>1, <2>2, <2>3
<1>3. AnswersCorrected'
  <2> SUFFICES ASSUME link, ~checkDue, NEW j \in DOMAIN answers', answers'[j].channel # channel
               PROVE  \E i \in DOMAIN answers' : i > j /\ answers'[i].channel = channel
    BY DEF AnswersCorrected
  <2>1. j \in Nat /\ j + 1 \in DOMAIN answers /\ answers'[j] = answers[j + 1]
    BY <1>1
  <2>2. PICK i \in DOMAIN answers' : i + 1 > j + 1 /\ answers'[i].channel = channel
    BY <1>2, <2>1
  <2> QED
    BY <1>1, <2>1, <2>2
<1>4. LatestCorrected'
  BY <1>1, <1>2 DEF LatestCorrected
<1> QED
  BY <1>3, <1>4 DEF Corrected

LEMMA VersionCheckKeepsCorrected ==
    ASSUME UplinkTyped, Corrected, VersionCheck, UNCHANGED <<channel, latest>>
    PROVE  Corrected'
<1>1. CASE link /\ checkDue /\ Len(answers) < MaxAnswers
  <2> DEFINE n == Len(answers) + 1
  <2>1. answers' = Append(answers, Newest(channel))
    BY <1>1 DEF VersionCheck
  <2>2. /\ Len(answers) \in Nat /\ DOMAIN answers = 1 .. Len(answers)
        /\ DOMAIN answers' = 1 .. n /\ answers'[n] = Newest(channel)
    BY <2>1, LenProperties DEF UplinkTyped
  <2>3. n \in DOMAIN answers' /\ answers'[n].channel = channel
    BY <2>2 DEF Newest
  <2>4. \A j \in DOMAIN answers' : j = n \/ n > j
    BY <2>2
  <2> QED
    BY <2>3, <2>4 DEF Corrected, AnswersCorrected, LatestCorrected
<1>2. CASE ~(link /\ checkDue /\ Len(answers) < MaxAnswers)
  BY <1>2 DEF VersionCheck, uplinkVars, Corrected, AnswersCorrected, LatestCorrected
<1> QED
  BY <1>1, <1>2

LEMMA CorrectedStep ==
    ASSUME UplinkTyped, Corrected, UplinkMove
    PROVE  Corrected'
<1>1. CASE link' = FALSE
  BY <1>1 DEF Corrected, AnswersCorrected, LatestCorrected
<1>2. CASE /\ link' = TRUE /\ answers' = <<Newest(channel)>>
           /\ UNCHANGED <<channel, latest, checkDue>>
  <2>1. DOMAIN answers' = {1} /\ answers'[1].channel = channel
    BY <1>2 DEF Newest
  <2> QED
    BY <1>2, <2>1 DEF Corrected, AnswersCorrected, LatestCorrected
<1>3. CASE /\ answers # <<>> /\ latest' = Head(answers) /\ answers' = Tail(answers)
           /\ UNCHANGED <<channel, link, checkDue>>
  BY <1>3, ReadKeepsCorrected
<1>4. CASE checkDue' = TRUE
  BY <1>4 DEF Corrected, AnswersCorrected, LatestCorrected
<1>5. CASE VersionCheck /\ UNCHANGED <<channel, latest>>
  BY <1>5, VersionCheckKeepsCorrected
<1>6. CASE /\ latest' \in {latest, NoVersion} \/ (phase = "ready" /\ latest' = Offered)
           /\ checkDue' = checkDue
           /\ UNCHANGED <<channel, uplinkVars>>
  <2>1. AnswersCorrected'
    BY <1>6 DEF uplinkVars, Corrected, AnswersCorrected
  <2>2. LatestCorrected'
    BY <1>6 DEF uplinkVars, Corrected, LatestCorrected, NoVersion, Offered
  <2> QED
    BY <2>1, <2>2 DEF Corrected
<1> QED
  BY <1>1, <1>2, <1>3, <1>4, <1>5, <1>6 DEF UplinkMove

-----------------------------------------------------------------------------
(***************************************************************************)
(* The theorems.                                                           *)
(***************************************************************************)
PolicyInv == InstallInv /\ Busyness /\ UplinkTyped /\ TimersTyped /\ Corrected

LEMMA PolicyInvInit == PolicyInit => PolicyInv
<1> SUFFICES ASSUME PolicyInit PROVE PolicyInv
  OBVIOUS
<1>1. InstallInv
  BY InstallInvInit DEF PolicyInit
<1>2. Busyness
  BY DEF PolicyInit, OtaInit, Busyness
<1>3. UplinkTyped
  BY UplinkTypedInit
<1>4. TimersTyped
  BY DEF PolicyInit, TimersTyped
<1>5. Corrected
  BY DEF PolicyInit, Corrected, AnswersCorrected, LatestCorrected
<1> QED
  BY <1>1, <1>2, <1>3, <1>4, <1>5 DEF PolicyInv

LEMMA PolicyInvStep ==
    PolicyInv /\ [PolicyNext]_policyVars => PolicyInv'
<1> SUFFICES ASSUME PolicyInv, [PolicyNext]_policyVars PROVE PolicyInv'
  OBVIOUS
<1>1. OtaMove /\ UplinkMove
  BY PolicyStepIsOtaMove, PolicyStepMovesUplink DEF PolicyInv
<1>2. InstallInv' /\ Busyness'
  BY <1>1, InstallInvStep DEF PolicyInv, UplinkTyped
<1>3. UplinkTyped'
  BY <1>1, UplinkTypedStep DEF PolicyInv
<1>4. TimersTyped'
  BY TimersTypedStep DEF PolicyInv
<1>5. Corrected'
  BY <1>1, CorrectedStep DEF PolicyInv
<1> QED
  BY <1>2, <1>3, <1>4, <1>5 DEF PolicyInv

LEMMA PolicyInvAlways == PolicySpec => []PolicyInv
BY PolicyInvInit, PolicyInvStep, PTL DEF PolicySpec

\* The state is well typed, and OtaManager (OtaManager.cpp) is at work exactly while the
\* loop task is inside it.
THEOREM PolicyTyped == PolicySpec => []PolicyTypeOK
<1>1. PolicyInv => PolicyTypeOK
  BY DEF PolicyInv, InstallInv, Busyness, UplinkTyped, TimersTyped, PolicyTypeOK, Answer
<1> QED
  BY <1>1, PolicyInvAlways, PTL

\* For files of any length and any releases: the image the Hub boots from next is
\* complete and never older than the one that runs (downloadAndApply()).
THEOREM BootSound == PolicySpec => []BootImageSound
<1>1. PolicyInv => BootImageSound
  BY DEF PolicyInv, InstallInv
<1> QED
  BY <1>1, PolicyInvAlways, PTL

\* Between two operations an update is left open only behind a digest that did not
\* match (downloadAndApply()'s sha256_mismatch return).
THEOREM LeftOpenByMismatch == PolicySpec => []OpenOnlyAfterMismatch
<1>1. PolicyInv => OpenOnlyAfterMismatch
  BY DEF PolicyInv, InstallInv, Busyness, OpenWhileWriting, OpenOnlyAfterMismatch
<1> QED
  BY <1>1, PolicyInvAlways, PTL

\* Whatever number of answers are under way when the channel changes: a version named
\* for a channel that was left does not stay (setChannel and onUplinkLatestVersion()).
THEOREM StaleVersionCorrected == PolicySpec => []CorrectionUnderWay
<1>1. PolicyInv => CorrectionUnderWay
  BY DEF PolicyInv, Corrected, LatestCorrected, CorrectionUnderWay
<1> QED
  BY <1>1, PolicyInvAlways, PTL
============================================================================
