--------------------------- MODULE UpdatePolicy ---------------------------
(***************************************************************************)
(* The update policy of newhorizons_hub.ino: which release the Hub takes   *)
(* for the newest, whether an update is required, what that forbids, and   *)
(* when the Hub updates itself -- at boot, when told to, or once no device *)
(* has been online for a while.                                            *)
(*                                                                         *)
(* loop() runs uplink.service(), serviceRequiredUpdate() and               *)
(* serviceRequestedUpdate() in this order; lp says which is next, and      *)
(* `calling` that it is inside OtaManager, which blocks it.  The uplink    *)
(* carries version questions and their answers in order; a connection that *)
(* closes, which service() notices, loses the answers under way.           *)
(*                                                                         *)
(* A timer is what the code's comparison makes of it, and time moves it on *)
(* (Tick).  Devices, and time, move between two iterations of loop(): what *)
(* happens in one acts as if it had happened just before it, for nothing   *)
(* up to serviceRequiredUpdate() reads it.                                 *)
(***************************************************************************)
EXTENDS OtaManager, Sequences

CONSTANTS
    Stable,       \* kUpdateChannelStable
    MaxAnswers    \* bound: how many version answers may be under way

ASSUME PolicyConstants == Stable \in Channels /\ MaxAnswers \in Nat \ {0}

VARIABLES
    channel,    \* HubConfig's updateChannel, persisted
    latest,     \* latestHubVersion, and the channel whose newest it was; 0 if empty
    lp,         \* where the loop task is
    calling,    \* it is inside OtaManager
    link,       \* the uplink is connected (and has said hello)
    answers,    \* versions the Backend has sent that are not yet read
    checkDue,   \* no version check was sent, or kVersionCheckIntervalMs ago
    selfDue,    \* kManifestSelfCheckIntervalMs have passed since the Backend's last
                \* answer, if any, and since the last self check, if any
    grace,      \* kNewDeviceLockGraceMs after boot are not over
    accept,     \* acceptNewDevices_
    live,       \* a device is live, or a relay session is active
    idle,       \* idleTracking: "no", or since less ("yes") or more ("long") than
                \* kAutoApplyIdleMs
    retry,      \* autoApplyBlocked: "open", or until a time that reads as to come
                \* ("blocked") or as past ("past")
    pending     \* pendingApplyUpdate: "no", or asked for less ("asked") or more ("due")
                \* than 500 ms ago

uplinkVars == <<link, answers>>
timerVars == <<checkDue, selfDue, grace, idle, retry, pending>>
policyVars == <<otaVars, channel, latest, lp, calling, uplinkVars, accept, live, timerVars>>

NoVersion == [version |-> 0, channel |-> Stable]

Newest(c) == [version |-> newest[c], channel |-> c]

\* requiredUpdate, which setLatestHubVersion() derives from its argument.
Required == latest.version > running

-----------------------------------------------------------------------------
(***************************************************************************)
(* Boot.  Any reset clears everything but the configuration and the image. *)
(***************************************************************************)
Restart ==
    /\ OtaReset
    /\ lp' = "boot"
    /\ calling' = FALSE
    /\ link' = FALSE
    /\ answers' = <<>>
    /\ live' = FALSE
    /\ latest' = NoVersion
    /\ checkDue' = TRUE
    /\ selfDue' = TRUE
    /\ grace' = TRUE
    /\ accept' = TRUE
    /\ idle' = "no"
    /\ retry' = "open"
    /\ pending' = "no"

\* Power loss, a crash, or a restart that keeps the configuration.
Reset == Restart /\ UNCHANGED channel

At(place) == lp = place /\ ~calling

GoTo(place) == lp' = place /\ calling' = FALSE

Call(place) == lp' = place /\ calling' = TRUE /\ BeginCheck

\* serviceAutoOta(), if Wi-Fi came up.
BootCheck ==
    /\ At("boot")
    /\ Call("boot")
    /\ UNCHANGED <<channel, latest, uplinkVars, accept, live, timerVars>>

BootOffline ==
    /\ At("boot")
    /\ GoTo("uplink")
    /\ UNCHANGED <<otaVars, channel, latest, uplinkVars, accept, live, timerVars>>

\* Inside OtaManager; which place called it decides whether it installs.
Ota ==
    /\ calling
    /\ OtaStep(channel, lp \in {"boot", "requested"})
    /\ UNCHANGED <<channel, latest, lp, calling, uplinkVars, accept, live, timerVars>>

CallEnds(place) == calling /\ lp = place /\ phase \notin Working

\* serviceAutoOta() and serviceRequestedUpdate() restart into what they applied.
InstallReturns ==
    /\ \E place \in {"boot", "requested"} : CallEnds(place)
    /\ IF phase = "applied"
       THEN Reset
       ELSE /\ Return
            /\ GoTo("uplink")
            /\ UNCHANGED <<channel, latest, uplinkVars, accept, live, timerVars>>

-----------------------------------------------------------------------------
(***************************************************************************)
(* uplink.service(): at most one message is read.                          *)
(***************************************************************************)
Quiet ==
    /\ At("uplink")
    /\ GoTo("required")
    /\ UNCHANGED <<otaVars, channel, latest, uplinkVars, accept, live, timerVars>>

\* CONNECTED: hello names the channel, and its ack the newest version.
Connect ==
    /\ At("uplink")
    /\ ~link
    /\ link' = TRUE
    /\ answers' = <<Newest(channel)>>
    /\ GoTo("required")
    /\ UNCHANGED <<otaVars, channel, latest, accept, live, timerVars>>

Disconnect ==
    /\ At("uplink")
    /\ link
    /\ link' = FALSE
    /\ answers' = <<>>
    /\ GoTo("required")
    /\ UNCHANGED <<otaVars, channel, latest, accept, live, timerVars>>

\* onUplinkLatestVersion().
ReadAnswer ==
    /\ At("uplink")
    /\ answers # <<>>
    /\ latest' = Head(answers)
    /\ answers' = Tail(answers)
    /\ selfDue' = FALSE
    /\ GoTo("required")
    /\ UNCHANGED <<otaVars, channel, link, accept, live, checkDue, grace, idle, retry, pending>>

\* check_update.
CommandCheck ==
    /\ At("uplink")
    /\ link
    /\ Call("uplink")
    /\ UNCHANGED <<channel, latest, uplinkVars, accept, live, timerVars>>

Offered == [version |-> image.version, channel |-> channel]

CommandCheckReturns ==
    /\ CallEnds("uplink")
    /\ latest' = CASE phase = "error" -> latest
                   [] phase = "ready" -> Offered
                   [] OTHER -> NoVersion
    /\ Return
    /\ GoTo("required")
    /\ UNCHANGED <<channel, uplinkVars, accept, live, timerVars>>

\* Mutant: the new channel's newest version is not asked for at once.
SetChannelWithoutAsking(c) ==
    /\ At("uplink")
    /\ link
    /\ channel' = c
    /\ latest' = NoVersion
    /\ retry' = "open"
    /\ GoTo("required")
    /\ UNCHANGED <<otaVars, uplinkVars, accept, live, checkDue, selfDue, grace, idle, pending>>

\* set_update_channel.
SetChannel(c) ==
    /\ At("uplink")
    /\ link
    /\ channel' = c
    /\ latest' = NoVersion
    /\ retry' = "open"
    /\ checkDue' = TRUE
    /\ GoTo("required")
    /\ UNCHANGED <<otaVars, uplinkVars, accept, live, selfDue, grace, idle, pending>>

\* apply_update.
CommandApply ==
    /\ At("uplink")
    /\ link
    /\ pending' = "asked"
    /\ GoTo("required")
    /\ UNCHANGED <<otaVars, channel, latest, uplinkVars, accept, live, checkDue, selfDue,
                   grace, idle, retry>>

\* set_config: while an update is required it is refused (see Quiet), else a restart.
CommandConfig ==
    /\ At("uplink")
    /\ link
    /\ ~Required
    /\ Reset

\* factory_reset.
CommandReset ==
    /\ At("uplink")
    /\ link
    /\ channel' = Stable
    /\ Restart

-----------------------------------------------------------------------------
(***************************************************************************)
(* serviceRequiredUpdate().  It begins with a version check and the        *)
(* pairing lock, whatever the rest does; serviceRequestedUpdate() follows, *)
(* and does nothing unless an update is due.                               *)
(***************************************************************************)
\* A send that fails leaves the check due.
VersionCheck ==
    IF link /\ checkDue /\ Len(answers) < MaxAnswers
    THEN /\ answers' = Append(answers, Newest(channel))
         /\ checkDue' = FALSE
         /\ UNCHANGED link
    ELSE UNCHANGED <<uplinkVars, checkDue>>

PairingLock == accept' = (~Required \/ grace)

Onwards == GoTo(IF pending' = "due" THEN "requested" ELSE "uplink")

\* Mutant: the pairing lock is brought up to date only past the idle test.
AttendedLockKept ==
    /\ At("required")
    /\ live \/ pending # "no"
    /\ VersionCheck
    /\ idle' = "no"
    /\ UNCHANGED <<otaVars, channel, latest, accept, live, selfDue, grace, retry, pending>>
    /\ Onwards

\* A device is live, a relay active or an update asked for.
Attended ==
    /\ At("required")
    /\ live \/ pending # "no"
    /\ VersionCheck
    /\ PairingLock
    /\ idle' = "no"
    /\ UNCHANGED <<otaVars, channel, latest, live, selfDue, grace, retry, pending>>
    /\ Onwards

Unattended ==
    /\ At("required")
    /\ ~live
    /\ pending = "no"
    /\ VersionCheck
    /\ PairingLock
    /\ idle' = IF idle = "no" THEN "yes" ELSE idle
    /\ UNCHANGED <<channel, latest, live, grace>>

\* The Hub reads the manifest itself; without Wi-Fi it cannot.
SelfCheck ==
    /\ Unattended
    /\ idle = "long"
    /\ ~Required
    /\ selfDue
    /\ selfDue' = FALSE
    /\ Call("required")
    /\ UNCHANGED <<retry, pending>>

SelfCheckReturns ==
    /\ CallEnds("required")
    /\ latest' = IF phase = "ready" THEN Offered ELSE latest
    /\ Return
    /\ GoTo("uplink")
    /\ UNCHANGED <<channel, uplinkVars, accept, live, timerVars>>

\* Mutant: once a retry was put off, it is put off for ever.
RetryPutOffForEver == retry # "open"

RetryPutOff == retry = "blocked"

NothingToApply ==
    /\ Unattended
    /\ \/ idle # "long"
       \/ ~Required /\ (selfDue => ~link)
       \/ Required /\ RetryPutOff
    /\ UNCHANGED <<otaVars, selfDue, retry, pending>>
    /\ Onwards

AutoApply ==
    /\ Unattended
    /\ idle = "long"
    /\ Required
    /\ ~RetryPutOff
    /\ retry' = "blocked"
    /\ pending' = "due"
    /\ UNCHANGED <<otaVars, selfDue>>
    /\ Onwards

\* serviceRequestedUpdate().
ApplyUpdate ==
    /\ At("requested")
    /\ pending' = "no"
    /\ Call("requested")
    /\ UNCHANGED <<channel, latest, uplinkVars, accept, live, checkDue, selfDue, grace, idle,
                   retry>>

Loop ==
    \/ BootCheck
    \/ BootOffline
    \/ Ota
    \/ InstallReturns
    \/ Quiet
    \/ Connect
    \/ Disconnect
    \/ ReadAnswer
    \/ CommandCheck
    \/ CommandCheckReturns
    \/ \E c \in Channels : SetChannel(c)
    \/ CommandApply
    \/ CommandConfig
    \/ CommandReset
    \/ Attended
    \/ SelfCheck
    \/ SelfCheckReturns
    \/ NothingToApply
    \/ AutoApply
    \/ ApplyUpdate

-----------------------------------------------------------------------------
(***************************************************************************)
(* The environment: devices, releases and time.                            *)
(***************************************************************************)
DeviceComesOrGoes ==
    /\ At("uplink")
    /\ live' = ~live
    /\ UNCHANGED <<otaVars, channel, latest, lp, calling, uplinkVars, accept, timerVars>>

Release(c) ==
    /\ Publish(c)
    /\ UNCHANGED <<channel, latest, lp, calling, uplinkVars, accept, live, timerVars>>

\* A time 2^31 ms past reads as to come again.  That long passes only while
\* something keeps the Hub from applying an update.
Wraps == retry = "past" /\ (live \/ ~Required)

Tick(timer) ==
    /\ At("uplink")
    /\ UNCHANGED <<otaVars, channel, latest, lp, calling, uplinkVars, accept, live>>
    /\ \/ timer = "check" /\ ~checkDue /\ checkDue' = TRUE
          /\ UNCHANGED <<selfDue, grace, idle, retry, pending>>
       \/ timer = "self" /\ ~selfDue /\ selfDue' = TRUE
          /\ UNCHANGED <<checkDue, grace, idle, retry, pending>>
       \/ timer = "grace" /\ grace /\ grace' = FALSE
          /\ UNCHANGED <<checkDue, selfDue, idle, retry, pending>>
       \/ timer = "idle" /\ idle = "yes" /\ idle' = "long"
          /\ UNCHANGED <<checkDue, selfDue, grace, retry, pending>>
       \/ timer = "retry" /\ retry = "blocked" /\ retry' = "past"
          /\ UNCHANGED <<checkDue, selfDue, grace, idle, pending>>
       \/ timer = "wrap" /\ Wraps /\ retry' = "blocked"
          /\ UNCHANGED <<checkDue, selfDue, grace, idle, pending>>
       \/ timer = "pending" /\ pending = "asked" /\ pending' = "due"
          /\ UNCHANGED <<checkDue, selfDue, grace, idle, retry>>

Timers == {"check", "self", "grace", "idle", "retry", "wrap", "pending"}

PolicyInit ==
    /\ OtaInit
    /\ channel = Stable
    /\ latest = NoVersion
    /\ lp = "boot"
    /\ calling = FALSE
    /\ link = FALSE
    /\ answers = <<>>
    /\ checkDue = TRUE
    /\ selfDue = TRUE
    /\ grace = TRUE
    /\ accept = TRUE
    /\ live = FALSE
    /\ idle = "no"
    /\ retry = "open"
    /\ pending = "no"

PolicyNext ==
    \/ Loop
    \/ Reset
    \/ DeviceComesOrGoes
    \/ \E c \in Channels : Release(c)
    \/ \E timer \in Timers : Tick(timer)

PolicySpec == PolicyInit /\ [][PolicyNext]_policyVars

\* The loop task runs, the network delivers what was sent on a connection that
\* stays up, and time passes.
PolicyFairness ==
    /\ WF_policyVars(Loop)
    /\ SF_policyVars(ReadAnswer)
    /\ \A timer \in Timers \ {"wrap"} : SF_policyVars(Tick(timer))

PolicyFairSpec == PolicySpec /\ PolicyFairness

-----------------------------------------------------------------------------
(***************************************************************************)
(* Properties.                                                             *)
(***************************************************************************)
\* The state is well typed, and OtaManager is at work only for the loop task,
\* which waits for it.
PolicyTypeOK ==
    /\ OtaTypeOK
    /\ channel \in Channels
    /\ latest \in [version : Versions, channel : Channels] \cup {NoVersion}
    /\ lp \in {"boot", "uplink", "required", "requested"}
    /\ (phase # "idle") = calling
    /\ link \in BOOLEAN
    /\ answers \in Seq([version : Versions, channel : Channels]) /\ Len(answers) <= MaxAnswers
    /\ {checkDue, selfDue, grace, accept, live} \subseteq BOOLEAN
    /\ idle \in {"no", "yes", "long"}
    /\ retry \in {"open", "blocked", "past"}
    /\ pending \in {"no", "asked", "due"}

\* Whatever happens during a download -- a spoilt or a short file, a timeout, a
\* reset, a change of channel -- the image the Hub will boot from is complete and
\* never older than the one that runs ("Leaving beta never downgrades", ino).
BootImageSound == boot.intact /\ boot.version >= running

\* downloadAndApply() leaves the update it began open, so that Update.begin()
\* refuses every later one until a reset, in one case only: the digest of a
\* download did not match.  No timeout, failed write or lost connection does.
OpenOnlyAfterMismatch == open /\ ~calling => spoilt

\* A version that an answer under way named for a channel the Hub has left since
\* may be taken for the newest, and an update be required by it.  It will not
\* last: while the uplink is up, the question that corrects it is due, or its
\* answer under way (setChannel's versionCheckSent = false, and hello).
CorrectionUnderWay ==
    At("uplink") /\ link /\ latest.version > 0 /\ latest.channel # channel =>
        checkDue \/ \E i \in DOMAIN answers : answers[i].channel = channel

\* Once no device comes any more, downloads succeed and nobody sends apply_update
\* (each one starts its 500 ms anew), a required update is installed, or is no
\* longer required: no idle timer, retry time, self check or reset postpones it for
\* ever.  There are two exceptions: an update left open, and
\* a version that was named for a channel the Hub has left, which nothing but an
\* answer of the Backend corrects.
RequiredUpdateInstalled ==
    (<>[]~live /\ <>[][~(OtaFails \/ CommandApply)]_policyVars) =>
        []<>(~Required \/ open \/ latest.channel # channel)

\* New pairings are not refused for ever once no update is required, however long
\* devices stay: serviceRequiredUpdate() sets the lock before it looks at them.
PairingLockLifted == (~accept /\ ~Required) ~> (accept \/ Required)
============================================================================
