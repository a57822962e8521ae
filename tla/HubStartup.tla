---------------------------- MODULE HubStartup ----------------------------
(***************************************************************************)
(* How the Hub starts and how its settings live through resets: setup()    *)
(* and loop() of newhorizons_hub.ino, the quick-boot counter, HubConfig,   *)
(* HubConfigPortal and WifiManager.                                        *)
(*                                                                         *)
(* Every setting is an NVS key written by itself.  What the code writes in *)
(* a row is in `todo`; the power may be cut between any two writes, and    *)
(* the next boot finds what was written so far.  A generated gateway id    *)
(* always differs from "": which one it is, and of URL and token anything  *)
(* but whether they are set, is left out.                                  *)
(*                                                                         *)
(* SetupPortal, which serves the two setup pages, is external: it calls    *)
(* the hooks once the Wi-Fi of the form could be joined, and restarts the  *)
(* Hub after they saved it, or reset it.                                   *)
(***************************************************************************)
EXTENDS PowerManager

CONSTANTS
    Networks,     \* Wi-Fi networks; a password is named for the one it opens, and
                  \* neither setup page takes an empty ssid
    Threshold     \* kQuickBootThreshold

ASSUME StartupConstants == "" \notin Networks /\ Threshold \in Nat \ {0}

VARIABLES
    nvs,        \* the Preferences: nvs[k] is the value of key k
    todo,       \* NVS writes the loop task is about to do, each <<key, value>>
    job,        \* what they are for
    pc,         \* where setup() or loop() goes on after them
    portalMode, \* portalMode
    cfg,        \* HubConfig's data_: gateway id, target mode, URL
    wifi,       \* the station is connected
    setupAp,    \* WifiManager's setupActive_
    uplink,     \* uplinkStarted
    page,       \* what the setup page accepted: the form, or NoForm
    graceOver,  \* kQuickBootGraceMs after boot are over
    cleared,    \* quickBootCounterCleared
    quick,      \* history: boots in a row, this one included, that have not come
                \* through an iteration of loop() after their grace
    torn        \* history: settings were cut short while they were written

ramVars == <<cfg, wifi, setupAp, uplink, page>>
bootVars == <<graceOver, cleared>>
startupVars == <<powerVars, nvs, todo, job, pc, portalMode, ramVars, bootVars, quick, torn>>

Channels == {"stable", "beta"}
Modes == {"production", "manual"}
NoForm == [ssid |-> "", mode |-> "", url |-> FALSE, token |-> FALSE]

Fresh == [ssid |-> "", pass |-> "", id |-> FALSE, mode |-> "", url |-> FALSE,
          token |-> FALSE, channel |-> "stable", count |-> 0]

\* Nothing was read from NVS yet.
NoConfig == [id |-> FALSE, mode |-> "production", url |-> FALSE]

-----------------------------------------------------------------------------
(***************************************************************************)
(* NVS.                                                                    *)
(***************************************************************************)
Idle == todo = <<>>

Write(writes, what, then) ==
    /\ todo' = writes
    /\ job' = what
    /\ pc' = then

NothingToWrite(then) == Write(<<>>, "none", then)

Settings == {"quick_reset", "reset", "config"}

\* Storage::putString() or putUInt().
WriteNext ==
    /\ ~Idle
    /\ nvs' = [nvs EXCEPT ![Head(todo)[1]] = Head(todo)[2]]
    /\ todo' = Tail(todo)
    /\ IF Len(todo) = 1
       THEN job' = "none" /\ torn' = (torn /\ job \notin Settings)
       ELSE UNCHANGED <<job, torn>>
    /\ UNCHANGED <<powerVars, pc, portalMode, ramVars, bootVars, quick>>

\* Mutant: the gateway id is cleared before the Wi-Fi credentials.
IdResetFirst ==
    << <<"id", FALSE>>, <<"mode", "">>, <<"url", FALSE>>, <<"token", FALSE>>,
       <<"ssid", "">>, <<"pass", "">>, <<"channel", "stable">> >>

\* Mutant: the update channel is forgotten.
ResetKeepingChannel ==
    << <<"ssid", "">>, <<"pass", "">>, <<"id", FALSE>>, <<"mode", "">>, <<"url", FALSE>>,
       <<"token", FALSE>> >>

\* performFactoryReset(), and HubConfigPortal's.
FactoryReset ==
    << <<"ssid", "">>, <<"pass", "">>, <<"id", FALSE>>, <<"mode", "">>, <<"url", FALSE>>,
       <<"token", FALSE>>, <<"channel", "stable">> >>

\* Mutant: a manual target is accepted without its URL.
ApplicableWithoutUrl(mode, url) == mode \in Modes

\* HubConfig::apply()'s validation; the gateway id given to it is always valid here.
Applicable(mode, url) == mode \in Modes /\ (mode = "manual" => url)

ApplyWrites(mode, url, token) ==
    << <<"id", TRUE>>, <<"mode", mode>>, <<"url", url>>, <<"token", token>> >>

\* Mutant: Wi-Fi is saved before the Hub's settings.
CommitWifiFirst(form) ==
    << <<"ssid", form.ssid>>, <<"pass", form.ssid>> >>
        \o ApplyWrites(form.mode, form.url, form.token)

\* HubConfigPortal::commit().
CommitWrites(form) ==
    ApplyWrites(form.mode, form.url, form.token)
        \o << <<"ssid", form.ssid>>, <<"pass", form.ssid>> >>

-----------------------------------------------------------------------------
(***************************************************************************)
(* setup().                                                                *)
(***************************************************************************)
\* Every boot: power-up, a crash, a power cut or ESP.restart().
Boot ==
    /\ charger' = ChargerAtBoot
    /\ NothingToWrite("power")
    /\ portalMode' = FALSE
    /\ cfg' = NoConfig
    /\ wifi' = FALSE
    /\ setupAp' = FALSE
    /\ uplink' = FALSE
    /\ page' = NoForm
    /\ graceOver' = FALSE
    /\ cleared' = FALSE
    /\ quick' = IF quick < Threshold THEN quick + 1 ELSE quick
    /\ UNCHANGED nvs

\* The power is cut, with or without the charger's, or the Hub crashes.
PowerCut ==
    /\ Boot
    /\ torn' = (torn \/ job \in Settings)
    /\ chip' \in {chip, ChipAtPowerUp}

\* ESP.restart().
Restart ==
    /\ pc = "restart"
    /\ Idle
    /\ Boot
    /\ UNCHANGED <<chip, torn>>

PowerUp ==
    /\ pc = "power"
    /\ charger.step # "up"
    /\ PowerStep
    /\ UNCHANGED <<nvs, todo, job, pc, portalMode, ramVars, bootVars, quick, torn>>

\* Mutant: one boot too late.
TriggersLate(count) == count >= Threshold

Triggers(count) == count + 1 >= Threshold

\* consumeQuickBootFactoryResetTrigger(), and what setup() does if it fires.
CountBoot ==
    /\ pc = "power"
    /\ Idle
    /\ charger.step = "up"
    /\ IF Triggers(nvs.count)
       THEN /\ Write(<< <<"count", 0>> >> \o FactoryReset, "quick_reset", "load")
            /\ portalMode' = TRUE
       ELSE /\ Write(<< <<"count", nvs.count + 1>> >>, "count", "load")
            /\ UNCHANGED portalMode
    /\ UNCHANGED <<powerVars, nvs, ramVars, bootVars, quick, torn>>

\* Mutant: WifiManager::hasCredentials() is asked, before its begin().
NoCredentialsUnasked == TRUE

NoCredentials == nvs.ssid = ""

\* HubConfig::load(), and the choice of the setup portal.
Load ==
    /\ pc = "load"
    /\ Idle
    /\ cfg' = [id |-> nvs.id, mode |-> IF nvs.mode \in Modes THEN nvs.mode ELSE "production",
               url |-> nvs.url]
    /\ portalMode' = (portalMode \/ NoCredentials)
    /\ NothingToWrite(IF portalMode' THEN "loop" ELSE "connect")
    /\ UNCHANGED <<powerVars, nvs, wifi, setupAp, uplink, page, bootVars, quick, torn>>

CanConnect == nvs.ssid # "" /\ nvs.pass = nvs.ssid

\* WifiManager::begin(): connectStored(), else the Wi-Fi-only setup page.
Connect ==
    /\ pc = "connect"
    /\ \/ CanConnect /\ wifi' = TRUE /\ UNCHANGED setupAp /\ NothingToWrite("update")
       \/ setupAp' = TRUE /\ UNCHANGED wifi /\ NothingToWrite("loop")
    /\ UNCHANGED <<powerVars, nvs, portalMode, cfg, uplink, page, bootVars, quick, torn>>

\* serviceAutoOta(), which restarts into what it installed.
BootUpdate ==
    /\ pc = "update"
    /\ \/ NothingToWrite("loop")
       \/ NothingToWrite("restart")
    /\ UNCHANGED <<powerVars, nvs, portalMode, ramVars, bootVars, quick, torn>>

-----------------------------------------------------------------------------
(***************************************************************************)
(* loop().                                                                 *)
(***************************************************************************)
\* Mutant: the counter is not cleared in the setup portal.
ClearOnlyWhenServing == graceOver /\ ~cleared /\ ~portalMode

ClearDue == graceOver /\ ~cleared

\* serviceQuickBootCounterClear().
LoopBegins ==
    /\ pc = "loop"
    /\ Idle
    /\ IF ClearDue
       THEN Write(<< <<"count", 0>> >>, "clear", "serve") /\ cleared' = TRUE
       ELSE NothingToWrite("serve") /\ UNCHANGED cleared
    /\ UNCHANGED <<powerVars, nvs, portalMode, ramVars, graceOver, quick, torn>>

Serving == pc = "serve" /\ Idle

Survived == quick' = IF graceOver THEN 0 ELSE quick

\* No page is open, or nobody fills it in.
LoopEnds ==
    /\ Serving
    /\ NothingToWrite("loop")
    /\ Survived
    /\ UNCHANGED <<powerVars, nvs, portalMode, ramVars, bootVars, torn>>

\* wifi.service() and startUplinkIfReady().  A lost connection is tried again; with
\* the setup page open nothing is.
ServeWifi ==
    /\ Serving
    /\ ~portalMode
    /\ wifi' \in (IF setupAp THEN {FALSE} ELSE {FALSE, CanConnect})
    /\ uplink' = (uplink \/ (wifi' /\ cfg.id))
    /\ NothingToWrite("loop")
    /\ Survived
    /\ UNCHANGED <<powerVars, nvs, portalMode, cfg, setupAp, page, bootVars, torn>>

\* The hook save(): blank fields keep what is saved.
Save(form) ==
    /\ Serving
    /\ portalMode
    /\ page = NoForm
    /\ form.ssid # ""
    /\ Applicable(form.mode, form.url)
    /\ page' = [form EXCEPT !.token = @ \/ nvs.token]
    /\ NothingToWrite("loop")
    /\ Survived
    /\ UNCHANGED <<powerVars, nvs, portalMode, cfg, wifi, setupAp, uplink, bootVars, torn>>

\* The Wi-Fi test of the form failed.
TestFails ==
    /\ Serving
    /\ page # NoForm
    /\ page' = NoForm
    /\ NothingToWrite("loop")
    /\ Survived
    /\ UNCHANGED <<powerVars, nvs, portalMode, cfg, wifi, setupAp, uplink, bootVars, torn>>

\* onConnected: commit(), and SetupPortal's restart.
Commit ==
    /\ Serving
    /\ page # NoForm
    /\ Write(CommitWrites(page), "config", "restart")
    /\ Survived
    /\ UNCHANGED <<powerVars, nvs, portalMode, ramVars, bootVars, torn>>

\* The Wi-Fi-only page, with its test passed.
SaveWifi(network) ==
    /\ Serving
    /\ setupAp
    /\ Write(<< <<"ssid", network>>, <<"pass", network>> >>, "wifi", "restart")
    /\ Survived
    /\ UNCHANGED <<powerVars, nvs, portalMode, ramVars, bootVars, torn>>

\* Either portal's Factory Reset, or the factory_reset command.
Online == uplink /\ wifi /\ (cfg.mode = "manual" => cfg.url)

ResetAsked ==
    /\ Serving
    /\ portalMode \/ Online
    /\ Write(FactoryReset, "reset", "restart")
    /\ Survived
    /\ UNCHANGED <<powerVars, nvs, portalMode, ramVars, bootVars, torn>>

\* set_config; a configuration apply() refuses changes nothing (see LoopEnds).
SetConfig(mode, url, token) ==
    /\ Serving
    /\ Online
    /\ Applicable(mode, url)
    /\ Write(ApplyWrites(mode, url, token), "config", "restart")
    /\ Survived
    /\ UNCHANGED <<powerVars, nvs, portalMode, ramVars, bootVars, torn>>

\* set_update_channel.
SetChannel(channel) ==
    /\ Serving
    /\ Online
    /\ Write(<< <<"channel", channel>> >>, "channel", "loop")
    /\ Survived
    /\ UNCHANGED <<powerVars, nvs, portalMode, ramVars, bootVars, torn>>

Forms == [ssid : Networks, mode : Modes, url : BOOLEAN, token : BOOLEAN]

GraceEnds ==
    /\ pc \in {"connect", "update", "loop"}
    /\ ~graceOver
    /\ graceOver' = TRUE
    /\ UNCHANGED <<powerVars, nvs, todo, job, pc, portalMode, ramVars, cleared, quick, torn>>

-----------------------------------------------------------------------------
StartupInit ==
    /\ chip = ChipAtPowerUp
    /\ charger = ChargerAtBoot
    /\ nvs = Fresh
    /\ todo = <<>>
    /\ job = "none"
    /\ pc = "power"
    /\ portalMode = FALSE
    /\ cfg = NoConfig
    /\ wifi = FALSE
    /\ setupAp = FALSE
    /\ uplink = FALSE
    /\ page = NoForm
    /\ graceOver = FALSE
    /\ cleared = FALSE
    /\ quick = 1
    /\ torn = FALSE

Hub ==
    \/ WriteNext
    \/ Restart
    \/ PowerUp
    \/ CountBoot
    \/ Load
    \/ Connect
    \/ BootUpdate
    \/ LoopBegins
    \/ LoopEnds
    \/ ServeWifi
    \/ \E form \in Forms : Save(form)
    \/ TestFails
    \/ Commit
    \/ \E network \in Networks : SaveWifi(network)
    \/ ResetAsked
    \/ \E mode \in Modes, url, token \in BOOLEAN : SetConfig(mode, url, token)
    \/ \E channel \in Channels : SetChannel(channel)

StartupNext == Hub \/ GraceEnds \/ PowerCut

StartupSpec == StartupInit /\ [][StartupNext]_startupVars

\* The loop task runs, and time passes while it is in loop().
StartupFairSpec ==
    StartupSpec /\ WF_startupVars(Hub) /\ SF_startupVars(pc = "loop" /\ GraceEnds)

-----------------------------------------------------------------------------
(***************************************************************************)
(* Properties.                                                             *)
(***************************************************************************)
NvsStates ==
    [ssid : Networks \cup {""}, pass : Networks \cup {""}, id : BOOLEAN,
     mode : Modes \cup {""}, url : BOOLEAN, token : BOOLEAN,
     channel : Channels, count : 0 .. Threshold - 1]

\* The state is well typed; the quick-boot counter stays below the threshold.
StartupTypeOK ==
    /\ PowerTypeOK
    /\ nvs \in NvsStates
    /\ \A i \in DOMAIN todo : todo[i][1] \in DOMAIN nvs
    /\ job \in Settings \cup {"none", "count", "clear", "wifi", "channel"}
    /\ (job = "none") = Idle
    /\ pc \in {"power", "load", "connect", "update", "loop", "serve", "restart"}
    /\ {portalMode, wifi, setupAp, uplink, graceOver, cleared, torn} \subseteq BOOLEAN
    /\ cfg \in [id : BOOLEAN, mode : Modes, url : BOOLEAN]
    /\ page \in Forms \cup {NoForm}
    /\ quick \in 0 .. Threshold

\* Wherever the power is cut while settings are saved or erased, NVS never holds
\* Wi-Fi credentials without a gateway id: the Hub would come up without a setup
\* page and never start its uplink (startUplinkIfReady() calls it the
\* "never-should-happen case").  It rests on the order of the writes.
WifiImpliesIdentity == nvs.ssid # "" => nvs.id

\* A manual target without its URL is never stored, by the portal or by set_config,
\* unless the power was cut between the two writes.
TargetComplete == nvs.mode = "manual" /\ Idle /\ ~torn => nvs.url

\* The full setup page is only ever opened by a Hub without settings -- a new one or
\* one that was reset, to the last key, the update channel included ("a reset Hub
\* should be a fresh Hub") -- unless the power was cut during the reset.
SetupMeansFresh ==
    portalMode /\ Idle /\ pc \in {"loop", "serve"} /\ ~torn =>
        [nvs EXCEPT !.count = 0] = Fresh

\* `configured` is only reported while every register holds its profile's value,
\* although the chip may acknowledge a write and not take it.
ConfiguredIsVerified == charger.configured => \A r \in AllRegisters : chip[r]

\* Settings are erased only when someone asked for it, or after Threshold boots in
\* a row of which none came through an iteration of loop() after its grace: a boot
\* that lasted, in whatever mode, never counts towards a reset.
SettingsKept ==
    [][nvs.id /\ ~nvs'.id => job = "reset" \/ (job = "quick_reset" /\ quick = Threshold)]_startupVars

\* A Hub that stays up forgets its quick boots, so that a power cut much later
\* starts counting from one again, in the setup portal as in operation.
CounterForgotten ==
    <>[][~(PowerCut \/ Restart)]_startupVars => <>[](nvs.count = 0)
============================================================================
