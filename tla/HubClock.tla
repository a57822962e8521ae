----------------------------- MODULE HubClock -----------------------------
(***************************************************************************)
(* HubClock: the Hub's wall clock and its two sources.                     *)
(*                                                                         *)
(* SNTP readings arrive on the tcpip task, which parks the newest in a     *)
(* mailbox; service(), on the loop task, takes it from there.  If SNTP     *)
(* does not deliver, service() pings the Backend over the uplink.  The     *)
(* pong carries the Backend's clock; the sample made of it claims that the *)
(* Backend read that clock between the ping's stamp and the pong's arrival *)
(* (at the midpoint, give or take half the round trip).                    *)
(*                                                                         *)
(* Of the times only their order matters: a pong under way is "after" when *)
(* the Backend read its clock after pingT1Us_, the stamp of the newest     *)
(* ping sent, and "before" when earlier; it is "sending" when it was read  *)
(* after the stamp of a ping that is just being sent.  On one connection   *)
(* the Backend answers pings in order; what is under way when the          *)
(* connection closes is lost.                                              *)
(*                                                                         *)
(* ClockCore, to which samples are submitted, is external.                 *)
(***************************************************************************)
EXTENDS Naturals, Sequences

CONSTANT MaxInFlight    \* bound: pings and pongs under way

ASSUME MaxInFlightAssumption == MaxInFlight \in Nat \ {0}

VARIABLES
    lc,            \* the loop task: "service", "take", "submit", "ping", "send", "uplink"
    sntpStarted,   \* sntpStarted_
    sntpPending,   \* sntpPending_
    newest,        \* where the newest SNTP reading is: "none", "mailbox", "hand" (of
                   \* service()) or "submitted"
    sntp,          \* of the last SNTP submission: "never", "fresh" (sntpFresh()) or "stale"
    grace,         \* kSntpGraceMs since sntpStartedMs_ are not over
    pingNow,       \* pingNow_
    pingDue,       \* lastPingMs_ is 0, or kBackendPingIntervalMs ago
    outstanding,   \* pingOutstanding_
    overlap,       \* the newest ping was sent while another, or its pong, was under way
    link,          \* connected_ && helloSent_ of the uplink
    pings,         \* the number of pings under way to the Backend
    pongs,         \* the pongs under way: "before", "sending" or "after"
    backend        \* the last Backend sample: [reading, overlap], or NoSample

sntpVars == <<sntpStarted, sntpPending, newest, sntp, grace>>
pingVars == <<pingNow, pingDue, outstanding, overlap>>
uplinkVars == <<link, pings, pongs>>
clockVars == <<lc, sntpVars, pingVars, uplinkVars, backend>>

Readings == {"before", "sending", "after"}
NoSample == [reading |-> "none", overlap |-> FALSE]

-----------------------------------------------------------------------------
(***************************************************************************)
(* SNTP.                                                                   *)
(***************************************************************************)
\* beginSntp(), once Wi-Fi is connected.
BeginSntp ==
    /\ lc = "service"
    /\ ~sntpStarted
    /\ sntpStarted' = TRUE
    /\ UNCHANGED <<lc, sntpPending, newest, sntp, grace, pingVars, uplinkVars, backend>>

\* onSntpTime(), on the tcpip task, under the lock.
OnSntpTime ==
    /\ sntpStarted
    /\ sntpPending' = TRUE
    /\ newest' = "mailbox"
    /\ UNCHANGED <<lc, sntpStarted, sntp, grace, pingVars, uplinkVars, backend>>

\* service() looks at the flag without the lock.
LookForReading ==
    /\ lc = "service"
    /\ lc' = IF sntpPending THEN "take" ELSE "ping"
    /\ UNCHANGED <<sntpVars, pingVars, uplinkVars, backend>>

\* Mutant: the flag is not cleared with the reading taken.
TakeKeepingFlag ==
    /\ lc = "take"
    /\ lc' = "submit"
    /\ newest' = "hand"
    /\ UNCHANGED <<sntpStarted, sntpPending, sntp, grace, pingVars, uplinkVars, backend>>

\* It takes the mailbox and clears the flag under the lock.
TakeReading ==
    /\ lc = "take"
    /\ lc' = "submit"
    /\ newest' = "hand"
    /\ sntpPending' = FALSE
    /\ UNCHANGED <<sntpStarted, sntp, grace, pingVars, uplinkVars, backend>>

\* What service() submits is no longer the newest if another reading came meanwhile.
Submitted == newest' = IF newest = "hand" THEN "submitted" ELSE newest

\* Mutant: the flag is cleared after the submission.
SubmitAndClear ==
    /\ lc = "submit"
    /\ lc' = "ping"
    /\ Submitted
    /\ sntpPending' = FALSE
    /\ sntp' = "fresh"
    /\ UNCHANGED <<sntpStarted, grace, pingVars, uplinkVars, backend>>

\* The submission, outside the lock, and sntpSyncs_ and lastSntpMs_.
SubmitReading ==
    /\ lc = "submit"
    /\ lc' = "ping"
    /\ Submitted
    /\ sntp' = "fresh"
    /\ UNCHANGED <<sntpStarted, sntpPending, grace, pingVars, uplinkVars, backend>>

-----------------------------------------------------------------------------
(***************************************************************************)
(* Pings.                                                                  *)
(***************************************************************************)
\* The Backend is the fallback, once SNTP has had its chance and does not deliver.
FallBack == sntpStarted /\ sntp # "fresh" /\ ~grace

\* Mutant: no ping while the pong of another is awaited.
WantPingIfNoneAwaited == ~outstanding /\ (pingNow \/ (FallBack /\ pingDue))

WantPing == pingNow \/ (FallBack /\ pingDue)

\* The rest of service(), up to the stamp in sendPing(), or to its end.
Ping ==
    /\ lc = "ping"
    /\ lc' = IF WantPing THEN "send" ELSE "uplink"
    /\ pingNow' = FALSE
    /\ UNCHANGED <<sntpVars, pingDue, outstanding, overlap, uplinkVars, backend>>

\* Mutant: the ping is stamped after the send.
RestampAfterSend(under) == [i \in DOMAIN under |-> "before"]

\* What the pongs under way mean once pingT1Us_ is the stamp of the ping sent.
Restamp(under) == [i \in DOMAIN under |-> IF under[i] = "sending" THEN "after" ELSE "before"]

\* The blocking send is over: the ping went out (sendTXT() returned true) and may already
\* have been answered while sendTXT() blocked.
SendPing(answered) ==
    /\ lc = "send"
    /\ link
    /\ pings + Len(pongs) < MaxInFlight
    /\ answered => pings = 0
    /\ lc' = "uplink"
    /\ pingDue' = FALSE
    /\ outstanding' = TRUE
    /\ overlap' = (pings # 0 \/ pongs # <<>>)
    /\ pings' = IF answered THEN 0 ELSE pings + 1
    /\ pongs' = Restamp(IF answered THEN Append(pongs, "sending") ELSE pongs)
    /\ UNCHANGED <<sntpVars, pingNow, link, backend>>

\* Not connected, or sendTXT() failed: pingT1Us_ stays, and the next try is when the
\* next ping is due.
SendFails ==
    /\ lc = "send"
    /\ lc' = "uplink"
    /\ pingDue' = FALSE
    /\ pongs' = [i \in DOMAIN pongs |-> IF pongs[i] = "sending" THEN "after" ELSE pongs[i]]
    /\ UNCHANGED <<sntpVars, pingNow, outstanding, overlap, link, pings, backend>>

\* onBackendPong(), called by uplink.service(), without a ping outstanding.
IgnorePong ==
    /\ lc = "uplink"
    /\ pongs # <<>>
    /\ ~outstanding
    /\ pongs' = Tail(pongs)
    /\ UNCHANGED <<lc, sntpVars, pingVars, link, pings, backend>>

\* A round trip longer than kMaxBackendRttUs is not used, but ends the wait.
SlowPong ==
    /\ lc = "uplink"
    /\ pongs # <<>>
    /\ outstanding
    /\ outstanding' = FALSE
    /\ pongs' = Tail(pongs)
    /\ UNCHANGED <<lc, sntpVars, pingNow, pingDue, overlap, link, pings, backend>>

OnBackendPong ==
    /\ lc = "uplink"
    /\ pongs # <<>>
    /\ outstanding
    /\ outstanding' = FALSE
    /\ pongs' = Tail(pongs)
    /\ backend' = [reading |-> Head(pongs), overlap |-> overlap]
    /\ UNCHANGED <<lc, sntpVars, pingNow, pingDue, overlap, link, pings>>

\* The "clock_sync" command, which comes over the uplink too.
RequestSync ==
    /\ lc = "uplink"
    /\ link
    /\ pingNow' = TRUE
    /\ UNCHANGED <<lc, sntpVars, pingDue, outstanding, overlap, uplinkVars, backend>>

\* The loop goes round.
NextLoop ==
    /\ lc = "uplink"
    /\ lc' = "service"
    /\ UNCHANGED <<sntpVars, pingVars, uplinkVars, backend>>

-----------------------------------------------------------------------------
(***************************************************************************)
(* The Backend, the connection and time (external).                        *)
(***************************************************************************)
BackendAnswers ==
    /\ pings > 0
    /\ pings' = pings - 1
    /\ pongs' = Append(pongs, IF lc = "send" THEN "sending" ELSE "after")
    /\ UNCHANGED <<lc, sntpVars, pingVars, link, backend>>

\* startUplinkIfReady() begins SNTP before the uplink.
Connect ==
    /\ lc = "uplink"
    /\ sntpStarted
    /\ ~link
    /\ link' = TRUE
    /\ UNCHANGED <<lc, sntpVars, pingVars, pings, pongs, backend>>

\* Found by the uplink's service, or by a send that fails.
Disconnect ==
    /\ lc \in {"uplink", "send"}
    /\ link
    /\ link' = FALSE
    /\ pings' = 0
    /\ pongs' = <<>>
    /\ UNCHANGED <<lc, sntpVars, pingVars, backend>>

SntpGoesStale ==
    /\ sntp = "fresh"
    /\ sntp' = "stale"
    /\ UNCHANGED <<lc, sntpStarted, sntpPending, newest, grace, pingVars, uplinkVars, backend>>

GraceEnds ==
    /\ sntpStarted
    /\ grace
    /\ grace' = FALSE
    /\ UNCHANGED <<lc, sntpStarted, sntpPending, newest, sntp, pingVars, uplinkVars, backend>>

PingFallsDue ==
    /\ ~pingDue
    /\ pingDue' = TRUE
    /\ UNCHANGED <<lc, sntpVars, pingNow, outstanding, overlap, uplinkVars, backend>>

-----------------------------------------------------------------------------
ClockInit ==
    /\ lc = "service"
    /\ sntpStarted = FALSE
    /\ sntpPending = FALSE
    /\ newest = "none"
    /\ sntp = "never"
    /\ grace = TRUE
    /\ pingNow = FALSE
    /\ pingDue = TRUE
    /\ outstanding = FALSE
    /\ overlap = FALSE
    /\ link = FALSE
    /\ pings = 0
    /\ pongs = <<>>
    /\ backend = NoSample

LoopTask ==
    \/ BeginSntp \/ LookForReading \/ TakeReading \/ SubmitReading
    \/ Ping \/ SendFails
    \/ \E answered \in BOOLEAN : SendPing(answered)
    \/ IgnorePong \/ SlowPong \/ OnBackendPong \/ RequestSync \/ NextLoop

Environment ==
    \/ OnSntpTime
    \/ BackendAnswers \/ Connect \/ Disconnect
    \/ SntpGoesStale \/ GraceEnds \/ PingFallsDue

ClockNext == LoopTask \/ Environment

(***************************************************************************)
(* loop() keeps running, time passes, the Backend answers what reaches it, *)
(* an open connection does not fail every send, and not every round trip   *)
(* is too slow.                                                            *)
(***************************************************************************)
ClockFairness ==
    /\ WF_clockVars(LookForReading \/ TakeReading \/ SubmitReading \/ Ping)
    /\ WF_clockVars(SendFails \/ \E answered \in BOOLEAN : SendPing(answered))
    /\ SF_clockVars(\E answered \in BOOLEAN : SendPing(answered))
    /\ SF_clockVars(IgnorePong)
    /\ SF_clockVars(OnBackendPong)
    /\ SF_clockVars(NextLoop)
    /\ WF_clockVars(BackendAnswers)
    /\ WF_clockVars(GraceEnds)
    /\ WF_clockVars(PingFallsDue)

ClockSpec == ClockInit /\ [][ClockNext]_clockVars /\ ClockFairness

-----------------------------------------------------------------------------
(***************************************************************************)
(* Properties.                                                             *)
(***************************************************************************)
\* Types, and that a pending reading is one that service() has not taken.
ClockTypeOK ==
    /\ lc \in {"service", "take", "submit", "ping", "send", "uplink"}
    /\ {sntpStarted, sntpPending, grace, pingNow, pingDue, outstanding, overlap, link}
           \subseteq BOOLEAN
    /\ newest \in {"none", "mailbox", "hand", "submitted"}
    /\ sntp \in {"never", "fresh", "stale"}
    /\ pings \in Nat
    /\ pongs \in Seq(Readings)
    /\ pings + Len(pongs) <= MaxInFlight
    /\ backend \in [reading : Readings, overlap : BOOLEAN] \cup {NoSample}
    /\ sntpPending => newest = "mailbox"

\* A reading that SNTP delivers while service() submits an earlier one is not lost: as
\* long as the newest reading waits in the mailbox the flag is up, whatever the order of
\* the two tasks (the unlocked test and the locked copy of service()).
NewestReadingKept == newest = "mailbox" => sntpPending

\* The sample made of a pong holds what it claims: the Backend read its clock between the
\* stamp of the ping and the arrival of the pong, if the ping was the only one under way on
\* its connection.  (When it was not, the pong of the earlier is paired with the stamp of
\* the later, and the claim may be wrong.)
SampleSound == backend # NoSample /\ ~backend.overlap => backend.reading = "after"

\* The Backend does get asked: if SNTP stays silent and the uplink stays up, a sample of
\* the Backend is made, although the pong of an earlier ping may have been lost with its
\* connection and pingOutstanding_ still be set.
SyncedByBackend ==
    <>[](link /\ sntp # "fresh") => <>(backend # NoSample)
============================================================================
