---------------------------- MODULE OtaManager ----------------------------
(***************************************************************************)
(* OtaManager: how the Hub fetches a release manifest and, if the release  *)
(* is newer than what runs, downloads, verifies and installs it.           *)
(*                                                                         *)
(* All of it runs on the loop task and blocks it.  It is modelled step by  *)
(* step because everything else goes on meanwhile: devices, the uplink's   *)
(* connection, new releases, resets.  A firmware file is FileUnits units   *)
(* long; of a unit read only matters whether it is the one that was        *)
(* released.  sha256 is taken at its word: the digest is the manifest's    *)
(* exactly if every unit was read intact.                                  *)
(*                                                                         *)
(* Arduino's Update object is external.  `open` says that it was begun and *)
(* neither aborted nor ended; begin() then refuses ("already running").    *)
(***************************************************************************)
EXTENDS Naturals

CONSTANTS
    Channels,      \* the update channels, each with its manifest
    LastRelease,   \* bound: LastRelease[c] is the newest release c will have
    FileUnits      \* the length of a firmware file

ASSUME OtaConstants ==
    /\ LastRelease \in [Channels -> Nat \ {0}]
    /\ FileUnits \in Nat \ {0}

VARIABLES
    newest,    \* newest[c]: the version c's manifest offers
    running,   \* kFirmwareVersion
    boot,      \* the image the boot loader will start
    phase,     \* lastPhase_ while an operation runs ("requesting" is its "downloading"
               \* before Update.begin()); "idle" else: afterwards it is only reported
    image,     \* the release being looked at or written, NoImage else
    open,      \* Update was begun and neither aborted nor ended
    spoilt     \* a download has failed verification since the last reset

otaVars == <<newest, running, boot, phase, image, open, spoilt>>

Working == {"manifest", "requesting", "downloading"}

NoImage == [version |-> 0, got |-> 0, intact |-> TRUE]

Versions == UNION {1 .. LastRelease[c] : c \in Channels}

-----------------------------------------------------------------------------
\* checkUpdate() is entered: the manifest's request is under way.
BeginCheck ==
    /\ phase' = "manifest"
    /\ UNCHANGED <<newest, running, boot, image, open, spoilt>>

\* A failed request, or a manifest of another protocol or model, or one that
\* lacks a field.
ManifestFails ==
    /\ phase = "manifest"
    /\ phase' = "error"
    /\ UNCHANGED <<newest, running, boot, image, open, spoilt>>

\* Mutant: any release that differs from the running one counts as available.
AvailableIfDifferent(v) == v # running

Available(v) == v > running

\* The manifest of channel c was read; `apply` goes on with the download.
ManifestRead(c, apply) ==
    /\ phase = "manifest"
    /\ image' = [version |-> newest[c], got |-> 0, intact |-> TRUE]
    /\ phase' = IF ~Available(newest[c]) THEN "current"
                ELSE IF apply THEN "requesting" ELSE "ready"
    /\ UNCHANGED <<newest, running, boot, open, spoilt>>

\* The firmware's request fails, or Update.begin() does.
DownloadRefused ==
    /\ phase = "requesting"
    /\ phase' = "error"
    /\ UNCHANGED <<newest, running, boot, image, open, spoilt>>

BeginWriting ==
    /\ phase = "requesting"
    /\ ~open
    /\ open' = TRUE
    /\ phase' = "downloading"
    /\ UNCHANGED <<newest, running, boot, image, spoilt>>

\* Mutant: what follows the end of the file is still taken for part of it.
ReadUnitPastEnd(intact) ==
    /\ phase = "downloading"
    /\ image.got <= FileUnits
    /\ image' = [image EXCEPT !.got = @ + 1, !.intact = @ /\ intact]
    /\ UNCHANGED <<newest, running, boot, phase, open, spoilt>>

ReadUnit(intact) ==
    /\ phase = "downloading"
    /\ image.got < FileUnits
    /\ image' = [image EXCEPT !.got = @ + 1, !.intact = @ /\ intact]
    /\ UNCHANGED <<newest, running, boot, phase, open, spoilt>>

\* Mutant: a download that times out does not abort the update it began.
GiveUpLeavingOpen ==
    /\ phase = "downloading"
    /\ phase' = "error"
    /\ UNCHANGED <<newest, running, boot, image, open, spoilt>>

\* The idle or the overall timeout, or Update.write() fails.
GiveUp ==
    /\ phase = "downloading"
    /\ phase' = "error"
    /\ open' = FALSE
    /\ UNCHANGED <<newest, running, boot, image, spoilt>>

\* Mutant: the digest is not compared.
VerifiedAlways == image.got <= FileUnits

Verified == image.got = FileUnits /\ image.intact

\* The connection was closed, in the middle of the file or at its end.  The
\* update that was begun stays open.
Mismatch ==
    /\ phase = "downloading"
    /\ ~Verified
    /\ phase' = "error"
    /\ spoilt' = TRUE
    /\ UNCHANGED <<newest, running, boot, image, open>>

EndFails ==
    /\ phase = "downloading"
    /\ Verified
    /\ phase' = "error"
    /\ open' = FALSE
    /\ UNCHANGED <<newest, running, boot, image, spoilt>>

\* Update.end(): the new image is what the boot loader starts from now on.
Applied ==
    /\ phase = "downloading"
    /\ Verified
    /\ phase' = "applied"
    /\ boot' = [version |-> image.version, intact |-> image.got = FileUnits /\ image.intact]
    /\ open' = FALSE
    /\ UNCHANGED <<newest, running, image, spoilt>>

OtaFails == ManifestFails \/ DownloadRefused \/ GiveUp \/ Mismatch \/ EndFails

\* One step of an operation on channel c.
OtaStep(c, apply) ==
    \/ OtaFails
    \/ ManifestRead(c, apply)
    \/ BeginWriting
    \/ \E intact \in BOOLEAN : ReadUnit(intact)
    \/ Applied

\* The operation returns to its caller.
Return ==
    /\ phase' = "idle"
    /\ image' = NoImage
    /\ UNCHANGED <<newest, running, boot, open, spoilt>>

\* A release.  A channel's newest version only grows.
Publish(c) ==
    /\ newest[c] < LastRelease[c]
    /\ newest' = [newest EXCEPT ![c] = @ + 1]
    /\ UNCHANGED <<running, boot, phase, image, open, spoilt>>

\* A reset: whatever was begun is gone, the boot loader starts its image.
OtaReset ==
    /\ running' = boot.version
    /\ phase' = "idle"
    /\ image' = NoImage
    /\ open' = FALSE
    /\ spoilt' = FALSE
    /\ UNCHANGED <<newest, boot>>

OtaInit ==
    /\ newest = [c \in Channels |-> 1]
    /\ running = 1
    /\ boot = [version |-> 1, intact |-> TRUE]
    /\ phase = "idle"
    /\ image = NoImage
    /\ open = FALSE
    /\ spoilt = FALSE

OtaTypeOK ==
    /\ newest \in [Channels -> Versions]
    /\ running \in Versions
    /\ boot \in [version : Versions, intact : BOOLEAN]
    /\ phase \in Working \cup {"idle", "current", "ready", "error", "applied"}
    /\ image \in [version : Versions, got : 0 .. FileUnits, intact : BOOLEAN] \cup {NoImage}
    /\ open \in BOOLEAN
    /\ spoilt \in BOOLEAN
============================================================================
