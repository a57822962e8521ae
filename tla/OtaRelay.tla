------------------------------ MODULE OtaRelay ------------------------------
(***************************************************************************)
(* EspNowOtaRelay: the Hub's firmware relay for devices without Internet.  *)
(*                                                                         *)
(* A device asks, in a hub-request frame, for a manifest or for a relay of *)
(* its firmware file.  The Hub opens the file over HTTPS and sends it in   *)
(* chunks, stop-and-wait, one paced burst of fragments per chunk; only one *)
(* relay is active at a time.                                              *)
(*                                                                         *)
(* The Wi-Fi task puts a complete hub-request frame into the manager's     *)
(* one-frame buffer and runs handleChunkAck(); everything else runs on the *)
(* loop task (EspNowHubManager::service() and service() below).  An HTTPS  *)
(* request blocks the loop task for seconds, with the Wi-Fi task running,  *)
(* so the handlers are split there (lp).                                   *)
(*                                                                         *)
(* A file is measured in units, ChunkUnits of which fill a chunk.          *)
(***************************************************************************)
EXTENDS Integers, FiniteSets

CONSTANTS
    Devices,       \* the devices
    Files,         \* the firmware files (url, sha256) devices may ask for
    Nobody,        \* targetMac_ before the first session
    NoFile,        \* sourceUrl_ before the first session; a manifest ask's url
    Wants,         \* Wants[d]: the files device d may ask for
    Size,          \* Size[f]: the size a request for f states; 0 when it states none
    Length,        \* Length[f]: what the connection for f yields, whatever was stated
    ChunkUnits,    \* kOtaChunkPayloadBytes
    FragsPerChunk, \* fragments of one chunk's burst
    MaxAttempts    \* kOtaChunkMaxAttempts

ASSUME RelayConstants ==
    /\ Nobody \notin Devices /\ NoFile \notin Files
    /\ Wants \in [Devices -> SUBSET Files]
    /\ Size \in [Files -> Nat]
    /\ Length \in [Files -> Nat]
    /\ ChunkUnits \in Nat \ {0}
    /\ FragsPerChunk \in Nat \ {0}
    /\ MaxAttempts \in Nat \ {0}

VARIABLES
    req,        \* the manager's hub-request frame buffer, its flag and its MAC
    lp,         \* where the loop task is, with the handler's own copy of the file
    session,    \* active_, targetMac_, sourceUrl_, currentChunkIndex_
    stream,     \* httpOpen_, httpBytesRead_, and how many chunks were read from it
    chunk,      \* chunkAwaitingAck_, chunkAttempts_, fragments left of the burst,
                \* and whether kOtaChunkResendIntervalMs have passed since chunkSentMs_
    ackPending, \* ackPendingAdvance_
    heardAck,   \* an ack of the current chunk was handled in this session
    sent,       \* the chunks each device has been sent a whole burst of
    asked       \* the relays each device has asked for

vars == <<req, lp, session, stream, chunk, ackPending, heardAck, sent, asked>>

LoopIdle == [pc |-> "idle", file |-> NoFile]
NoSession == [active |-> FALSE, target |-> Nobody, file |-> NoFile, index |-> 0]
Closed == [open |-> FALSE, read |-> 0, chunks |-> 0]
NoChunk == [awaiting |-> FALSE, attempts |-> 0, left |-> 0, elapsed |-> FALSE]

Smaller(a, b) == IF a <= b THEN a ELSE b

TotalChunks(f) == (Size[f] + ChunkUnits - 1) \div ChunkUnits

-----------------------------------------------------------------------------
(***************************************************************************)
(* Pieces of the handlers.                                                 *)
(***************************************************************************)
\* Mutant: the connection is not closed with the session.
FinishSessionKeepConnection ==
    /\ session' = [session EXCEPT !.active = FALSE]
    /\ chunk' = [chunk EXCEPT !.awaiting = FALSE, !.left = 0]
    /\ UNCHANGED stream

\* finishSession(): note that ackPending is left alone.
FinishSession ==
    /\ session' = [session EXCEPT !.active = FALSE]
    /\ stream' = [stream EXCEPT !.open = FALSE]
    /\ chunk' = [chunk EXCEPT !.awaiting = FALSE, !.left = 0]

\* sendCurrentChunk(), the given number of attempts having been made before.
Armed(attempts) ==
    [awaiting |-> TRUE, attempts |-> attempts + 1, left |-> FragsPerChunk, elapsed |-> FALSE]

\* readNextChunkFromHttp(): up to a full chunk of what the connection has left,
\* less when it stalls; 0 when nothing could be read.  The size that was stated
\* plays no part.
ReadSizes(s, f) == 0 .. Smaller(ChunkUnits, Length[f] - s.read)

\* Read the next chunk of file f from stream s and send it, or give up.
ReadAndSend(s, f, index, to) ==
    \E got \in ReadSizes(s, f) :
        IF got > 0
        THEN /\ session' = [active |-> TRUE, target |-> to, file |-> f, index |-> index]
             /\ stream' = [open |-> TRUE, read |-> s.read + got, chunks |-> s.chunks + 1]
             /\ chunk' = Armed(0)
             /\ heardAck' = FALSE
        ELSE /\ session' = [active |-> FALSE, target |-> to, file |-> f, index |-> index]
             /\ stream' = [s EXCEPT !.open = FALSE]
             /\ chunk' = NoChunk
             /\ heardAck' = FALSE

-----------------------------------------------------------------------------
(***************************************************************************)
(* The Wi-Fi task.                                                         *)
(***************************************************************************)
\* handleEspNowRecv(): a complete hub-request frame overwrites the buffer.
RequestArrives(d, f) ==
    /\ f \in Wants[d] \cup {NoFile}
    /\ req' = [ready |-> TRUE, mac |-> d, file |-> f]
    /\ asked' = IF f = NoFile THEN asked ELSE asked \cup {<<d, f>>}
    /\ UNCHANGED <<lp, session, stream, chunk, ackPending, heardAck, sent>>

\* handleChunkAck(): the ack of a chunk the device was sent, however late.
ChunkAck(d, k) ==
    /\ <<d, k>> \in sent
    /\ session.active /\ d = session.target /\ k = session.index
    /\ chunk' = [chunk EXCEPT !.awaiting = FALSE]
    /\ ackPending' = TRUE
    /\ heardAck' = TRUE
    /\ UNCHANGED <<req, lp, session, stream, sent, asked>>

-----------------------------------------------------------------------------
(***************************************************************************)
(* The hub-request callback, on the loop task.  Its mac parameter points   *)
(* into the buffer; the file is the handler's own copy.  The buffer's flag *)
(* is cleared when the callback returns.                                   *)
(***************************************************************************)
Return ==
    /\ lp' = LoopIdle
    /\ req' = [req EXCEPT !.ready = FALSE]

\* handleFetchManifestRequest(): a blocking GET, then the reply.
FetchManifest ==
    /\ lp.pc = "idle" /\ req.ready
    /\ req.file = NoFile
    /\ lp' = [pc |-> "fetching", file |-> NoFile]
    /\ UNCHANGED <<req, session, stream, chunk, ackPending, heardAck, sent, asked>>

ManifestFetched ==
    /\ lp.pc = "fetching"
    /\ Return
    /\ UNCHANGED <<session, stream, chunk, ackPending, heardAck, sent, asked>>

\* handleRelayStartRequest(): the repeat of the request this session answered.
RepeatedStart ==
    /\ session.file = req.file
    /\ session.index = 0
    /\ ~ackPending

StartReplied ==
    /\ lp.pc = "idle" /\ req.ready /\ req.file # NoFile
    /\ session.active
    /\ req.mac = session.target => RepeatedStart
    /\ Return
    /\ UNCHANGED <<session, stream, chunk, ackPending, heardAck, sent, asked>>

\* Mutant: any device's request ends the session that is active.
MayStartAnyone == TRUE

\* The active session's device starts over; nobody else's session is touched.
MayStart == session.active => req.mac = session.target /\ ~RepeatedStart

FinishOwnSession ==
    IF session.active THEN FinishSession ELSE UNCHANGED <<session, stream, chunk>>

StartRefused ==
    /\ lp.pc = "idle" /\ req.ready /\ req.file # NoFile
    /\ MayStart
    /\ Size[req.file] = 0
    /\ FinishOwnSession
    /\ Return
    /\ UNCHANGED <<ackPending, heardAck, sent, asked>>

StartOpening ==
    /\ lp.pc = "idle" /\ req.ready /\ req.file # NoFile
    /\ MayStart
    /\ Size[req.file] # 0
    /\ FinishOwnSession
    /\ lp' = [pc |-> "opening", file |-> req.file]
    /\ UNCHANGED <<req, ackPending, heardAck, sent, asked>>

OpenFails ==
    /\ lp.pc = "opening"
    /\ Return
    /\ UNCHANGED <<session, stream, chunk, ackPending, heardAck, sent, asked>>

\* The file is open: the session begins, for whatever mac points at by now.
OpenSucceeds ==
    /\ lp.pc = "opening"
    /\ ReadAndSend([Closed EXCEPT !.open = TRUE], lp.file, 0, req.mac)
    /\ Return
    /\ UNCHANGED <<ackPending, sent, asked>>

-----------------------------------------------------------------------------
(***************************************************************************)
(* service(), on the loop task.                                            *)
(***************************************************************************)
Serving == lp.pc = "idle" /\ session.active

SendFragment ==
    /\ Serving
    /\ chunk.left > 0
    /\ chunk' = [chunk EXCEPT !.left = @ - 1]
    /\ sent' = IF chunk.left = 1 THEN sent \cup {<<session.target, session.index>>} ELSE sent
    /\ UNCHANGED <<req, lp, session, stream, ackPending, heardAck, asked>>

\* The flag is cleared first; the index moves on after that.
TakeAck ==
    /\ Serving
    /\ chunk.left = 0
    /\ ackPending
    /\ ackPending' = FALSE
    /\ lp' = [lp EXCEPT !.pc = "advancing"]
    /\ UNCHANGED <<req, session, stream, chunk, heardAck, sent, asked>>

Advance ==
    /\ lp.pc = "advancing"
    /\ lp' = LoopIdle
    /\ IF session.index + 1 >= TotalChunks(session.file)
       THEN /\ session' = [session EXCEPT !.index = @ + 1, !.active = FALSE]
            /\ stream' = [stream EXCEPT !.open = FALSE]
            /\ chunk' = NoChunk
            /\ heardAck' = FALSE
       ELSE ReadAndSend(stream, session.file, session.index + 1, session.target)
    /\ UNCHANGED <<req, ackPending, sent, asked>>

ResendDue ==
    /\ Serving
    /\ chunk.left = 0
    /\ ~ackPending
    /\ chunk.awaiting
    /\ chunk.elapsed

\* Mutant: the attempts are compared one too late.
ExhaustedLate == chunk.attempts > MaxAttempts

Exhausted == chunk.attempts >= MaxAttempts

\* Mutant: a resend is not counted against kOtaChunkMaxAttempts.
ResendUncounted ==
    /\ ResendDue
    /\ ~Exhausted
    /\ chunk' = Armed(chunk.attempts - 1)
    /\ UNCHANGED <<req, lp, session, stream, ackPending, heardAck, sent, asked>>

\* Mutant: a resend reads the connection again.
ResendReadAgain ==
    /\ ResendDue
    /\ ~Exhausted
    /\ stream.read < Length[session.file]
    /\ stream' = [stream EXCEPT !.read = @ + 1, !.chunks = @ + 1]
    /\ chunk' = Armed(chunk.attempts)
    /\ UNCHANGED <<req, lp, session, ackPending, heardAck, sent, asked>>

\* The already-buffered chunk is sent again, without another HTTP read.
Resend ==
    /\ ResendDue
    /\ ~Exhausted
    /\ chunk' = Armed(chunk.attempts)
    /\ UNCHANGED <<req, lp, session, stream, ackPending, heardAck, sent, asked>>

GiveUp ==
    /\ ResendDue
    /\ Exhausted
    /\ FinishSession
    /\ UNCHANGED <<req, lp, ackPending, heardAck, sent, asked>>

Loop ==
    \/ FetchManifest \/ ManifestFetched
    \/ StartReplied \/ StartRefused \/ StartOpening \/ OpenFails \/ OpenSucceeds
    \/ SendFragment \/ TakeAck \/ Advance \/ Resend \/ GiveUp

\* kOtaChunkResendIntervalMs pass.
ResendIntervalPasses ==
    /\ chunk.awaiting
    /\ ~chunk.elapsed
    /\ chunk' = [chunk EXCEPT !.elapsed = TRUE]
    /\ UNCHANGED <<req, lp, session, stream, ackPending, heardAck, sent, asked>>

-----------------------------------------------------------------------------
Chunks == UNION {0 .. TotalChunks(f) : f \in Files}

Init ==
    /\ req = [ready |-> FALSE, mac |-> Nobody, file |-> NoFile]
    /\ lp = LoopIdle
    /\ session = NoSession
    /\ stream = Closed
    /\ chunk = NoChunk
    /\ ackPending = FALSE
    /\ heardAck = FALSE
    /\ sent = {}
    /\ asked = {}

Next ==
    \/ \E d \in Devices, f \in Files \cup {NoFile} : RequestArrives(d, f)
    \/ \E d \in Devices, k \in Chunks : ChunkAck(d, k)
    \/ Loop
    \/ ResendIntervalPasses

Spec == Init /\ [][Next]_vars

(***************************************************************************)
(* loop() keeps running, a blocking HTTPS call times out, and the resend   *)
(* interval passes.  Nothing is assumed of the devices.                    *)
(***************************************************************************)
Fairness == WF_vars(Loop) /\ WF_vars(ResendIntervalPasses)

FairSpec == Spec /\ Fairness

-----------------------------------------------------------------------------
(***************************************************************************)
(* Properties.                                                             *)
(***************************************************************************)
MaybeFiles == Files \cup {NoFile}

RequestBuffers == [ready : BOOLEAN, mac : Devices \cup {Nobody}, file : MaybeFiles]

LoopStates == [pc : {"idle", "fetching", "opening", "advancing"}, file : MaybeFiles]

Sessions ==
    [active : BOOLEAN, target : Devices \cup {Nobody}, file : MaybeFiles, index : Nat]

Streams == [open : BOOLEAN, read : Nat, chunks : Nat]

ChunkStates ==
    [awaiting : BOOLEAN, attempts : 0 .. MaxAttempts, left : 0 .. FragsPerChunk,
     elapsed : BOOLEAN]

\* The type invariant.
TypeOK ==
    /\ req \in RequestBuffers
    /\ lp \in LoopStates
    /\ session \in Sessions
    /\ stream \in Streams
    /\ chunk \in ChunkStates
    /\ ackPending \in BOOLEAN
    /\ heardAck \in BOOLEAN
    /\ sent \subseteq Devices \X Nat
    /\ asked \subseteq Devices \X Files

\* "Only one device's relay may be active Hub-wide", with one connection: the
\* connection is open exactly while a session is active, and a new one is
\* opened only when there is none.
OneRelayAtATime ==
    /\ lp.pc \in {"idle", "fetching", "advancing"} => (stream.open <=> session.active)
    /\ lp.pc = "opening" => ~session.active /\ ~stream.open

\* The relay is "a dumb byte pipe": whatever mix of acks, resends, restarts
\* and short reads, and whether or not the stated size is the file's, chunk k
\* of a session carries the k-th piece read from the connection -- no piece is
\* dropped, sent as another chunk, or left from an earlier session -- and no
\* chunk is sent beyond the total that the start reply announced.
ChunkIsNextInStream ==
    session.active => stream.chunks = session.index + 1 /\ session.index < TotalChunks(session.file)

\* "Another device's request gets an immediate rejection": a request never
\* ends the session of a device other than the one that sent it.  A session
\* ends by its own restart, at its last chunk, or for want of acks or data.
UndisturbedByOthers ==
    [][session.active /\ ~session'.active
          => \/ req.ready /\ req.mac = session.target
             \/ lp.pc = "advancing"
             \/ chunk.attempts >= MaxAttempts /\ chunk.elapsed]_vars

\* A relay cannot hold the Hub for ever: once no more requests are waiting,
\* the session that is left ends, whether or not its device ever acks.
RelayEnds == <>[](~req.ready) => <>[](~session.active)

\* The Hub relays "on its behalf ... once the device decides it needs an
\* update": an active session sends its device a file that device asked for.
RelayServesRequester == session.active => <<session.target, session.file>> \in asked

\* "Stop-and-wait with an explicit chunk_index/ack per chunk": the relay goes
\* on to the next chunk only after an ack of this one.
AdvancesOnAck ==
    session.active /\ session'.active /\ session'.index = session.index + 1 => heardAck

StopAndWait == [][AdvancesOnAck]_vars

\* What the header announces, all in all: the relay streams "on [the device's]
\* behalf" what that device asked for, and stop-and-wait.
RelayAsAnnounced == [][RelayServesRequester' /\ AdvancesOnAck]_vars
============================================================================
