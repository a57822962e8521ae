--------------------------- MODULE OtaRelayProofs ---------------------------
(***************************************************************************)
(* Theorems about OtaRelay, for every set of devices and files, whatever   *)
(* size is stated for a file and however long it is, and every chunk size. *)
(***************************************************************************)
EXTENDS OtaRelay, TLAPS

-----------------------------------------------------------------------------
(***************************************************************************)
(* The inductive invariant.                                                *)
(***************************************************************************)
\* A request that is waiting, or being answered, came from some device; the
\* buffer may be overwritten meanwhile, but only by another request.
RequestFromDevice == req.ready \/ lp.pc = "opening" => req.mac \in Devices

\* The handler's own copy of the file outlives the buffer.
OpeningRealFile == lp.pc = "opening" => lp.file \in Files /\ Size[lp.file] > 0

SessionReal == session.active => session.target \in Devices /\ session.file \in Files

\* Nothing ends the session between taking the ack and moving on.
AdvancingActive == lp.pc = "advancing" => session.active

RelayInv ==
    /\ TypeOK
    /\ OneRelayAtATime
    /\ ChunkIsNextInStream
    /\ RequestFromDevice
    /\ OpeningRealFile
    /\ SessionReal
    /\ AdvancingActive

-----------------------------------------------------------------------------
(***************************************************************************)
(* Pieces of the handlers.                                                 *)
(***************************************************************************)
\* A file that is not empty has a chunk 0.
LEMMA FirstChunkExists ==
    ASSUME NEW f \in Files, Size[f] > 0
    PROVE  TotalChunks(f) \in Int /\ 0 < TotalChunks(f)
<1>1. ASSUME NEW a \in Nat, NEW b \in Nat \ {0}, a >= b
      PROVE  a \div b \in Int /\ a \div b > 0
  BY <1>1, SMTT(60)
<1>2. Size[f] \in Nat /\ ChunkUnits \in Nat \ {0}
  BY RelayConstants DEF RelayConstants
<1>3. Size[f] + ChunkUnits - 1 \in Nat /\ Size[f] + ChunkUnits - 1 >= ChunkUnits
  BY <1>2
<1>. QED  BY <1>1, <1>2, <1>3 DEF TotalChunks

\* A chunk's attempts and fragments start within their bounds.
LEMMA ArmedTyped ==
    ASSUME NEW n \in Nat, n < MaxAttempts
    PROVE  Armed(n) \in ChunkStates
  BY RelayConstants DEF RelayConstants, Armed, ChunkStates

\* Reading takes the next piece of the file, or ends the session.
LEMMA ReadAndSendSound ==
    ASSUME NEW f \in Files, NEW s \in Streams,
           NEW index \in Nat, s.chunks = index,
           index < TotalChunks(f), NEW to \in Devices,
           ReadAndSend(s, f, index, to)
    PROVE  /\ session' \in Sessions
           /\ stream' \in Streams
           /\ chunk' \in ChunkStates
           /\ heardAck' \in BOOLEAN
           /\ stream'.open <=> session'.active
           /\ session'.target \in Devices /\ session'.file \in Files
           /\ session'.active =>
                 /\ stream'.chunks = session'.index + 1
                 /\ session'.index < TotalChunks(session'.file)
<1>1. /\ Length[f] \in Nat /\ ChunkUnits \in Nat \ {0}
      /\ MaxAttempts \in Nat \ {0} /\ FragsPerChunk \in Nat \ {0}
  BY RelayConstants DEF RelayConstants
<1>2. PICK got \in ReadSizes(s, f) :
          IF got > 0
          THEN /\ session' = [active |-> TRUE, target |-> to, file |-> f, index |-> index]
               /\ stream' = [open |-> TRUE, read |-> s.read + got, chunks |-> s.chunks + 1]
               /\ chunk' = Armed(0)
               /\ heardAck' = FALSE
          ELSE /\ session' = [active |-> FALSE, target |-> to, file |-> f, index |-> index]
               /\ stream' = [s EXCEPT !.open = FALSE]
               /\ chunk' = NoChunk
               /\ heardAck' = FALSE
  BY DEF ReadAndSend
<1>3. got \in Nat /\ s.read + got \in Nat
  BY <1>1, <1>2 DEF ReadSizes, Smaller, Streams
<1>4. CASE got > 0
  <2>1. /\ session' = [active |-> TRUE, target |-> to, file |-> f, index |-> index]
        /\ stream' = [open |-> TRUE, read |-> s.read + got, chunks |-> s.chunks + 1]
        /\ chunk' = Armed(0)
        /\ heardAck' = FALSE
    BY <1>2, <1>4
  <2>2. chunk' \in ChunkStates
    BY <1>1, <2>1, ArmedTyped
  <2>3. session' \in Sessions
    BY <2>1 DEF Sessions, MaybeFiles
  <2>4. stream' \in Streams
    BY <1>3, <2>1 DEF Streams
  <2>5. session'.active /\ stream'.open /\ heardAck' \in BOOLEAN
    BY <2>1
  <2>6. /\ session'.target \in Devices /\ session'.file = f /\ session'.index = index
        /\ stream'.chunks = index + 1
    BY <2>1
  <2>. QED  BY <1>3, <2>2, <2>3, <2>4, <2>5, <2>6
<1>5. CASE ~(got > 0)
  <2>1. /\ session' = [active |-> FALSE, target |-> to, file |-> f, index |-> index]
        /\ stream' = [s EXCEPT !.open = FALSE]
        /\ chunk' = NoChunk
        /\ heardAck' = FALSE
    BY <1>2, <1>5
  <2>2. NoChunk \in ChunkStates
    BY <1>1 DEF NoChunk, ChunkStates
  <2>3. session' \in Sessions
    BY <2>1 DEF Sessions, MaybeFiles
  <2>4. stream' \in Streams
    BY <2>1 DEF Streams
  <2>5. ~session'.active /\ ~stream'.open /\ heardAck' \in BOOLEAN
    BY <2>1 DEF Streams
  <2>6. session'.target \in Devices /\ session'.file = f
    BY <2>1
  <2>7. chunk' = NoChunk
    BY <2>1
  <2>. QED  BY <2>2, <2>3, <2>4, <2>5, <2>6, <2>7
<1>. QED  BY <1>4, <1>5

-----------------------------------------------------------------------------
(***************************************************************************)
(* The invariant is kept, action by action.                                *)
(***************************************************************************)
LEMMA RelayInit == Init => RelayInv
<1> SUFFICES ASSUME Init PROVE RelayInv
  OBVIOUS
<1>1. MaxAttempts \in Nat /\ FragsPerChunk \in Nat
  BY RelayConstants DEF RelayConstants
<1>2. req \in RequestBuffers /\ lp \in LoopStates
  BY DEF Init, LoopIdle, RequestBuffers, LoopStates, MaybeFiles
<1>3. session \in Sessions /\ stream \in Streams
  BY DEF Init, NoSession, Closed, Sessions, Streams, MaybeFiles
<1>4. chunk \in ChunkStates
  BY <1>1 DEF Init, NoChunk, ChunkStates
<1>5. TypeOK
  BY <1>2, <1>3, <1>4 DEF Init, TypeOK
<1>. QED
  BY <1>5 DEF Init, RelayInv, OneRelayAtATime, ChunkIsNextInStream, RequestFromDevice,
              OpeningRealFile, SessionReal, AdvancingActive, LoopIdle, NoSession, Closed

\* The Wi-Fi task touches the request buffer and the flags of the chunk only.
LEMMA WifiTaskKeeps ==
    ASSUME RelayInv,
           \/ \E d \in Devices, f \in Files \cup {NoFile} : RequestArrives(d, f)
           \/ \E d \in Devices, k \in Chunks : ChunkAck(d, k)
           \/ ResendIntervalPasses
    PROVE  RelayInv'
<1>1. UNCHANGED <<lp, session, stream, sent>>
  BY DEF RequestArrives, ChunkAck, ResendIntervalPasses
<1>2. /\ req' \in RequestBuffers
      /\ asked' \subseteq Devices \X Files
      /\ RequestFromDevice'
  <2>1. ASSUME NEW d \in Devices, NEW f \in Files \cup {NoFile}, RequestArrives(d, f)
        PROVE  /\ req' \in RequestBuffers /\ req'.mac \in Devices
               /\ asked' \subseteq Devices \X Files
    BY <2>1 DEF RequestArrives, RelayInv, TypeOK, RequestBuffers, MaybeFiles
  <2>2. CASE UNCHANGED <<req, asked>>
    BY <1>1, <2>2 DEF RelayInv, TypeOK, RequestFromDevice
  <2>. QED  BY <2>1, <2>2 DEF RequestFromDevice, ChunkAck, ResendIntervalPasses
<1>3. /\ chunk' \in ChunkStates
      /\ ackPending' \in BOOLEAN /\ heardAck' \in BOOLEAN
  <2>1. ASSUME NEW d \in Devices, NEW f \in Files \cup {NoFile}, RequestArrives(d, f)
        PROVE  UNCHANGED <<chunk, ackPending, heardAck>>
    BY <2>1 DEF RequestArrives
  <2>2. ASSUME NEW d \in Devices, NEW k \in Chunks, ChunkAck(d, k)
        PROVE  chunk' \in ChunkStates /\ ackPending' = TRUE /\ heardAck' = TRUE
    BY <2>2 DEF ChunkAck, RelayInv, TypeOK, ChunkStates
  <2>3. CASE ResendIntervalPasses
    BY <2>3 DEF ResendIntervalPasses, RelayInv, TypeOK, ChunkStates
  <2>4. CASE UNCHANGED <<chunk, ackPending, heardAck>>
    BY <2>4 DEF RelayInv, TypeOK
  <2>5. ASSUME ResendIntervalPasses
        PROVE  ackPending' \in BOOLEAN /\ heardAck' \in BOOLEAN
    BY <2>5 DEF ResendIntervalPasses, RelayInv, TypeOK
  <2>. QED  BY <2>1, <2>2, <2>3, <2>4, <2>5
<1>4. TypeOK'
  BY <1>1, <1>2, <1>3 DEF RelayInv, TypeOK
<1>5. OneRelayAtATime' /\ OpeningRealFile' /\ SessionReal' /\ AdvancingActive'
  BY <1>1 DEF RelayInv, OneRelayAtATime, OpeningRealFile, SessionReal, AdvancingActive
<1>6. ChunkIsNextInStream'
  BY <1>1 DEF RelayInv, ChunkIsNextInStream, TotalChunks
<1>. QED  BY <1>2, <1>4, <1>5, <1>6 DEF RelayInv

\* The end of a session closes its connection.
LEMMA FinishSessionSound ==
    ASSUME RelayInv, FinishSession
    PROVE  /\ session' \in Sessions
           /\ stream' \in Streams
           /\ chunk' \in ChunkStates
           /\ ~session'.active /\ ~stream'.open
<1>1. session \in Sessions /\ stream \in Streams /\ chunk \in ChunkStates
  BY DEF RelayInv, TypeOK
<1>2. session' \in Sessions /\ ~session'.active
  BY <1>1 DEF FinishSession, Sessions
<1>3. stream' \in Streams /\ ~stream'.open
  BY <1>1 DEF FinishSession, Streams
<1>4. chunk' \in ChunkStates
  <2>1. 0 \in 0 .. FragsPerChunk
    BY RelayConstants DEF RelayConstants
  <2>2. chunk' = [chunk EXCEPT !.awaiting = FALSE, !.left = 0]
    BY DEF FinishSession
  <2>. QED  BY <1>1, <2>1, <2>2 DEF ChunkStates
<1>. QED  BY <1>2, <1>3, <1>4

LEMMA FinishOwnSessionSound ==
    ASSUME RelayInv, FinishOwnSession, lp.pc = "idle"
    PROVE  /\ session' \in Sessions
           /\ stream' \in Streams
           /\ chunk' \in ChunkStates
           /\ ~session'.active /\ ~stream'.open
<1>1. CASE session.active
  BY <1>1, FinishSessionSound DEF FinishOwnSession
<1>2. CASE ~session.active
  BY <1>2 DEF FinishOwnSession, RelayInv, TypeOK, OneRelayAtATime
<1>. QED  BY <1>1, <1>2

\* A handler's return frees the buffer and the loop task.
LEMMA ReturnSound ==
    ASSUME RelayInv, Return
    PROVE  /\ req' \in RequestBuffers
           /\ lp' \in LoopStates
           /\ ~req'.ready /\ lp'.pc = "idle"
  BY DEF Return, LoopIdle, RelayInv, TypeOK, RequestBuffers, LoopStates, MaybeFiles

\* The hub-request callback.
LEMMA CallbackKeeps ==
    ASSUME RelayInv,
           \/ FetchManifest \/ ManifestFetched \/ StartReplied \/ StartRefused
           \/ StartOpening \/ OpenFails \/ OpenSucceeds
    PROVE  RelayInv'
<1>1. CASE FetchManifest
  <2>1. TypeOK'
    BY <1>1 DEF FetchManifest, RelayInv, TypeOK, LoopStates, MaybeFiles
  <2>. QED
    BY <1>1, <2>1 DEF FetchManifest, RelayInv, OneRelayAtATime, ChunkIsNextInStream,
                      RequestFromDevice, OpeningRealFile, SessionReal, AdvancingActive
<1>2. CASE ManifestFetched \/ StartReplied \/ OpenFails
  <2>1. Return /\ UNCHANGED <<session, stream, chunk, ackPending, heardAck, sent, asked>>
        /\ lp.pc \in {"idle", "fetching", "opening"}
    BY <1>2 DEF ManifestFetched, StartReplied, OpenFails
  <2>2. TypeOK'
    BY <2>1, ReturnSound DEF RelayInv, TypeOK
  <2>3. OneRelayAtATime'
    BY <2>1, ReturnSound DEF RelayInv, OneRelayAtATime
  <2>. QED
    BY <2>1, <2>2, <2>3, ReturnSound
    DEF RelayInv, ChunkIsNextInStream, RequestFromDevice, OpeningRealFile, SessionReal,
        AdvancingActive
<1>3. CASE StartRefused
  <2>1. Return /\ FinishOwnSession /\ lp.pc = "idle" /\ UNCHANGED <<ackPending, heardAck, sent, asked>>
    BY <1>3 DEF StartRefused
  <2>2. TypeOK'
    BY <2>1, ReturnSound, FinishOwnSessionSound DEF RelayInv, TypeOK
  <2>. QED
    BY <2>1, <2>2, ReturnSound, FinishOwnSessionSound
    DEF RelayInv, OneRelayAtATime, ChunkIsNextInStream, RequestFromDevice, OpeningRealFile,
        SessionReal, AdvancingActive
<1>4. CASE StartOpening
  <2>1. /\ FinishOwnSession /\ lp.pc = "idle" /\ req.ready
        /\ UNCHANGED <<req, ackPending, heardAck, sent, asked>>
        /\ lp' = [pc |-> "opening", file |-> req.file]
        /\ req.file \in Files /\ Size[req.file] > 0
    BY <1>4, RelayConstants DEF StartOpening, RelayInv, TypeOK, RequestBuffers, MaybeFiles, RelayConstants
  <2>2. TypeOK'
    BY <2>1, FinishOwnSessionSound DEF RelayInv, TypeOK, LoopStates, MaybeFiles
  <2>. QED
    BY <2>1, <2>2, FinishOwnSessionSound
    DEF RelayInv, OneRelayAtATime, ChunkIsNextInStream, RequestFromDevice, OpeningRealFile,
        SessionReal, AdvancingActive
<1>5. CASE OpenSucceeds
  <2> DEFINE s == [Closed EXCEPT !.open = TRUE]
  <2>1. /\ lp.pc = "opening" /\ lp.file \in Files /\ Size[lp.file] > 0 /\ req.mac \in Devices
        /\ ReadAndSend(s, lp.file, 0, req.mac)
        /\ Return /\ UNCHANGED <<ackPending, sent, asked>>
    BY <1>5 DEF OpenSucceeds, RelayInv, OpeningRealFile, RequestFromDevice
  <2>2. s \in Streams /\ s.read = 0 /\ s.chunks = 0
    BY DEF Closed, Streams
  <2>3. 0 < TotalChunks(lp.file)
    BY <2>1, FirstChunkExists
  <2> HIDE DEF s
  <2>4. /\ session' \in Sessions
        /\ stream' \in Streams
        /\ chunk' \in ChunkStates
        /\ heardAck' \in BOOLEAN
        /\ stream'.open <=> session'.active
        /\ session'.target \in Devices /\ session'.file \in Files
        /\ session'.active =>
              /\ stream'.chunks = session'.index + 1
              /\ session'.index < TotalChunks(session'.file)
    BY <2>1, <2>2, <2>3, ReadAndSendSound
  <2>5. TypeOK'
    BY <2>1, <2>4, ReturnSound DEF RelayInv, TypeOK
  <2>6. ChunkIsNextInStream'
    BY <2>4 DEF ChunkIsNextInStream, TotalChunks
  <2>. QED
    BY <2>1, <2>4, <2>5, <2>6, ReturnSound
    DEF RelayInv, OneRelayAtATime, RequestFromDevice, OpeningRealFile, SessionReal,
        AdvancingActive
<1>. QED  BY <1>1, <1>2, <1>3, <1>4, <1>5

\* service(): the burst, the ack that was taken, the resend.
LEMMA ServiceKeeps ==
    ASSUME RelayInv, SendFragment \/ TakeAck \/ Advance \/ Resend \/ GiveUp
    PROVE  RelayInv'
<1>1. /\ req \in RequestBuffers /\ lp \in LoopStates
      /\ session \in Sessions /\ stream \in Streams /\ chunk \in ChunkStates
  BY DEF RelayInv, TypeOK
<1>2. CASE SendFragment
  <2>1. UNCHANGED <<req, lp, session, stream, ackPending, heardAck, asked>> /\ session.active
    BY <1>2 DEF SendFragment, Serving
  <2>2. chunk' \in ChunkStates
    BY <1>1, <1>2, RelayConstants DEF SendFragment, ChunkStates, RelayConstants
  <2>3. <<session.target, session.index>> \in Devices \X Nat
    BY <1>1, <2>1 DEF RelayInv, SessionReal, Sessions
  <2>4. sent' \subseteq Devices \X Nat
    BY <1>2, <2>3 DEF SendFragment, RelayInv, TypeOK
  <2>5. TypeOK'
    BY <2>1, <2>2, <2>4 DEF RelayInv, TypeOK
  <2>. QED
    BY <2>1, <2>5 DEF RelayInv, OneRelayAtATime, ChunkIsNextInStream, TotalChunks,
                      RequestFromDevice, OpeningRealFile, SessionReal, AdvancingActive
<1>3. CASE TakeAck
  <2>1. /\ UNCHANGED <<req, session, stream, chunk, heardAck, sent, asked>>
        /\ ackPending' = FALSE /\ session.active /\ lp.pc = "idle"
        /\ lp' = [lp EXCEPT !.pc = "advancing"]
    BY <1>3 DEF TakeAck, Serving
  <2>2. lp' \in LoopStates /\ lp'.pc = "advancing"
    BY <1>1, <2>1 DEF LoopStates
  <2>3. TypeOK'
    BY <2>1, <2>2 DEF RelayInv, TypeOK
  <2>. QED
    BY <2>1, <2>2, <2>3 DEF RelayInv, OneRelayAtATime, ChunkIsNextInStream, TotalChunks,
                            RequestFromDevice, OpeningRealFile, SessionReal, AdvancingActive
<1>4. CASE Advance
  <2>1. /\ lp.pc = "advancing" /\ lp' = LoopIdle /\ session.active
        /\ UNCHANGED <<req, ackPending, sent, asked>>
        /\ session.target \in Devices /\ session.file \in Files /\ session.index \in Nat
        /\ stream.chunks = session.index + 1
    BY <1>1, <1>4
    DEF Advance, RelayInv, AdvancingActive, SessionReal, ChunkIsNextInStream, Sessions
  <2>2. lp' \in LoopStates /\ lp'.pc = "idle"
    BY <2>1 DEF LoopIdle, LoopStates, MaybeFiles
  <2>3. TotalChunks(session.file) \in Int
    BY <2>1, RelayConstants DEF TotalChunks, RelayConstants
  <2>4. /\ session' \in Sessions /\ stream' \in Streams /\ chunk' \in ChunkStates
        /\ heardAck' \in BOOLEAN
        /\ stream'.open <=> session'.active
        /\ session'.active => session'.target \in Devices /\ session'.file \in Files
        /\ session'.active =>
              /\ stream'.chunks = session'.index + 1
              /\ session'.index < TotalChunks(session'.file)
    <3>1. CASE session.index + 1 >= TotalChunks(session.file)
      <4>1. /\ session' = [session EXCEPT !.index = session.index + 1, !.active = FALSE]
            /\ stream' = [stream EXCEPT !.open = FALSE]
            /\ chunk' = NoChunk /\ heardAck' = FALSE
        BY <1>4, <3>1 DEF Advance
      <4>2. session.index + 1 \in Nat
        BY <2>1
      <4>3. session' \in Sessions /\ ~session'.active
        BY <1>1, <4>2, <4>1 DEF Sessions
      <4>4. stream' \in Streams /\ ~stream'.open
        BY <1>1, <4>1 DEF Streams
      <4>5. chunk' \in ChunkStates
        BY <4>1, RelayConstants DEF NoChunk, ChunkStates, RelayConstants
      <4>. QED  BY <4>1, <4>3, <4>4, <4>5
    <3>2. CASE ~(session.index + 1 >= TotalChunks(session.file))
      <4>1. ReadAndSend(stream, session.file, session.index + 1, session.target)
        BY <1>4, <3>2 DEF Advance
      <4>2. session.index + 1 \in Nat /\ session.index + 1 < TotalChunks(session.file)
        BY <2>1, <2>3, <3>2
      <4>. QED  BY <1>1, <2>1, <4>1, <4>2, ReadAndSendSound
    <3>. QED  BY <3>1, <3>2
  <2>5. TypeOK'
    BY <2>1, <2>2, <2>4 DEF RelayInv, TypeOK
  <2>6. ChunkIsNextInStream'
    BY <2>4 DEF ChunkIsNextInStream, TotalChunks
  <2>. QED
    BY <2>1, <2>2, <2>4, <2>5, <2>6
    DEF RelayInv, OneRelayAtATime, RequestFromDevice, OpeningRealFile, SessionReal,
        AdvancingActive
<1>5. CASE Resend
  <2>1. UNCHANGED <<req, lp, session, stream, ackPending, heardAck, sent, asked>>
        /\ chunk' = Armed(chunk.attempts) /\ chunk.attempts < MaxAttempts /\ chunk.attempts \in Nat
    BY <1>1, <1>5, RelayConstants DEF Resend, Exhausted, ChunkStates, RelayConstants
  <2>2. TypeOK'
    BY <2>1, ArmedTyped DEF RelayInv, TypeOK
  <2>. QED
    BY <2>1, <2>2 DEF RelayInv, OneRelayAtATime, ChunkIsNextInStream, TotalChunks,
                      RequestFromDevice, OpeningRealFile, SessionReal, AdvancingActive
<1>6. CASE GiveUp
  <2>1. UNCHANGED <<req, lp, ackPending, heardAck, sent, asked>> /\ FinishSession /\ lp.pc = "idle"
    BY <1>6 DEF GiveUp, ResendDue, Serving
  <2>2. TypeOK'
    BY <2>1, FinishSessionSound DEF RelayInv, TypeOK
  <2>. QED
    BY <2>1, <2>2, FinishSessionSound
    DEF RelayInv, OneRelayAtATime, ChunkIsNextInStream, RequestFromDevice, OpeningRealFile,
        SessionReal, AdvancingActive
<1>. QED  BY <1>2, <1>3, <1>4, <1>5, <1>6

LEMMA RelayStep == RelayInv /\ [Next]_vars => RelayInv'
<1> SUFFICES ASSUME RelayInv, [Next]_vars PROVE RelayInv'
  OBVIOUS
<1>1. CASE Loop
  BY <1>1, CallbackKeeps, ServiceKeeps DEF Loop
<1>2. CASE UNCHANGED vars
  BY <1>2 DEF vars, RelayInv, TypeOK, OneRelayAtATime, ChunkIsNextInStream, TotalChunks,
              RequestFromDevice, OpeningRealFile, SessionReal, AdvancingActive
<1>. QED  BY <1>1, <1>2, WifiTaskKeeps DEF Next

LEMMA RelayAlways == Spec => []RelayInv
  BY RelayInit, RelayStep, PTL DEF Spec

-----------------------------------------------------------------------------
(***************************************************************************)
(* Theorems.                                                               *)
(***************************************************************************)
\* Attempts and fragments keep within their bounds, and only chunks sent to
\* real devices are recorded, whatever the Wi-Fi task does to the buffer.
THEOREM RelayTyped == Spec => []TypeOK
<1>1. RelayInv => TypeOK
  BY DEF RelayInv
<1>. QED  BY <1>1, RelayAlways, PTL

\* One connection, open exactly while a relay is active; a new one is opened
\* only when there is none.
THEOREM OneRelay == Spec => []OneRelayAtATime
<1>1. RelayInv => OneRelayAtATime
  BY DEF RelayInv
<1>. QED  BY <1>1, RelayAlways, PTL

\* Chunk k of a session carries the k-th piece read from its connection, and
\* no chunk is beyond the total announced, for every chunk size and whatever
\* the connection yields of a file of whatever stated size.
THEOREM ChunksInOrder == Spec => []ChunkIsNextInStream
<1>1. RelayInv => ChunkIsNextInStream
  BY DEF RelayInv
<1>. QED  BY <1>1, RelayAlways, PTL

\* No request ends the session of another device.
THEOREM NotDisturbedByOthers == Spec => UndisturbedByOthers
<1> DEFINE Ends == session.active /\ ~session'.active
                       => \/ req.ready /\ req.mac = session.target
                          \/ lp.pc = "advancing"
                          \/ chunk.attempts >= MaxAttempts /\ chunk.elapsed
<1>1. RelayInv /\ [Next]_vars => [Ends]_vars
  <2> SUFFICES ASSUME RelayInv, [Next]_vars, session.active, ~session'.active
               PROVE  \/ req.ready /\ req.mac = session.target
                      \/ lp.pc = "advancing"
                      \/ chunk.attempts >= MaxAttempts /\ chunk.elapsed
    OBVIOUS
  <2>1. CASE UNCHANGED session
    BY <2>1
  <2>2. CASE StartRefused \/ StartOpening
    BY <2>2 DEF StartRefused, StartOpening, MayStart
  <2>3. CASE OpenSucceeds
    BY <2>3 DEF OpenSucceeds, RelayInv, OneRelayAtATime
  <2>4. CASE Advance
    BY <2>4 DEF Advance
  <2>5. CASE GiveUp
    BY <2>5 DEF GiveUp, ResendDue, Exhausted
  <2>6. ASSUME Loop, ~(StartRefused \/ StartOpening), ~OpenSucceeds, ~Advance, ~GiveUp
        PROVE  UNCHANGED session
    BY <2>6 DEF Loop, FetchManifest, ManifestFetched, StartReplied, OpenFails, SendFragment,
                TakeAck, Resend
  <2>7. ASSUME ~Loop
        PROVE  UNCHANGED session
    BY <2>7 DEF Next, RequestArrives, ChunkAck, ResendIntervalPasses, vars
  <2>. QED  BY <2>1, <2>2, <2>3, <2>4, <2>5, <2>6, <2>7
<1>. QED  BY <1>1, RelayAlways, PTL DEF Spec, UndisturbedByOthers
=============================================================================
