----------------------- MODULE HubCommandPathProofs -----------------------
(***************************************************************************)
(* Theorems about HubCommandPath, for any devices, requests and sizes, and *)
(* whether or not replies of two devices reach the Hub intermixed.         *)
(*                                                                         *)
(* What the dispatcher is handed here need not be what a device sent: a    *)
(* reply may come twice, with another device's MAC, or overwritten.  So    *)
(* the proofs use the part of the dispatcher's invariant that assumes      *)
(* nothing of where a reply comes from (DispatcherInv, without OwnInv),    *)
(* and reprove of each step of the path what JournalMove and RadioMove say *)
(* of the dispatcher's.                                                    *)
(***************************************************************************)
EXTENDS HubCommandPath, CommandDispatcherProofs, FiniteSetTheorems

-----------------------------------------------------------------------------
(***************************************************************************)
(* The inductive invariant.                                                *)
(***************************************************************************)
Held == {m \in Answers : m.type \in {"plain", "page"}}

\* While a device is midway, the scratch area holds a reply, if not its own;
\* while a frame waits, is filled in or is read, so does the buffer.
FrameInv ==
    /\ partial \in [Devices -> Held \cup {NoReply}]
    /\ (\E d \in Devices : partial[d] # NoReply) => scratch \in Held
    /\ ready \/ filling # {} \/ taking # "no" => buffer \in Held

\* While the loop task reads the buffer, the entry it matched stays in use and
\* service() has chosen none.
TakeInv ==
    /\ taking \in {"no", "match", "copy"}
    /\ taking # "no" => svc = 0
    /\ taking = "copy" => matched \in Slots /\ Used(matched)

\* The roster never holds more devices than it has slots.
RosterFits ==
    /\ slot \in [Devices -> {"none", "used", "known"}]
    /\ IsFiniteSet(Present)
    /\ Cardinality(Present) <= MaxDevices

PathInv == DispatcherInv /\ FrameInv /\ TakeInv /\ RosterFits

-----------------------------------------------------------------------------
(***************************************************************************)
(* What a step of the path does to the journal, on the radio and to        *)
(* service()'s place.                                                      *)
(***************************************************************************)
PathMove == JournalMove(ToAnyone) /\ RadioMove(Messages) /\ CursorInv'

LEMMA NoReplyNotHeld == NoReply \notin Held
  BY DEF NoReply, Msg, Held

\* A step that leaves the dispatcher alone.
LEMMA IdleMoves ==
    ASSUME WireInv, UNCHANGED <<hubVars, execs>>, air' \subseteq air
    PROVE  PathMove
<1>1. JournalMove(ToAnyone)
  BY NothingTimed DEF hubVars, JournalMove
<1>2. RadioMove(Messages)
  BY DEF hubVars, RadioMove, BurstKept
<1>3. CursorInv'
  BY CursorKept DEF hubVars, WireInv, TypeOK
<1>. QED  BY <1>1, <1>2, <1>3 DEF PathMove

LEMMA VarsMoves ==
    ASSUME WireInv, UNCHANGED vars
    PROVE  PathMove
  BY IdleMoves DEF vars

\* The dispatcher's own steps.
LEMMA NextMoves ==
    ASSUME WireInv, Next
    PROVE  PathMove
  BY AnyoneMoves, StepCursor DEF PathMove

\* The content of the buffer, read as the reply of the matched entry's device.
LEMMA ReadingHeld ==
    ASSUME PathInv, taking = "copy", NEW m \in Readings(matched, buffer)
    PROVE  /\ matched \in Slots /\ Used(matched) /\ svc = 0
           /\ m \in Answers /\ m.rid \in ToAnyone[pending[matched].req]
<1>1. matched \in Slots /\ Used(matched) /\ svc = 0 /\ buffer \in Held
  BY DEF PathInv, TakeInv, FrameInv
<1>2. pending[matched].req \in Requests
      /\ (pending[matched].paging => pending[matched].rid \in AnyReply)
  BY <1>1, UsedEntry DEF PathInv, DispatcherInv
<1>3. m \in Answers
  <2>1. CASE m = buffer
    BY <1>1, <2>1 DEF Held
  <2>2. CASE m = [buffer EXCEPT !.rid = pending[matched].rid] /\ pending[matched].paging
    <3>1. pending[matched].rid \in Rids /\ pending[matched].rid[1] \in Requests
      BY <1>2, <2>2, ReplyTyped
    <3>. QED  BY <1>1, <2>2, <3>1 DEF Held, Answers, Messages
  <2>. QED  BY <2>1, <2>2 DEF Readings
<1>4. m.rid \in AnyReply
  BY <1>3, SoundMessage
<1>. QED  BY <1>1, <1>2, <1>3, <1>4 DEF ToAnyone

LEMMA CopyMoves ==
    ASSUME PathInv, CopyFrame
    PROVE  PathMove
<1>1. PICK m \in Readings(matched, buffer) : HandleReply(matched, m, air)
  BY DEF CopyFrame
<1>2. /\ matched \in Slots /\ Used(matched) /\ svc = 0 /\ WireInv
      /\ m \in Answers /\ m.rid \in ToAnyone[pending[matched].req]
  BY ReadingHeld DEF CopyFrame, PathInv, DispatcherInv
<1>3. submitted' = submitted /\ air \in SUBSET air
      /\ \A p \in Commands : p.dev = Device(matched) /\ p.rid = m.rid => p \in Messages
  BY SoundMessage DEF CopyFrame
<1>4. JournalMove(ToAnyone) /\ RadioMove(Messages)
  BY <1>1, <1>2, <1>3, HandleReplyMoves
<1>5. CursorInv'
  BY <1>2, CursorIdle DEF CopyFrame
<1>. QED  BY <1>4, <1>5 DEF PathMove

LEMMA PathMoves ==
    ASSUME PathInv, [PathNext]_pathVars
    PROVE  PathMove
<1>1. WireInv
  BY DEF PathInv, DispatcherInv
<1>2. CASE WifiTask
  <2>1. ASSUME NEW d \in Devices, Hello(d) \/ DataFrame(d) \/ LastFragment(d)
        PROVE  PathMove
    BY <1>1, <2>1, VarsMoves DEF Hello, DataFrame, LastFragment
  <2>2. ASSUME NEW m \in Replies, FirstFragment(m) \/ OnlyFragment(m)
        PROVE  PathMove
    BY <1>1, <2>2, IdleMoves DEF FirstFragment, OnlyFragment
  <2>3. ASSUME NEW f \in filling, KeepMac(f) \/ RaiseFlag(f)
        PROVE  PathMove
    BY <1>1, <2>3, VarsMoves DEF KeepMac, RaiseFlag
  <2>4. ASSUME NEW m \in air, Ack(m)
        PROVE  PathMove
    BY <1>1, <2>4, NextMoves DEF Ack, Next
  <2>5. ASSUME NEW a \in acking, AckWritten(a)
        PROVE  PathMove
    BY <1>1, <2>5, NextMoves DEF AckWritten, Next
  <2>. QED  BY <1>2, <2>1, <2>2, <2>3, <2>4, <2>5 DEF WifiTask
<1>3. CASE LoopTask
  <2>1. ASSUME NEW d \in Devices, Reap(d)
        PROVE  PathMove
    BY <1>1, <2>1, VarsMoves DEF Reap
  <2>2. ASSUME NEW r \in Requests, BackendCommand(r)
        PROVE  PathMove
    BY <1>1, <2>2, NextMoves DEF BackendCommand, SendCommand, Next
  <2>3. ASSUME NEW i \in Slots, MatchEntry(i)
        PROVE  PathMove
    BY <1>1, <2>3, VarsMoves DEF MatchEntry
  <2>4. CASE DispatcherService
    BY <1>1, <2>4, NextMoves DEF DispatcherService, Next
  <2>5. CASE TakeFrame \/ MatchNothing \/ SendReturns
    BY <1>1, <2>5, VarsMoves DEF TakeFrame, MatchNothing, SendReturns
  <2>. QED  BY <1>3, <2>1, <2>2, <2>3, <2>4, <2>5, CopyMoves DEF LoopTask
<1>4. CASE Environment
  <2>1. ASSUME NEW m \in air, DeviceAnswers(m)
        PROVE  PathMove
    BY <1>1, <2>1, NextMoves DEF DeviceAnswers, Next
  <2>2. ASSUME NEW i \in Slots, TimePasses(i)
        PROVE  PathMove
    BY <1>1, <2>2, NextMoves DEF TimePasses, Next
  <2>. QED  BY <1>4, <2>1, <2>2 DEF Environment
<1>5. CASE UNCHANGED pathVars
  BY <1>1, <1>5, VarsMoves DEF pathVars
<1>. QED  BY <1>2, <1>3, <1>4, <1>5 DEF PathNext

LEMMA DispatcherKept ==
    ASSUME PathInv, [PathNext]_pathVars
    PROVE  DispatcherInv'
  BY PathMoves, WireMoves, JournalMoves DEF PathInv, DispatcherInv, PathMove

-----------------------------------------------------------------------------
(***************************************************************************)
(* The buffers.                                                            *)
(***************************************************************************)
LEMMA RepliesHeld ==
    ASSUME PathInv, NEW m \in Replies
    PROVE  m \in Held /\ m.dev \in Devices /\ m \in air
<1>1. m \in Commands \cup Answers /\ m.type \in {"plain", "page"} /\ m \in air
  BY DEF Replies, PathInv, DispatcherInv, WireInv, SoundAir
<1>2. m \in Held
  BY <1>1 DEF Held, Commands
<1>. QED  BY <1>1, <1>2, SoundMessage

\* Fragments and reaping keep the scratch area filled for those midway.
LEMMA ScratchKept ==
    ASSUME PathInv,
           \/ \E d \in Devices : Reap(d) \/ LastFragment(d)
           \/ \E m \in Replies : FirstFragment(m) \/ OnlyFragment(m)
    PROVE  /\ partial' \in [Devices -> Held \cup {NoReply}]
           /\ (\E d \in Devices : partial'[d] # NoReply) => scratch' \in Held
<1>1. /\ partial \in [Devices -> Held \cup {NoReply}]
      /\ (\E d \in Devices : partial[d] # NoReply) => scratch \in Held
  BY DEF PathInv, FrameInv
<1>2. ASSUME NEW d \in Devices, Reap(d) \/ LastFragment(d)
      PROVE  /\ partial' \in [Devices -> Held \cup {NoReply}]
             /\ (\E e \in Devices : partial'[e] # NoReply) => scratch' \in Held
  <2>1. partial' = [partial EXCEPT ![d] = NoReply] /\ scratch' = ScratchLeft
    BY <1>2 DEF Reap, LastFragment
  <2>2. \A e \in Devices : partial'[e] # NoReply => partial[e] # NoReply
    BY <1>1, <2>1
  <2>. QED  BY <1>1, <2>1, <2>2 DEF ScratchLeft
<1>3. ASSUME NEW m \in Replies, FirstFragment(m)
      PROVE  /\ partial' \in [Devices -> Held \cup {NoReply}]
             /\ (\E e \in Devices : partial'[e] # NoReply) => scratch' \in Held
  <2>1. partial' = [partial EXCEPT ![m.dev] = m] /\ scratch' = m /\ m \in Held
    BY <1>3, RepliesHeld DEF FirstFragment
  <2>. QED  BY <1>1, <2>1
<1>4. ASSUME NEW m \in Replies, OnlyFragment(m)
      PROVE  /\ partial' \in [Devices -> Held \cup {NoReply}]
             /\ (\E e \in Devices : partial'[e] # NoReply) => scratch' \in Held
  <2>1. partial' = [partial EXCEPT ![m.dev] = NoReply] /\ m \in Held
        /\ scratch' = IF ScratchLeft = NoReply THEN NoReply ELSE m
    BY <1>4, RepliesHeld DEF OnlyFragment
  <2>2. partial' \in [Devices -> Held \cup {NoReply}]
        /\ \A e \in Devices : partial'[e] # NoReply => partial[e] # NoReply
    BY <1>1, <2>1
  <2>3. (\E e \in Devices : partial'[e] # NoReply) => ScratchLeft # NoReply
    BY <1>1, <2>2, NoReplyNotHeld DEF ScratchLeft
  <2>. QED  BY <2>1, <2>2, <2>3
<1>. QED  BY <1>2, <1>3, <1>4

\* FrameInv of the scratch area, of any value of it.
Midway(p, s) ==
    /\ p \in [Devices -> Held \cup {NoReply}]
    /\ (\E d \in Devices : p[d] # NoReply) => s \in Held

LEMMA MidwayStep ==
    ASSUME PathInv, [PathNext]_pathVars
    PROVE  Midway(partial', scratch')
<1>1. Midway(partial, scratch)
  BY DEF PathInv, FrameInv, Midway
<1>2. CASE UNCHANGED scratchVars
  BY <1>1, <1>2 DEF scratchVars
<1>3. CASE \/ \E d \in Devices : Reap(d) \/ LastFragment(d)
           \/ \E m \in Replies : FirstFragment(m) \/ OnlyFragment(m)
  BY <1>3, ScratchKept DEF Midway
<1>4. CASE WifiTask
  BY <1>2, <1>3, <1>4 DEF WifiTask, Hello, DataFrame, KeepMac, RaiseFlag, Ack, AckWritten
<1>5. CASE LoopTask
  BY <1>2, <1>3, <1>5
  DEF LoopTask, BackendCommand, MatchEntry, DispatcherService, TakeFrame, MatchNothing, CopyFrame,
      SendReturns
<1>6. CASE Environment
  BY <1>2, <1>6 DEF Environment, DeviceAnswers, TimePasses
<1>. QED  BY <1>2, <1>4, <1>5, <1>6 DEF PathNext, pathVars

LEMMA BufferStep ==
    ASSUME PathInv, [PathNext]_pathVars
    PROVE  ready' \/ filling' # {} \/ taking' # "no" => buffer' \in Held
<1> DEFINE Filled == ready' \/ filling' # {} \/ taking' # "no" => buffer' \in Held
<1>1. ready \/ filling # {} \/ taking # "no" => buffer \in Held
  BY DEF PathInv, FrameInv
<1>2. CASE UNCHANGED <<bufferVars, taking>>
  BY <1>1, <1>2 DEF bufferVars
<1>3. ASSUME NEW m \in Replies, OnlyFragment(m)
      PROVE  Filled
  BY <1>3, RepliesHeld DEF OnlyFragment, Keep
<1>4. ASSUME NEW d \in Devices, LastFragment(d)
      PROVE  Filled
  BY <1>4 DEF LastFragment, Keep, PathInv, FrameInv
<1>5. ASSUME NEW f \in filling, KeepMac(f) \/ RaiseFlag(f)
      PROVE  Filled
  BY <1>1, <1>5 DEF KeepMac, RaiseFlag, takeVars
<1>6. CASE WifiTask
  BY <1>2, <1>3, <1>4, <1>5, <1>6
  DEF WifiTask, Hello, DataFrame, FirstFragment, Ack, AckWritten, takeVars
<1>7. CASE TakeFrame \/ MatchNothing \/ CopyFrame \/ \E i \in Slots : MatchEntry(i)
  BY <1>1, <1>7 DEF TakeFrame, MatchNothing, CopyFrame, MatchEntry, BufferLeft, bufferVars
<1>8. CASE LoopTask
  BY <1>2, <1>7, <1>8
  DEF LoopTask, Reap, BackendCommand, DispatcherService, SendReturns, takeVars
<1>9. CASE Environment
  BY <1>2, <1>9 DEF Environment, DeviceAnswers, TimePasses, takeVars
<1>. QED  BY <1>2, <1>6, <1>8, <1>9 DEF PathNext, pathVars, takeVars

LEMMA FrameStep ==
    ASSUME PathInv, [PathNext]_pathVars
    PROVE  FrameInv'
  BY MidwayStep, BufferStep
  DEF FrameInv, Midway, NoReply, Msg, Held, Answers, Messages, Rids, SoundPages, AnyReply

-----------------------------------------------------------------------------
(***************************************************************************)
(* The loop task at the buffer.                                            *)
(***************************************************************************)
\* Between the match and the copy only the Wi-Fi task, the devices and time
\* move, and they take no entry away.
LEMMA EntryStays ==
    ASSUME PathInv, NEW i \in Slots, Used(i),
           \/ UNCHANGED pending
           \/ \E a \in acking : MarkAcked(a)
           \/ \E j \in Slots : WaitRunsOut(j)
    PROVE  Used(i)'
<1>1. pending \in [Slots -> Entry] /\ WireInv
  BY DEF PathInv, DispatcherInv, WireInv, TypeOK
<1>2. ASSUME NEW a \in acking, MarkAcked(a)
      PROVE  pending'[i].req = pending[i].req
  BY <1>1, <1>2, MarkAckedMoves
<1>3. ASSUME NEW j \in Slots, WaitRunsOut(j)
      PROVE  pending'[i].req = pending[i].req
  BY <1>1, <1>3 DEF Entry, WaitRunsOut
<1>. QED  BY <1>2, <1>3 DEF Used

LEMMA TakeStep ==
    ASSUME PathInv, [PathNext]_pathVars
    PROVE  TakeInv'
<1>1. TakeInv
  BY DEF PathInv
<1>2. ASSUME UNCHANGED <<taking, matched, svc>>,
             \/ UNCHANGED pending
             \/ \E a \in acking : MarkAcked(a)
             \/ \E j \in Slots : WaitRunsOut(j)
      PROVE  TakeInv'
  BY <1>1, <1>2, EntryStays DEF TakeInv, Slots
<1>3. ASSUME taking = "no", taking' = taking
      PROVE  TakeInv'
  BY <1>3 DEF TakeInv
<1>4. CASE WifiTask
  BY <1>2, <1>4
  DEF WifiTask, Hello, DataFrame, LastFragment, FirstFragment, OnlyFragment, KeepMac, RaiseFlag, Ack,
      AckWritten, FindAcked, MarkAcked, takeVars, hubVars, vars
<1>5. CASE Environment
  <2>1. UNCHANGED <<taking, matched, svc>>
    BY <1>5
    DEF Environment, DeviceAnswers, TimePasses, Execute, AnswerPageAsk, WaitRunsOut, takeVars, hubVars
  <2>2. UNCHANGED pending \/ \E j \in Slots : WaitRunsOut(j)
    BY <1>5 DEF Environment, DeviceAnswers, TimePasses, Execute, AnswerPageAsk, hubVars
  <2>. QED  BY <1>2, <2>1, <2>2
<1>6. CASE LoopTask
  <2>1. CASE TakeFrame
    BY <2>1 DEF TakeFrame, TakeInv, vars, hubVars
  <2>2. CASE MatchNothing \/ CopyFrame
    BY <2>2 DEF MatchNothing, CopyFrame, TakeInv
  <2>3. ASSUME NEW i \in Slots, MatchEntry(i)
        PROVE  TakeInv'
    <3>1. taking' = "copy" /\ matched' = i /\ svc' = svc /\ pending' = pending /\ svc = 0
      BY <1>1, <2>3 DEF MatchEntry, TakeInv, vars, hubVars
    <3>2. Used(i)
      BY <2>3 DEF MatchEntry, EntryOf
    <3>. QED  BY <3>1, <3>2 DEF TakeInv, Used, Slots
  <2>4. CASE SendReturns
    BY <1>2, <2>4 DEF SendReturns, vars, hubVars
  <2>5. CASE (\E d \in Devices : Reap(d)) \/ (\E r \in Requests : BackendCommand(r))
             \/ DispatcherService
    BY <1>3, <2>5 DEF Reap, BackendCommand, DispatcherService, LoopFree, takeVars
  <2>. QED  BY <1>6, <2>1, <2>2, <2>3, <2>4, <2>5 DEF LoopTask
<1>7. CASE UNCHANGED pathVars
  BY <1>2, <1>7 DEF pathVars, vars, hubVars, takeVars
<1>. QED  BY <1>4, <1>5, <1>6, <1>7 DEF PathNext

-----------------------------------------------------------------------------
(***************************************************************************)
(* The roster.                                                             *)
(***************************************************************************)
\* findOrCreateSlot() gives a slot only where there is a free one.
LEMMA HeardFromFits ==
    ASSUME RosterFits, NEW d \in Devices, HeardFrom(d)
    PROVE  RosterFits'
<1>1. slot' \in [Devices -> {"none", "used", "known"}]
  BY DEF RosterFits, HeardFrom
<1>2. Present' = Present \cup {d}
  BY DEF RosterFits, HeardFrom, Present
<1>3. IsFiniteSet(Present')
      /\ Cardinality(Present') = IF d \in Present THEN Cardinality(Present)
                                                  ELSE Cardinality(Present) + 1
  BY <1>2, FS_AddElement DEF RosterFits
<1>4. d \in Present \/ Cardinality(Present) < MaxDevices
  BY DEF HeardFrom, RosterHasRoom, Present
<1>5. Cardinality(Present) \in Nat /\ MaxDevices \in Nat
  BY FS_CardinalityType, PathConstants DEF RosterFits, PathConstants
<1>6. Cardinality(Present') <= MaxDevices
  BY <1>3, <1>4, <1>5 DEF RosterFits
<1>. QED  BY <1>1, <1>3, <1>6 DEF RosterFits

\* The message of a fragment or an ack comes from a device.
LEMMA OnAirFromDevice ==
    ASSUME PathInv, NEW m \in air
    PROVE  m.dev \in Devices
  BY DEF PathInv, DispatcherInv, WireInv, TypeOK, Messages

LEMMA RosterStep ==
    ASSUME PathInv, [PathNext]_pathVars
    PROVE  RosterFits'
<1>1. RosterFits
  BY DEF PathInv
<1>2. CASE UNCHANGED slot
  <2>1. Present' = Present
    BY <1>2 DEF Present
  <2>. QED  BY <1>1, <1>2, <2>1 DEF RosterFits
<1>3. ASSUME NEW d \in Devices, DataFrame(d)
      PROVE  RosterFits'
  <2>1. slot' \in [Devices -> {"none", "used", "known"}] /\ Present' = Present
    BY <1>1, <1>3 DEF DataFrame, RosterFits, Present
  <2>. QED  BY <1>1, <2>1 DEF RosterFits
<1>4. ASSUME NEW d \in Devices, Reap(d)
      PROVE  RosterFits'
  <2>1. slot' \in [Devices -> {"none", "used", "known"}] /\ Present' \in SUBSET Present
    BY <1>1, <1>4 DEF Reap, RosterFits, Present
  <2>2. IsFiniteSet(Present') /\ Cardinality(Present') <= Cardinality(Present)
    BY <1>1, <2>1, FS_Subset DEF RosterFits
  <2>3. Cardinality(Present) \in Nat /\ Cardinality(Present') \in Nat /\ MaxDevices \in Nat
    BY <1>1, <2>2, FS_CardinalityType, PathConstants DEF RosterFits, PathConstants
  <2>. QED  BY <1>1, <2>1, <2>2, <2>3 DEF RosterFits
<1>5. ASSUME NEW d \in Devices, Hello(d) \/ LastFragment(d)
      PROVE  RosterFits'
  BY <1>1, <1>5, HeardFromFits DEF Hello, LastFragment
<1>6. ASSUME NEW m \in air, Ack(m) \/ FirstFragment(m) \/ OnlyFragment(m)
      PROVE  RosterFits'
  BY <1>1, <1>6, OnAirFromDevice, HeardFromFits DEF Ack, FirstFragment, OnlyFragment
<1>7. CASE WifiTask
  BY <1>2, <1>3, <1>5, <1>6, <1>7
  DEF WifiTask, Replies, KeepMac, RaiseFlag, AckWritten, rosterVars
<1>8. CASE LoopTask
  BY <1>2, <1>4, <1>8
  DEF LoopTask, BackendCommand, MatchEntry, DispatcherService, TakeFrame, MatchNothing, CopyFrame,
      SendReturns, rosterVars
<1>9. CASE Environment
  BY <1>2, <1>9 DEF Environment, DeviceAnswers, TimePasses, rosterVars
<1>. QED  BY <1>2, <1>7, <1>8, <1>9 DEF PathNext, pathVars, rosterVars

-----------------------------------------------------------------------------
(***************************************************************************)
(* The invariant, in every reachable state.                                *)
(***************************************************************************)
LEMMA PathInitially == PathInit => PathInv
<1> SUFFICES ASSUME PathInit PROVE PathInv
  OBVIOUS
<1>1. DispatcherInv
  BY DispatcherInit DEF PathInit
<1>2. FrameInv /\ TakeInv
  BY DEF PathInit, FrameInv, TakeInv
<1>3. Present = {} /\ slot \in [Devices -> {"none", "used", "known"}]
  BY DEF PathInit, Present
<1>4. RosterFits
  BY <1>3, FS_EmptySet, PathConstants DEF RosterFits, PathConstants
<1>. QED  BY <1>1, <1>2, <1>4 DEF PathInv

LEMMA PathAlways == PathSpec => []PathInv
<1>1. PathInv /\ [PathNext]_pathVars => PathInv'
  BY DispatcherKept, FrameStep, TakeStep, RosterStep DEF PathInv
<1>. QED  BY <1>1, PathInitially, PTL DEF PathSpec

-----------------------------------------------------------------------------
(***************************************************************************)
(* Theorems.                                                               *)
(***************************************************************************)
\* No burst is cut short, whatever the roster and the buffers do meanwhile.
THEOREM PathBurstsWhole == PathSpec => NoTruncatedBurst
<1>1. PathInv /\ [PathNext]_pathVars => [Whole]_vars
  BY PathMoves, WholeBurst DEF PathInv, DispatcherInv, PathMove
<1>. QED  BY <1>1, PathAlways, PTL DEF PathSpec, NoTruncatedBurst, Whole

\* A complete reply leaves the buffer by being read, never because the loop
\* task returns from a blocking send.
THEOREM RepliesHandled == PathSpec => NoReplyThrownAway
<1>1. [PathNext]_pathVars =>
          [ready /\ ~ready' => ~sending /\ taking' = "match" /\ buffer' = buffer]_pathVars
  <2> SUFFICES ASSUME PathNext, ready, ~ready'
               PROVE  ~sending /\ taking' = "match" /\ buffer' = buffer
    OBVIOUS
  <2>1. ~UNCHANGED ready
    OBVIOUS
  <2>2. ~WifiTask
    BY <2>1
    DEF WifiTask, Hello, DataFrame, LastFragment, FirstFragment, OnlyFragment, Keep, KeepMac,
        RaiseFlag, Ack, AckWritten, bufferVars
  <2>3. ~Environment
    BY <2>1 DEF Environment, DeviceAnswers, TimePasses, bufferVars
  <2>4. TakeFrame
    BY <2>1, <2>2, <2>3
    DEF PathNext, LoopTask, Reap, BackendCommand, MatchEntry, DispatcherService, MatchNothing,
        CopyFrame, SendReturns, bufferVars
  <2>. QED  BY <2>4 DEF TakeFrame, LoopFree
<1>. QED  BY <1>1, PTL DEF PathSpec, NoReplyThrownAway

-----------------------------------------------------------------------------
(***************************************************************************)
(* One answer to each request, whoever it comes from.                      *)
(***************************************************************************)
LEMMA DeliveryEnds ==
    ASSUME DispatcherInv, NEW r \in Requests
    PROVE  Delivery!HasEnded(r) <=> Resolved(r)
<1>1. ASSUME NEW k \in 1 .. Len(uplink[r])
      PROVE  ReplyPages[uplink[r][k].rid] = Pages[uplink[r][k].rid[1]]
  BY <1>1 DEF DispatcherInv, JournalInv, AnswersSound, AnyReply, ReplyPages
<1>. QED  BY <1>1 DEF Delivery!HasEnded, Delivery!Ends, Resolved, Terminal

LEMMA DeliveryOpen ==
    ASSUME DispatcherInv, NEW i \in Slots, Used(i)
    PROVE  Delivery!Open(pending[i].req)
  BY EntryJournal, EntryUnresolved, DeliveryEnds DEF Delivery!Open

LEMMA DeliveryEligible ==
    ASSUME NEW r \in Requests, NEW rid \in AnyReply
    PROVE  rid \in AllReplies[r] /\ rid \in Delivery!Eligible(r)
  BY DEF AllReplies, AnyReply, Delivery!Eligible

\* Whatever is reported is the next thing to say of an open request.
LEMMA DeliveryStep ==
    ASSUME DispatcherInv, JournalMove(ToAnyone)
    PROVE  [Delivery!Next]_(Delivery!serviceVars)
<1>1. CASE Refused
  <2>1. PICK r \in Requests \ submitted, type \in ErrorMessages :
            submitted' = submitted \cup {r} /\ Report(r, type, <<r, 0>>, 0)
    BY <1>1 DEF Refused, Reject
  <2>2. <<r, 0>> \in AllReplies[r]
    BY HubRid, DeliveryEligible
  <2>3. Delivery!Refuse(r)
    BY <2>1, <2>2 DEF Report, Delivery!Refuse, Delivery!Tell
  <2>4. Delivery!ToldSomething(r)
    BY <2>1, ReportTells DEF Delivery!ToldSomething
  <2>. QED  BY <2>3, <2>4 DEF Delivery!Next
<1>2. CASE Accepted
  BY <1>2 DEF Accepted, Delivery!Next, Delivery!Ask
<1>3. CASE GivenUp
  <2>1. PICK i \in Slots, type \in ErrorMessages :
            Used(i) /\ Finish(i, type, <<pending[i].req, 0>>) /\ submitted' = submitted
    BY <1>3 DEF GivenUp
  <2>2. PICK r \in Requests : r = pending[i].req
    BY <2>1, EntryJournal
  <2>3. <<r, 0>> \in AllReplies[r]
    BY HubRid, DeliveryEligible
  <2>4. Delivery!GiveUp(r)
    BY <2>1, <2>2, <2>3, DeliveryOpen DEF Finish, Report, Delivery!GiveUp, Delivery!Tell
  <2>5. Delivery!ToldSomething(r)
    BY <2>1, <2>2, ReportTells DEF Finish, Delivery!ToldSomething
  <2>. QED  BY <2>4, <2>5 DEF Delivery!Next
<1>4. CASE Answered(ToAnyone)
  <2>1. PICK i \in Slots : /\ Used(i) /\ submitted' = submitted
                           /\ \E rid \in ToAnyone[pending[i].req] : Finish(i, "result", rid)
    BY <1>4 DEF Answered
  <2>2. PICK r \in Requests : r = pending[i].req
    BY <2>1, EntryJournal
  <2>3. \E rid \in Delivery!Eligible(r) : Finish(i, "result", rid)
    BY <2>1, <2>2, DeliveryEligible DEF ToAnyone
  <2>4. Delivery!Answer(r)
    BY <2>1, <2>2, <2>3, DeliveryOpen DEF Finish, Report, Delivery!Answer, Delivery!Tell
  <2>5. Delivery!ToldSomething(r)
    BY <2>1, <2>2, ReportTells DEF Finish, Delivery!ToldSomething
  <2>. QED  BY <2>4, <2>5 DEF Delivery!Next
<1>5. ASSUME NEW i \in Slots, NEW m \in Answers, Used(i), ExpectedPage(i, m),
             m.rid \in ToAnyone[pending[i].req], submitted' = submitted,
             Report(pending[i].req, "result_chunk", m.rid, m.chunk)
      PROVE  Delivery!Next
  <2>1. PICK r \in Requests : r = pending[i].req
    BY <1>5, EntryJournal
  <2>2. Delivery!Open(r) /\ m.rid \in Delivery!Eligible(r)
    BY <1>5, <2>1, DeliveryOpen, DeliveryEligible DEF ToAnyone
  <2>3. /\ uplink[r] = <<>> => m.chunk = 0
        /\ uplink[r] # <<>> => m.chunk = Len(uplink[r]) /\ m.rid = uplink[r][1].rid
    BY <1>5, <2>1, NextOfReply
  <2>4. Delivery!FirstPiece(r) \/ Delivery!NextPiece(r)
    BY <1>5, <2>1, <2>2, <2>3 DEF Report, Delivery!FirstPiece, Delivery!NextPiece, Delivery!Tell
  <2>5. Delivery!ToldSomething(r)
    BY <1>5, <2>1, ReportTells DEF Delivery!ToldSomething
  <2>. QED  BY <2>4, <2>5 DEF Delivery!Next
<1>6. CASE Paged(ToAnyone)
  BY <1>5, <1>6 DEF Paged
<1>7. CASE PagedLast(ToAnyone)
  BY <1>5, <1>7 DEF PagedLast
<1>8. CASE Timed
  BY <1>8 DEF Timed, Delivery!serviceVars
<1>. QED  BY <1>1, <1>2, <1>3, <1>4, <1>6, <1>7, <1>8 DEF JournalMove

\* Whatever the shared buffer makes of the devices' replies -- one of them
\* twice, one with another's MAC, one overwritten while it is read -- each
\* request gets one result or one error, or the pages 0, 1, 2, ... of one rid,
\* and nothing after the end.
THEOREM PathAnswersOnce == PathSpec => OneAnswerEach
<1>1. PathInit => Delivery!Init
  BY DEF PathInit, Init, Delivery!Init
<1>2. PathInv /\ [PathNext]_pathVars => [Delivery!Next]_(Delivery!serviceVars)
  BY PathMoves, DeliveryStep DEF PathInv, PathMove
<1>. QED  BY <1>1, <1>2, PathAlways, PTL DEF PathSpec, OneAnswerEach, Delivery!Spec

-----------------------------------------------------------------------------
(***************************************************************************)
(* A full table.                                                           *)
(***************************************************************************)
LEMMA TwoInOnePlace ==
    ASSUME NEW T, IsFiniteSet(T), NEW n \in Nat, Cardinality(T) < n, NEW f \in [1 .. n -> T]
    PROVE  \E i, j \in 1 .. n : i # j /\ f[i] = f[j]
<1>1. IsFiniteSet(1 .. n) /\ Cardinality(1 .. n) = n
  BY FS_Interval
<1>. QED  BY <1>1, FS_PigeonHole

\* Entries for different devices, and one device more: they do not all fit a
\* roster of as many devices as there are entries.
LEMMA FullTableExceedsRoster ==
    ASSUME PathInv, MaxDevices <= MaxPending, FreeSlots = {},
           NEW d \in Devices, slot[d] = "known", EntryOf(d) = {}
    PROVE  \E i \in Slots : Used(i) /\ slot[Device(i)] = "none"
<1> SUFFICES ASSUME \A i \in Slots : Used(i) => slot[Device(i)] # "none"
             PROVE  FALSE
  OBVIOUS
<1>1. \A i \in Slots : Used(i) /\ Device(i) \in Devices
  <2>1. \A i \in Slots : Used(i)
    BY DEF FreeSlots
  <2>2. \A i \in Slots : pending[i].req \in Requests
    BY <2>1 DEF PathInv, DispatcherInv, WireInv, TypeOK, Entry, Used
  <2>. QED  BY <2>1, <2>2, ConstantsAssumption DEF Device, ConstantsAssumption
<1>2. MaxPending \in Nat /\ MaxDevices \in Nat
  BY ConstantsAssumption, PathConstants DEF ConstantsAssumption, PathConstants
<1> DEFINE Place == [i \in 1 .. MaxPending + 1 |-> IF i = MaxPending + 1 THEN d ELSE Device(i)]
<1>3. Place \in [1 .. MaxPending + 1 -> Present]
  BY <1>1, <1>2 DEF Present, Slots
<1>4. \A i, j \in 1 .. MaxPending + 1 : i # j => Place[i] # Place[j]
  <2>1. \A i, j \in Slots : i # j => Device(i) # Device(j)
    BY <1>1 DEF PathInv, DispatcherInv, JournalInv, OneCommandPerDevice
  <2>2. \A i \in Slots : Device(i) # d
    BY <1>1 DEF EntryOf
  <2>. QED  BY <1>2, <2>1, <2>2 DEF Slots
<1>5. IsFiniteSet(Present) /\ Cardinality(Present) < MaxPending + 1
  BY <1>2, FS_CardinalityType DEF PathInv, RosterFits
<1>6. \E i, j \in 1 .. MaxPending + 1 : i # j /\ Place[i] = Place[j]
  <2> HIDE DEF Place
  <2>. QED  BY <1>2, <1>3, <1>5, TwoInOnePlace
<1>. QED  BY <1>4, <1>6

\* What a report is, is the type of its last message.
LEMMA ReportedLast ==
    ASSUME WireInv, NEW r \in Requests,
           NEW type \in ErrorMessages \cup {"result", "result_chunk"},
           NEW rid \in Rids, NEW chunk \in Nat, Report(r, type, rid, chunk),
           NEW q \in Requests, uplink'[q] # uplink[q]
    PROVE  q = r /\ uplink'[q][Len(uplink'[q])].type = type
<1>1. q = r
  BY DEF Report, WireInv, TypeOK
<1>. QED  BY <1>1, ReportAppends

\* Of the dispatcher's reports only the one refusal says that the table is full.
LEMMA OthersReportOther ==
    ASSUME PathInv, NEW q \in Requests, uplink'[q] # uplink[q], Service \/ CopyFrame
    PROVE  uplink'[q][Len(uplink'[q])].type # "hub_command_roster_full"
<1>1. WireInv
  BY DEF PathInv, DispatcherInv
<1>2. ASSUME NEW i \in Slots, Used(i), NEW rid \in Rids, NEW chunk \in Nat,
             NEW type \in {"command_delivery_timeout", "result_page_timeout", "result",
                           "result_chunk"},
             Report(pending[i].req, type, rid, chunk)
      PROVE  uplink'[q][Len(uplink'[q])].type # "hub_command_roster_full"
  <2>1. pending[i].req \in Requests
    BY <1>1, <1>2, UsedEntry
  <2>2. type \in ErrorMessages \cup {"result", "result_chunk"}
    BY <1>2 DEF ErrorMessages
  <2>. QED  BY <1>1, <1>2, <2>1, <2>2, ReportedLast
<1>3. CASE Service
  <2>1. Fail(svc)
    BY <1>3 DEF Service, Drain, BeginService, LookAtEntry, ActOnEntry, Resend, BreakOff
  <2>2. svc \in Slots /\ Used(svc)
    BY <1>1, <2>1 DEF Fail, WireInv, Visiting
  <2>3. <<pending[svc].req, 0>> \in Rids /\ 0 \in Nat
    BY <1>1, <2>2, UsedEntry, HubRid DEF Rids
  <2>4. \E type \in {"command_delivery_timeout", "result_page_timeout"} :
            Report(pending[svc].req, type, <<pending[svc].req, 0>>, 0)
    BY <2>1 DEF Fail, Finish
  <2>. QED  BY <1>2, <2>2, <2>3, <2>4
<1>4. CASE CopyFrame
  <2>1. PICK m \in Readings(matched, buffer) : HandleReply(matched, m, air)
    BY <1>4 DEF CopyFrame
  <2>2. matched \in Slots /\ Used(matched) /\ m \in Answers
    BY <1>4, <2>1, ReadingHeld DEF CopyFrame
  <2>3. m.rid \in Rids /\ m.chunk \in Nat
    BY <2>2 DEF Answers, Messages
  <2>4. \E type \in {"result", "result_chunk"}, chunk \in {0, m.chunk} :
            Report(pending[matched].req, type, m.rid, chunk)
    BY <2>1 DEF HandleReply, Complete, IgnorePage, Finish, ForwardPage, ForwardLastPage
  <2>. QED  BY <1>2, <2>2, <2>3, <2>4
<1>. QED  BY <1>3, <1>4

\* A command is told that the table is full only while an entry's device has
\* lost its place in the roster.
LEMMA FullMeansReaped ==
    ASSUME PathInv, MaxDevices <= MaxPending, NEW r \in Requests, BackendCommand(r),
           NEW q \in Requests, uplink'[q] # uplink[q],
           uplink'[q][Len(uplink'[q])].type = "hub_command_roster_full"
    PROVE  \E i \in Slots : Used(i) /\ slot[Device(i)] = "none"
<1>1. WireInv /\ <<r, 0>> \in Rids
  BY HubRid DEF PathInv, DispatcherInv
<1>2. ASSUME NEW type \in ErrorMessages, type # "hub_command_roster_full"
      PROVE  ~Reject(r, type)
  BY <1>1, <1>2, ReportedLast DEF Reject
<1>3. slot[Target[r]] = "known" /\ RejectRosterFull(r)
  <2>1. SendCommandTo(r, slot[Target[r]] = "known")
    BY DEF BackendCommand
  <2>2. ~RejectUnknownDevice(r) /\ ~RejectInFlight(r) /\ ~RejectTooLarge(r)
    BY <1>2 DEF RejectUnknownDevice, RejectInFlight, RejectTooLarge, ErrorMessages
  <2>3. ~AcceptAndSend(r) /\ ~AcceptDeferred(r)
    BY DEF AcceptAndSend, AcceptDeferred
  <2>. QED  BY <2>1, <2>2, <2>3 DEF SendCommandTo
<1>4. Target[r] \in Devices /\ EntryOf(Target[r]) = {} /\ FreeSlots = {}
  BY <1>3, ConstantsAssumption DEF RejectRosterFull, Acceptable, ConstantsAssumption
<1>. QED  BY <1>3, <1>4, FullTableExceedsRoster

\* With as many entries as roster slots, as the code's two constants are, a
\* command is refused for want of an entry only while the device of another
\* one has been reaped with its command in flight.
THEOREM TableFullOnlyAfterReap ==
    ASSUME MaxDevices <= MaxPending
    PROVE  PathSpec => FullOnlyAfterReap
<1>1. PathInv /\ [PathNext]_pathVars =>
          [\A r \in Requests :
              uplink'[r] # uplink[r]
                  /\ uplink'[r][Len(uplink'[r])].type = "hub_command_roster_full"
              => \E i \in Slots : Used(i) /\ slot[Device(i)] = "none"]_pathVars
  <2> SUFFICES ASSUME PathInv, PathNext, NEW q \in Requests,
                      uplink'[q] # uplink[q],
                      uplink'[q][Len(uplink'[q])].type = "hub_command_roster_full"
               PROVE  \E i \in Slots : Used(i) /\ slot[Device(i)] = "none"
    OBVIOUS
  <2>1. ~CopyFrame /\ ~DispatcherService
    BY OthersReportOther DEF DispatcherService
  <2>2. ~UNCHANGED uplink
    OBVIOUS
  <2>3. ~WifiTask
    BY <2>2
    DEF WifiTask, Hello, DataFrame, LastFragment, FirstFragment, OnlyFragment, KeepMac, RaiseFlag,
        Ack, AckWritten, FindAcked, MarkAcked, hubVars, vars
  <2>4. ~Environment
    BY <2>2
    DEF Environment, DeviceAnswers, TimePasses, Execute, AnswerPageAsk, WaitRunsOut, hubVars
  <2>5. PICK r \in Requests : BackendCommand(r)
    BY <2>1, <2>2, <2>3, <2>4
    DEF PathNext, LoopTask, Reap, MatchEntry, TakeFrame, MatchNothing, SendReturns, hubVars, vars
  <2>. QED  BY <2>5, FullMeansReaped
<1>. QED  BY <1>1, PathAlways, PTL DEF PathSpec, FullOnlyAfterReap
===========================================================================
