-------------------------- MODULE HubRosterProofs --------------------------
(***************************************************************************)
(* Theorems about HubRoster, for every number of devices and of slots, and *)
(* however the two tasks interleave.                                       *)
(***************************************************************************)
EXTENDS HubRoster, TLAPS

-----------------------------------------------------------------------------
(***************************************************************************)
(* The inductive invariant.  Its first part holds whatever has collided.   *)
(***************************************************************************)
\* The Wi-Fi task is the only one that assigns a slot's mac, so the slot it
\* is working on stays its packet's sender's, even if it is reaped meanwhile,
\* and a slot it has claimed is for a device without another one.
RxSlot ==
    rx.pc \notin {"idle", "send"} =>
        /\ rx.mac \in Macs
        /\ rx.pc # "claim" => slots[rx.idx].mac = rx.mac
        /\ rx.pc = "claim" => \A j \in Idx : slots[j].used /\ slots[j].mac = rx.mac => j = rx.idx

\* What rx is in the middle of, and that collisions are noted.
RxKind ==
    /\ rx.pc = "peered" => rx.kind = "hello"
    /\ rx.pc = "send" => rx.kind = "poll"
    /\ Collisions \subseteq collided

LpUsed == lp.pc \in {"del", "unuse"} => slots[lp.idx].used

SharedInv == TypeOK /\ RxSlot /\ RxKind /\ LpUsed /\ UniqueMacs

\* Slot i is being reaped: no longer a peer, no longer used.
PastDel(i) == lp.pc \in {"unuse", "clear"} /\ lp.idx = i
PastUnuse(i) == lp.pc = "clear" /\ lp.idx = i

\* Peers and registered slots, as long as no HELLO has met the reaper.
RxHello ==
    rx.pc # "idle" /\ rx.kind = "hello" =>
        /\ slots[rx.idx].used
        /\ rx.pc = "peered" => rx.mac \in peers

RegisteredUsed == \A i \in Idx : slots[i].registered => slots[i].used \/ PastUnuse(i)

ClaimedNew == \A i \in Idx : Claimed(i) /\ slots[i].registered => PastUnuse(i)

RegisteredPeer ==
    \A i \in Idx : slots[i].registered => slots[i].mac \in peers \/ PastDel(i)

PeerOwned ==
    \A p \in peers :
        \/ \E i \in Idx : slots[i].registered /\ slots[i].mac = p /\ ~PastDel(i)
        \/ rx.pc = "peered" /\ p = rx.mac

PeersInv == RxHello /\ RegisteredUsed /\ ClaimedNew /\ RegisteredPeer /\ PeerOwned

\* The uids learned, as long as no data frame has met the reaper.
RxData == rx.pc # "idle" /\ rx.kind = "data" => slots[rx.idx].used

UidOwned ==
    \A i \in Idx : slots[i].uid # NoMac =>
        \/ PastUnuse(i)
        \/ slots[i].used /\ ~Claimed(i) /\ slots[i].uid = slots[i].mac

UidInv == RxData /\ UidOwned

\* The poll in flight or about to be sent, as long as no target has been
\* reaped in between.
PollInv ==
    /\ awaiting # -1 => Pollable(awaiting) \/ PastUnuse(awaiting)
    /\ rx.pc = "send" => Pollable(rx.idx)
    /\ lp.pc = "send" => Pollable(lp.idx)

-----------------------------------------------------------------------------
(***************************************************************************)
(* Pieces of the handlers.                                                 *)
(***************************************************************************)
\* The cursor arithmetic of pollNext() stays inside slots_[].
LEMMA AfterInIdx ==
    ASSUME NEW i \in Idx, NEW k \in Nat
    PROVE  After(i, k) \in Idx
BY RosterConstants DEF After, Idx

\* pollNext() chooses a registered slot, and the cursor stays in the table.
LEMMA TargetPollable ==
    ASSUME TypeOK, NEW i \in Idx, Target(i)
    PROVE  cursor' \in Idx /\ Pollable(i)
<1>1. PICK k \in Tries : i = After(cursor, k) /\ cursor' = After(cursor, k + 1)
  BY DEF Target
<1>2. k \in Nat /\ k + 1 \in Nat /\ cursor \in Idx
  BY RosterConstants DEF Tries, Idx, TypeOK
<1> QED
  BY <1>1, <1>2, AfterInIdx DEF Tries

\* The loop over the slots visits only slots of the table.
LEMMA AtSlotType ==
    ASSUME NEW i \in Idx
    PROVE  AtSlot(i + 1) \in [pc : LoopPcs, idx : Idx] /\ AtSlot(0) \in [pc : LoopPcs, idx : Idx]
BY RosterConstants DEF AtSlot, Idx, LoopPcs

RxType == [pc : RxPcs, kind : Kinds \cup {"poll"}, mac : Macs \cup {NoMac}, idx : Idx]

\* The records the handlers assign are well typed.
LEMMA RecordTypes ==
    /\ 0 \in Idx
    /\ EmptySlot \in Slot
    /\ RxIdle \in RxType /\ RxIdle.pc = "idle"
    /\ LoopIdle \in [pc : LoopPcs, idx : Idx] /\ LoopIdle.pc = "idle"
BY RosterConstants
   DEF Idx, EmptySlot, Slot, RxIdle, RxType, RxPcs, Kinds, LoopIdle, LoopPcs

\* The work in hand is not in a slot that is being reaped, if no such
\* collision is on record.
LEMMA NotInReapedSlot ==
    ASSUME SharedInv, NEW k \in {"hello", "data", "poll"}, k \notin collided,
           rx.pc # "idle", rx.kind = k
    PROVE  ~(Reaping /\ lp.idx = rx.idx)
BY DEF SharedInv, RxKind, Collisions, InReapedSlot

\* The two records and the table, typed.
LEMMA Typed ==
    ASSUME TypeOK
    PROVE  /\ slots \in [Idx -> Slot]
           /\ rx \in RxType /\ rx.idx \in Idx
           /\ lp \in [pc : LoopPcs, idx : Idx] /\ lp.idx \in Idx
BY DEF TypeOK, RxType

-----------------------------------------------------------------------------
(***************************************************************************)
(* What holds whatever has collided.                                       *)
(***************************************************************************)
LEMMA SharedInit == Init => SharedInv
<1> SUFFICES ASSUME Init PROVE SharedInv
  OBVIOUS
<1>1. TypeOK
  BY RecordTypes DEF Init, TypeOK, RxType
<1>2. RxSlot /\ RxKind /\ LpUsed
  BY RecordTypes
     DEF Init, RxSlot, RxKind, LpUsed, Collisions, InReapedSlot, RxIdle, LoopIdle
<1>3. UniqueMacs
  BY DEF Init, UniqueMacs, EmptySlot
<1> QED
  BY <1>1, <1>2, <1>3 DEF SharedInv

LEMMA TypeStep == SharedInv /\ [Next]_vars => TypeOK'
<1> SUFFICES ASSUME SharedInv, [Next]_vars PROVE TypeOK'
  OBVIOUS
<1> USE DEF SharedInv
<1>0. collided' \subseteq {"hello", "data", "poll"}
  <2>1. Collisions' \subseteq {"hello", "data", "poll"}
    BY DEF Collisions
  <2>2. NoteCollisions \/ collided' = collided
    BY DEF Next, Wifi, HandlePacket, Service, KnownSender, ClaimSlot, CopyMac, Stamp, Handle,
           SetRegistered, PollAfterFrame, SendAfterFrame, BeginService, CheckSlot, DelPeer, Unuse, ClearSlot,
           ServiceTimeRequests, ServicePoll, SendPoll, FallSilent, PollTimesOut, SetAcceptNewDevices, vars
  <2> QED
    BY <2>1, <2>2 DEF NoteCollisions, TypeOK
<1>1. ASSUME NEW m \in Macs, NEW kind \in Kinds, KnownSender(m, kind)
      PROVE  TypeOK'
  <2>1. rx' \in RxType
    BY <1>1 DEF KnownSender, SlotsOf, RxType, RxPcs
  <2> QED
    BY <1>0, <1>1, <2>1 DEF KnownSender, TypeOK, RxType
<1>2. ASSUME NEW m \in Macs, NEW kind \in Kinds, ClaimSlot(m, kind)
      PROVE  TypeOK'
  <2>1. PICK i \in Idx : /\ slots' = [slots EXCEPT ![i].used = TRUE]
                         /\ rx' = [pc |-> "claim", kind |-> kind, mac |-> m, idx |-> i]
    BY <1>2 DEF ClaimSlot, FreeSlots
  <2>2. slots[i] \in Slot /\ rx' \in RxType
    BY <2>1 DEF TypeOK, RxType, RxPcs
  <2>3. slots' \in [Idx -> Slot]
    BY <2>1, <2>2 DEF TypeOK, Slot
  <2> QED
    BY <1>0, <1>2, <2>2, <2>3 DEF ClaimSlot, TypeOK, RxType
<1>3. CASE CopyMac
  <2>1. slots[rx.idx] \in Slot /\ rx.mac \in Macs
    BY <1>3 DEF CopyMac, TypeOK, RxSlot
  <2>2. slots' \in [Idx -> Slot]
    BY <1>3, <2>1 DEF CopyMac, TypeOK, Slot
  <2> QED
    BY <1>0, <1>3, <2>2 DEF CopyMac, TypeOK, RxPcs
<1>4. CASE Stamp
  <2>1. rx' \in RxType
    BY <1>4, RecordTypes DEF Stamp, TypeOK, RxType, RxPcs
  <2> QED
    BY <1>0, <1>4, <2>1 DEF Stamp, NotYetChecked, TypeOK, RxType
<1>5. CASE Handle
  <2> USE <1>0, <1>5 DEF Handle
  <2>1. CASE HelloNoChange
    BY <2>1, RecordTypes DEF HelloNoChange, TypeOK, RxType
  <2>2. CASE AddPeer
    BY <2>2 DEF AddPeer, TypeOK, RxPcs, RxSlot
  <2>3. CASE DataFrame
    <3>1. slots[rx.idx] \in Slot
      BY DEF TypeOK
    <3>2. slots' \in [Idx -> Slot]
      BY <2>3, <3>1 DEF DataFrame, TypeOK, Slot
    <3>3. rx' \in RxType
      BY <2>3, RecordTypes DEF DataFrame, TypeOK, RxType, RxPcs
    <3> QED
      BY <2>3, <3>2, <3>3 DEF DataFrame, TypeOK, RxType
  <2>4. CASE TimeRequest
    BY <2>4, RecordTypes DEF TimeRequest, TypeOK, RxType
  <2> QED
    BY <2>1, <2>2, <2>3, <2>4
<1>6. CASE SetRegistered
  <2>1. slots[rx.idx] \in Slot
    BY DEF TypeOK
  <2>2. slots' \in [Idx -> Slot]
    BY <1>6, <2>1 DEF SetRegistered, TypeOK, Slot
  <2> QED
    BY <1>0, <1>6, <2>2, RecordTypes DEF SetRegistered, TypeOK, RxType
<1>7. CASE PollAfterFrame
  <2>1. cursor' \in Idx /\ awaiting' = -1
    BY <1>7, TargetPollable DEF PollAfterFrame, NoTarget, TypeOK
  <2>2. rx' \in RxType
    BY <1>7, RecordTypes DEF PollAfterFrame, RxType, RxPcs
  <2> QED
    BY <1>0, <1>7, <2>1, <2>2 DEF PollAfterFrame, TypeOK, RxType
<1>8. CASE SendAfterFrame
  BY <1>0, <1>8, RecordTypes DEF SendAfterFrame, TypeOK, RxType
<1>9. CASE BeginService
  BY <1>0, <1>9, RecordTypes, AtSlotType DEF BeginService, TypeOK
<1>10. CASE CheckSlot
  <2>1. lp' \in [pc : LoopPcs, idx : Idx]
    BY <1>10, AtSlotType DEF CheckSlot, TypeOK, LoopPcs
  <2> QED
    BY <1>0, <1>10, <2>1 DEF CheckSlot, TypeOK
<1>11. CASE DelPeer
  BY <1>0, <1>11 DEF DelPeer, TypeOK, LoopPcs
<1>12. CASE Unuse
  <2>1. slots[lp.idx] \in Slot
    BY DEF TypeOK
  <2>2. slots' \in [Idx -> Slot]
    BY <1>12, <2>1 DEF Unuse, TypeOK, Slot
  <2> QED
    BY <1>0, <1>12, <2>2 DEF Unuse, TypeOK, LoopPcs
<1>13. CASE ClearSlot
  <2>1. slots[lp.idx] \in Slot
    BY DEF TypeOK
  <2>2. slots' \in [Idx -> Slot]
    BY <1>13, <2>1 DEF ClearSlot, TypeOK, Slot
  <2>3. lp' \in [pc : LoopPcs, idx : Idx]
    BY <1>13, AtSlotType DEF ClearSlot, TypeOK
  <2> QED
    BY <1>0, <1>13, <2>2, <2>3 DEF ClearSlot, TypeOK
<1>14. CASE ServiceTimeRequests
  BY <1>0, <1>14 DEF ServiceTimeRequests, TypeOK, LoopPcs
<1>15. CASE ServicePoll
  <2>1. cursor' \in Idx /\ awaiting' \in Idx \cup {-1}
    BY <1>15, TargetPollable DEF ServicePoll, StillAwaiting, PollNow, NoTarget, TypeOK
  <2>2. lp' \in [pc : LoopPcs, idx : Idx]
    BY <1>15, RecordTypes DEF ServicePoll, StillAwaiting, PollNow, LoopPcs
  <2> QED
    BY <1>0, <1>15, <2>1, <2>2 DEF ServicePoll, TypeOK
<1>16. CASE SendPoll
  BY <1>0, <1>16, RecordTypes DEF SendPoll, TypeOK
<1>17. ASSUME NEW i \in Idx, FallSilent(i)
       PROVE  TypeOK'
  BY <1>17 DEF FallSilent, TypeOK
<1>18. CASE PollTimesOut
  BY <1>18 DEF PollTimesOut, TypeOK
<1>19. CASE SetAcceptNewDevices
  BY <1>19 DEF SetAcceptNewDevices, TypeOK
<1>20. CASE UNCHANGED vars
  BY <1>20 DEF vars, hubVars, TypeOK
<1> QED
  BY <1>1, <1>2, <1>3, <1>4, <1>5, <1>6, <1>7, <1>8, <1>9, <1>10, <1>11, <1>12, <1>13, <1>14,
     <1>15, <1>16, <1>17, <1>18, <1>19, <1>20 DEF Next, Wifi, HandlePacket, Service

\* Only findOrCreateSlot() takes a slot into use or gives it a sender, and it
\* is what starts the work on a packet.
LEMMA OnlyFindSlotOccupies ==
    ASSUME SharedInv, [Next]_vars, ~CopyMac,
           \A m \in Macs, kind \in Kinds : ~KnownSender(m, kind) /\ ~ClaimSlot(m, kind)
    PROVE  /\ \A i \in Idx : /\ slots'[i].mac = slots[i].mac
                             /\ slots'[i].used => slots[i].used
           /\ rx'.pc \notin {"idle", "send"} =>
                 /\ rx.pc \notin {"idle", "send"}
                 /\ rx'.kind = rx.kind /\ rx'.mac = rx.mac /\ rx'.idx = rx.idx
                 /\ rx'.pc = "peered" => rx.pc = "peered" \/ rx.kind = "hello"
           /\ rx'.pc = "send" => rx'.kind = "poll"
           /\ rx'.pc = "claim" \/ rx.pc = "claim" => rx' = rx
<1> DEFINE Same(i) == slots'[i].mac = slots[i].mac /\ (slots'[i].used => slots[i].used)
<1> DEFINE RxSame ==
      /\ rx'.pc \notin {"idle", "send"} =>
            /\ rx.pc \notin {"idle", "send"}
            /\ rx'.kind = rx.kind /\ rx'.mac = rx.mac /\ rx'.idx = rx.idx
            /\ rx'.pc = "peered" => rx.pc = "peered" \/ rx.kind = "hello"
      /\ rx'.pc = "send" => rx'.kind = "poll"
      /\ rx'.pc = "claim" \/ rx.pc = "claim" => rx' = rx
<1>0. slots \in [Idx -> Slot] /\ rx \in RxType /\ rx.idx \in Idx /\ lp.idx \in Idx
  BY Typed DEF SharedInv
<1>1. CASE Stamp
  BY <1>1, <1>0, RecordTypes DEF Stamp, RxType
<1>2. CASE Handle
  <2>1. RxSame
    BY <1>2, <1>0, RecordTypes
       DEF Handle, HelloNoChange, AddPeer, DataFrame, TimeRequest, RxType
  <2>2. \/ slots' = slots
        \/ slots' = [slots EXCEPT ![rx.idx].uid = rx.mac]
    BY <1>2 DEF Handle, HelloNoChange, AddPeer, DataFrame, TimeRequest
  <2>3. \A i \in Idx : Same(i)
    BY <2>2, <1>0 DEF Slot
  <2> QED
    BY <2>1, <2>3
<1>3. CASE SetRegistered
  BY <1>3, <1>0, RecordTypes DEF SetRegistered, Slot
<1>4. CASE Unuse
  BY <1>4, <1>0 DEF Unuse, Slot, SharedInv, RxKind
<1>5. CASE ClearSlot
  BY <1>5, <1>0 DEF ClearSlot, Slot, SharedInv, RxKind
<1>6. CASE PollAfterFrame \/ SendAfterFrame
  BY <1>6, RecordTypes DEF PollAfterFrame, SendAfterFrame
<1>7. CASE UNCHANGED <<slots, rx>>
  BY <1>7 DEF SharedInv, RxKind
<1>8. \/ Stamp \/ Handle \/ SetRegistered \/ Unuse \/ ClearSlot \/ PollAfterFrame \/ SendAfterFrame
      \/ UNCHANGED <<slots, rx>>
  BY DEF Next, Wifi, HandlePacket, Service, vars, hubVars, BeginService, CheckSlot, DelPeer,
         ServiceTimeRequests, ServicePoll, SendPoll, FallSilent, PollTimesOut, SetAcceptNewDevices
<1> QED
  BY <1>1, <1>2, <1>3, <1>4, <1>5, <1>6, <1>7, <1>8

\* What findOrCreateSlot()'s steps do to the slots and to rx.
LEMMA FindSlotSteps ==
    ASSUME SharedInv, NEW m \in Macs, NEW kind \in Kinds
    PROVE  /\ KnownSender(m, kind) =>
                /\ rx.pc = "idle" /\ UNCHANGED <<slots, lp, peers, awaiting>>
                /\ rx'.pc = "found" /\ rx'.kind = kind /\ rx'.mac = m /\ rx'.idx \in Idx
                /\ slots[rx'.idx].used /\ slots[rx'.idx].mac = m
           /\ ClaimSlot(m, kind) =>
                /\ rx.pc = "idle" /\ UNCHANGED <<lp, peers, awaiting>>
                /\ rx'.pc = "claim" /\ rx'.kind = kind /\ rx'.mac = m /\ rx'.idx \in Idx
                /\ SlotsOf(m) = {}
                /\ ~slots[rx'.idx].used /\ slots'[rx'.idx].used
                /\ \A j \in Idx : /\ slots'[j].registered = slots[j].registered
                                  /\ slots'[j].mac = slots[j].mac
                                  /\ slots'[j].uid = slots[j].uid
                                  /\ j # rx'.idx => slots'[j] = slots[j]
           /\ CopyMac =>
                /\ rx.pc = "claim" /\ UNCHANGED <<lp, peers, awaiting>>
                /\ rx'.pc = "found" /\ rx'.kind = rx.kind /\ rx'.mac = rx.mac /\ rx'.idx = rx.idx
                /\ slots'[rx.idx].mac = rx.mac
                /\ \A j \in Idx : /\ slots'[j].registered = slots[j].registered
                                  /\ slots'[j].used = slots[j].used
                                  /\ slots'[j].uid = slots[j].uid
                                  /\ j # rx.idx => slots'[j] = slots[j]
<1>0. slots \in [Idx -> Slot] /\ rx \in RxType /\ rx.idx \in Idx
  BY Typed DEF SharedInv
<1>1. ASSUME KnownSender(m, kind)
      PROVE  /\ rx.pc = "idle" /\ UNCHANGED <<slots, lp, peers, awaiting>>
             /\ rx'.pc = "found" /\ rx'.kind = kind /\ rx'.mac = m /\ rx'.idx \in Idx
             /\ slots[rx'.idx].used /\ slots[rx'.idx].mac = m
  BY <1>1 DEF KnownSender, SlotsOf
<1>2. ASSUME ClaimSlot(m, kind)
      PROVE  /\ rx.pc = "idle" /\ UNCHANGED <<lp, peers, awaiting>>
             /\ rx'.pc = "claim" /\ rx'.kind = kind /\ rx'.mac = m /\ rx'.idx \in Idx
             /\ SlotsOf(m) = {}
             /\ ~slots[rx'.idx].used /\ slots'[rx'.idx].used
             /\ \A j \in Idx : /\ slots'[j].registered = slots[j].registered
                               /\ slots'[j].mac = slots[j].mac
                               /\ slots'[j].uid = slots[j].uid
                               /\ j # rx'.idx => slots'[j] = slots[j]
  <2>1. PICK i \in FreeSlots : /\ slots' = [slots EXCEPT ![i].used = TRUE]
                               /\ rx' = [pc |-> "claim", kind |-> kind, mac |-> m, idx |-> i]
    BY <1>2 DEF ClaimSlot
  <2> QED
    BY <1>0, <1>2, <2>1 DEF ClaimSlot, FreeSlots, Slot
<1>3. ASSUME CopyMac
      PROVE  /\ rx.pc = "claim" /\ UNCHANGED <<lp, peers, awaiting>>
             /\ rx'.pc = "found" /\ rx'.kind = rx.kind /\ rx'.mac = rx.mac /\ rx'.idx = rx.idx
             /\ slots'[rx.idx].mac = rx.mac
             /\ \A j \in Idx : /\ slots'[j].registered = slots[j].registered
                               /\ slots'[j].used = slots[j].used
                               /\ slots'[j].uid = slots[j].uid
                               /\ j # rx.idx => slots'[j] = slots[j]
  BY <1>0, <1>3 DEF CopyMac, Slot, RxType
<1> QED
  BY <1>1, <1>2, <1>3

LEMMA RxSlotStep == SharedInv /\ [Next]_vars => RxSlot'
<1> SUFFICES ASSUME SharedInv, [Next]_vars PROVE RxSlot'
  OBVIOUS
<1>0. rx.idx \in Idx
  BY Typed DEF SharedInv
<1>1. ASSUME NEW m \in Macs, NEW kind \in Kinds, KnownSender(m, kind) \/ ClaimSlot(m, kind)
      PROVE  RxSlot'
  BY <1>1, FindSlotSteps DEF RxSlot, SlotsOf
<1>2. CASE CopyMac
  <2>1. rx.mac \in Macs /\ "other" \in Kinds
    BY <1>2 DEF SharedInv, RxSlot, CopyMac, Kinds
  <2> QED
    BY <1>2, <2>1, FindSlotSteps DEF RxSlot
<1>3. ASSUME ~CopyMac,
             \A m \in Macs, kind \in Kinds : ~KnownSender(m, kind) /\ ~ClaimSlot(m, kind)
      PROVE  RxSlot'
  BY <1>0, <1>3, OnlyFindSlotOccupies DEF SharedInv, RxSlot
<1> QED
  BY <1>1, <1>2, <1>3

LEMMA RxKindStep == SharedInv /\ [Next]_vars => RxKind'
<1> SUFFICES ASSUME SharedInv, [Next]_vars PROVE RxKind'
  OBVIOUS
<1>1. Collisions' \subseteq collided'
  <2>1. NoteCollisions \/ UNCHANGED <<rx, lp, collided>>
    BY DEF Next, Wifi, HandlePacket, Service, KnownSender, ClaimSlot, CopyMac, Stamp, Handle,
           SetRegistered, PollAfterFrame, SendAfterFrame, BeginService, CheckSlot, DelPeer, Unuse, ClearSlot,
           ServiceTimeRequests, ServicePoll, SendPoll, FallSilent, PollTimesOut, SetAcceptNewDevices, vars,
           hubVars
  <2>2. UNCHANGED <<rx, lp>> => Collisions' = Collisions
    BY DEF Collisions, InReapedSlot, Reaping
  <2> QED
    BY <2>1, <2>2 DEF NoteCollisions, SharedInv, RxKind
<1>2. /\ rx'.pc = "peered" => rx'.kind = "hello"
      /\ rx'.pc = "send" => rx'.kind = "poll"
  <2>1. ASSUME NEW m \in Macs, NEW kind \in Kinds, KnownSender(m, kind) \/ ClaimSlot(m, kind)
        PROVE  rx'.pc \notin {"peered", "send"}
    BY <2>1, FindSlotSteps
  <2>2. CopyMac => rx'.pc \notin {"peered", "send"}
    BY Typed DEF CopyMac, RxType, SharedInv
  <2> QED
    BY <2>1, <2>2, OnlyFindSlotOccupies DEF SharedInv, RxKind
<1> QED
  BY <1>1, <1>2 DEF RxKind

LEMMA LpUsedStep == SharedInv /\ [Next]_vars => LpUsed'
<1> SUFFICES ASSUME SharedInv, [Next]_vars PROVE LpUsed'
  OBVIOUS
<1>0. /\ slots \in [Idx -> Slot] /\ rx.idx \in Idx
      /\ lp \in [pc : LoopPcs, idx : Idx] /\ lp.idx \in Idx
  BY Typed DEF SharedInv
<1>1. CASE Stamp \/ PollAfterFrame \/ SendAfterFrame \/ UNCHANGED <<slots, lp>>
  BY <1>1 DEF Stamp, PollAfterFrame, SendAfterFrame, SharedInv, LpUsed
<1>2. ASSUME NEW m \in Macs, NEW kind \in Kinds, ClaimSlot(m, kind)
      PROVE  LpUsed'
  BY <1>0, <1>2, FindSlotSteps DEF SharedInv, LpUsed
<1>3. CASE CopyMac \/ SetRegistered
  BY <1>0, <1>3 DEF CopyMac, SetRegistered, Slot, SharedInv, LpUsed
<1>4. CASE Handle
  <2>1. \/ slots' = slots
        \/ slots' = [slots EXCEPT ![rx.idx].uid = rx.mac]
    BY <1>4 DEF Handle, HelloNoChange, AddPeer, DataFrame, TimeRequest
  <2> QED
    BY <1>0, <1>4, <2>1 DEF Handle, Slot, SharedInv, LpUsed
<1>5. CASE CheckSlot
  BY <1>0, <1>5 DEF CheckSlot, AtSlot, SharedInv, LpUsed
<1>6. CASE DelPeer
  BY <1>0, <1>6 DEF DelPeer, SharedInv, LpUsed
<1>7. CASE \/ BeginService \/ Unuse \/ ClearSlot
           \/ ServiceTimeRequests \/ ServicePoll \/ SendPoll
  BY <1>0, <1>7, RecordTypes
     DEF BeginService, Unuse, ClearSlot, ServiceTimeRequests, ServicePoll, StillAwaiting, PollNow,
         SendPoll, AtSlot, LpUsed
<1>8. ASSUME NEW m \in Macs, NEW kind \in Kinds, KnownSender(m, kind)
      PROVE  LpUsed'
  BY <1>8 DEF KnownSender, SharedInv, LpUsed
<1>9. \/ Stamp \/ PollAfterFrame \/ SendAfterFrame \/ UNCHANGED <<slots, lp>> \/ CopyMac \/ SetRegistered \/ Handle
      \/ CheckSlot \/ DelPeer \/ BeginService \/ Unuse \/ ClearSlot
      \/ ServiceTimeRequests \/ ServicePoll \/ SendPoll
      \/ \E m \in Macs, kind \in Kinds : KnownSender(m, kind) \/ ClaimSlot(m, kind)
  BY DEF Next, Wifi, HandlePacket, Service, vars, hubVars, FallSilent, PollTimesOut,
         SetAcceptNewDevices
<1> QED
  BY <1>1, <1>2, <1>3, <1>4, <1>5, <1>6, <1>7, <1>8, <1>9

LEMMA UniqueMacsStep == SharedInv /\ [Next]_vars => UniqueMacs'
<1> SUFFICES ASSUME SharedInv, [Next]_vars PROVE UniqueMacs'
  OBVIOUS
<1>1. ASSUME NEW m \in Macs, NEW kind \in Kinds, KnownSender(m, kind)
      PROVE  UniqueMacs'
  BY <1>1, FindSlotSteps DEF SharedInv, UniqueMacs, Claimed
<1>2. ASSUME NEW m \in Macs, NEW kind \in Kinds, ClaimSlot(m, kind)
      PROVE  UniqueMacs'
  BY <1>2, FindSlotSteps DEF SharedInv, UniqueMacs, Claimed
<1>3. CASE CopyMac
  <2>1. rx.mac \in Macs /\ "other" \in Kinds /\ rx.pc = "claim"
    BY <1>3 DEF SharedInv, RxSlot, CopyMac, Kinds
  <2>2. \A j \in Idx : slots[j].used /\ slots[j].mac = rx.mac => j = rx.idx
    BY <2>1 DEF SharedInv, RxSlot
  <2>3. /\ rx'.pc = "found" /\ slots'[rx.idx].mac = rx.mac
        /\ \A j \in Idx : /\ slots'[j].used = slots[j].used
                          /\ j # rx.idx => slots'[j] = slots[j]
    BY <1>3, <2>1, FindSlotSteps
  <2> QED
    BY <2>1, <2>2, <2>3 DEF SharedInv, UniqueMacs, Claimed
<1>4. ASSUME ~CopyMac,
             \A m \in Macs, kind \in Kinds : ~KnownSender(m, kind) /\ ~ClaimSlot(m, kind)
      PROVE  UniqueMacs'
  BY <1>4, OnlyFindSlotOccupies DEF SharedInv, UniqueMacs, Claimed
<1> QED
  BY <1>1, <1>2, <1>3, <1>4

LEMMA SharedStep == SharedInv /\ [Next]_vars => SharedInv'
BY TypeStep, RxSlotStep, RxKindStep, LpUsedStep, UniqueMacsStep DEF SharedInv

LEMMA SharedAlways == Spec => []SharedInv
BY SharedInit, SharedStep, PTL DEF Spec

\* However the two tasks interleave, every variable keeps its type: pollNext()
\* and the reaper stay inside slots_[], and only real MACs become peers.
THEOREM TypeCorrect == Spec => []TypeOK
BY SharedAlways, PTL DEF SharedInv

\* However the two tasks interleave, no device is ever given two slots.
THEOREM NoDuplicateSlots == Spec => []UniqueMacs
BY SharedAlways, PTL DEF SharedInv

-----------------------------------------------------------------------------
(***************************************************************************)
(* The driver's peers, as long as no HELLO has met the reaper.             *)
(***************************************************************************)
\* What has collided stays collided.
LEMMA CollidedGrows == [Next]_vars => collided \subseteq collided'
BY DEF NoteCollisions, Next, Wifi, HandlePacket, Service, KnownSender, ClaimSlot, CopyMac, Stamp,
       Handle, SetRegistered, PollAfterFrame, SendAfterFrame, BeginService, CheckSlot, DelPeer, Unuse, ClearSlot,
       ServiceTimeRequests, ServicePoll, SendPoll, FallSilent, PollTimesOut, SetAcceptNewDevices, vars,
       hubVars

\* The loop task neither starts nor ends the freeing of a slot.
LoopElsewhere ==
    \/ UNCHANGED lp
    \/ lp.pc \notin {"unuse", "clear"} /\ lp'.pc \notin {"unuse", "clear"}

\* The Wi-Fi task goes on with its packet, or is done with it.
RxOn ==
    /\ rx'.pc \notin {"idle", "send"} => /\ rx.pc # "idle" /\ rx'.kind = rx.kind
                                         /\ rx'.mac = rx.mac /\ rx'.idx = rx.idx
    /\ rx'.pc = "send" => rx'.kind = "poll"
    /\ rx'.pc = "claim" => rx.pc = "claim"

\* A step that only moves the two tasks on, and does not add a peer.
LEMMA PeersQuiet ==
    ASSUME SharedInv, PeersInv, UNCHANGED <<slots, peers>>, LoopElsewhere, RxOn,
           (rx.pc = "peered") = (rx'.pc = "peered")
    PROVE  PeersInv'
BY DEF SharedInv, PeersInv, LoopElsewhere, RxOn, PastDel, PastUnuse, RxHello, RegisteredUsed,
       ClaimedNew, Claimed, RegisteredPeer, PeerOwned

LEMMA PeersFindSlot ==
    ASSUME SharedInv, PeersInv, NEW m \in Macs, NEW kind \in Kinds,
           KnownSender(m, kind) \/ ClaimSlot(m, kind) \/ CopyMac
    PROVE  PeersInv'
<1> USE DEF SharedInv, PeersInv
<1>0. rx.idx \in Idx
  BY Typed
<1>1. CASE KnownSender(m, kind)
  BY <1>1, FindSlotSteps
     DEF PastDel, PastUnuse, RxHello, RegisteredUsed, ClaimedNew, Claimed, RegisteredPeer, PeerOwned
<1>2. CASE ClaimSlot(m, kind)
  <2>1. /\ rx.pc = "idle" /\ UNCHANGED <<lp, peers>>
        /\ rx'.pc = "claim" /\ rx'.idx \in Idx
        /\ ~slots[rx'.idx].used /\ slots'[rx'.idx].used
        /\ \A j \in Idx : /\ slots'[j].registered = slots[j].registered
                          /\ slots'[j].mac = slots[j].mac
                          /\ j # rx'.idx => slots'[j] = slots[j]
    BY <1>2, FindSlotSteps
  <2>2. RxHello' /\ RegisteredUsed' /\ ClaimedNew'
    BY <2>1 DEF RxHello, RegisteredUsed, ClaimedNew, Claimed, PastUnuse
  <2>3. RegisteredPeer' /\ PeerOwned'
    BY <2>1 DEF RegisteredPeer, PeerOwned, PastDel
  <2> QED
    BY <2>2, <2>3
<1>3. CASE CopyMac
  <2>1. /\ rx.pc = "claim" /\ UNCHANGED <<lp, peers>>
        /\ rx'.pc = "found" /\ rx'.kind = rx.kind /\ rx'.idx = rx.idx
        /\ \A j \in Idx : /\ slots'[j].registered = slots[j].registered
                          /\ slots'[j].used = slots[j].used
                          /\ j # rx.idx => slots'[j] = slots[j]
    BY <1>3, FindSlotSteps
  <2>2. slots[rx.idx].registered => PastUnuse(rx.idx) /\ PastDel(rx.idx)
    BY <1>0, <2>1 DEF ClaimedNew, Claimed, PastUnuse, PastDel
  <2>3. RxHello' /\ RegisteredUsed' /\ ClaimedNew'
    BY <1>0, <2>1 DEF RxHello, RegisteredUsed, ClaimedNew, Claimed, PastUnuse
  <2>4. RegisteredPeer' /\ PeerOwned'
    BY <1>0, <2>1, <2>2 DEF RegisteredPeer, PeerOwned, PastDel
  <2> QED
    BY <2>3, <2>4
<1> QED
  BY <1>1, <1>2, <1>3

\* registerPeerIfNeeded(), in its two statements.
LEMMA PeersAdded ==
    ASSUME SharedInv, PeersInv, "hello" \notin collided, (Handle /\ AddPeer) \/ SetRegistered
    PROVE  PeersInv'
<1> USE DEF SharedInv, PeersInv
<1>0. slots \in [Idx -> Slot] /\ rx \in RxType /\ rx.idx \in Idx
  BY Typed
<1>1. CASE Handle /\ AddPeer
  <2>1. /\ rx.pc = "handle" /\ rx.kind = "hello" /\ UNCHANGED <<slots, lp>>
        /\ rx'.pc = "peered" /\ rx'.kind = rx.kind /\ rx'.mac = rx.mac /\ rx'.idx = rx.idx
        /\ slots[rx.idx].mac = rx.mac
        /\ peers' = peers \cup {rx.mac}
    BY <1>0, <1>1 DEF Handle, AddPeer, RxSlot, RxType
  <2> QED
    BY <2>1 DEF RxHello, RegisteredUsed, ClaimedNew, Claimed, RegisteredPeer, PeerOwned,
                PastDel, PastUnuse
<1>2. CASE SetRegistered
  <2>1. /\ rx.pc = "peered" /\ rx.kind = "hello" /\ rx'.pc = "idle"
        /\ slots[rx.idx].used /\ slots[rx.idx].mac = rx.mac /\ rx.mac \in peers
        /\ UNCHANGED <<peers, lp>>
    BY <1>2, RecordTypes DEF SetRegistered, RxHello, RxSlot, RxKind
  <2>2. \A j \in Idx :
           /\ slots'[j].used <=> slots[j].used
           /\ slots'[j].registered <=> (slots[j].registered \/ j = rx.idx)
           /\ slots'[j].mac = slots[j].mac
    BY <1>0, <1>2 DEF SetRegistered, Slot
  <2>3. ~PastDel(rx.idx)
    BY <2>1, NotInReapedSlot DEF PastDel, Reaping
  <2>4. RxHello' /\ RegisteredUsed' /\ ClaimedNew' /\ RegisteredPeer'
    BY <2>1, <2>2
       DEF RxHello, RegisteredUsed, ClaimedNew, Claimed, RegisteredPeer, PastDel, PastUnuse
  <2>5. PeerOwned'
    BY <1>0, <2>1, <2>2, <2>3 DEF PeerOwned, PastDel
  <2> QED
    BY <2>4, <2>5
<1> QED
  BY <1>1, <1>2

\* esp_now_del_peer(): no other registered slot has the mac.
LEMMA PeersDeleted ==
    ASSUME SharedInv, PeersInv, "hello" \notin collided, DelPeer
    PROVE  PeersInv'
<1> USE DEF SharedInv, PeersInv
<1>1. /\ slots \in [Idx -> Slot] /\ rx.idx \in Idx /\ lp.idx \in Idx
      /\ lp.pc = "del" /\ slots[lp.idx].used
      /\ lp'.pc = "unuse" /\ lp'.idx = lp.idx
      /\ peers' = IF slots[lp.idx].registered THEN peers \ {slots[lp.idx].mac} ELSE peers
      /\ UNCHANGED <<slots, rx>>
  BY Typed DEF DelPeer, LpUsed
<1>2. \A i \in Idx : slots[i].registered => slots[i].used /\ ~Claimed(i)
  BY <1>1 DEF RegisteredUsed, ClaimedNew, PastUnuse
<1>3. \A i \in Idx : /\ slots[i].used /\ ~Claimed(i) /\ i # lp.idx
                     /\ slots[lp.idx].registered
                     => slots[i].mac # slots[lp.idx].mac
  BY <1>1, <1>2 DEF UniqueMacs
<1>4. RxHello'
  <2> SUFFICES ASSUME rx.pc # "idle", rx.kind = "hello"
               PROVE  slots[rx.idx].used /\ (rx.pc = "peered" => rx.mac \in peers')
    BY <1>1 DEF RxHello
  <2>1. rx.idx # lp.idx
    BY <1>1, NotInReapedSlot DEF Reaping
  <2>2. rx.pc = "peered" => slots[rx.idx].mac = rx.mac /\ ~Claimed(rx.idx)
    BY DEF RxSlot, Claimed
  <2> QED
    BY <1>1, <1>3, <2>1, <2>2 DEF RxHello
<1>5. RegisteredUsed' /\ ClaimedNew'
  BY <1>1, <1>2 DEF RegisteredUsed, ClaimedNew, Claimed, PastUnuse
<1>6. RegisteredPeer'
  BY <1>1, <1>2, <1>3 DEF RegisteredPeer, PastDel
<1>7. PeerOwned'
  BY <1>1 DEF PeerOwned, PastDel
<1> QED
  BY <1>4, <1>5, <1>6, <1>7

\* The slot stops being used, and then registered.
LEMMA PeersSlotFreed ==
    ASSUME SharedInv, PeersInv, "hello" \notin collided, Unuse \/ ClearSlot
    PROVE  PeersInv'
<1> USE DEF SharedInv, PeersInv
<1>0. /\ slots \in [Idx -> Slot] /\ rx.idx \in Idx /\ lp.idx \in Idx
      /\ lp \in [pc : LoopPcs, idx : Idx]
      /\ Reaping /\ UNCHANGED <<peers, rx>>
  BY Typed DEF Unuse, ClearSlot, Reaping
<1>1. rx.pc # "idle" /\ rx.kind = "hello" => rx.idx # lp.idx
  BY <1>0, NotInReapedSlot
<1>2. CASE Unuse
  <2>1. /\ lp.pc = "unuse" /\ lp'.pc = "clear" /\ lp'.idx = lp.idx
        /\ \A j \in Idx :
              /\ slots'[j].used <=> slots[j].used /\ j # lp.idx
              /\ slots'[j].registered <=> slots[j].registered
              /\ slots'[j].mac = slots[j].mac
    BY <1>0, <1>2 DEF Unuse, Slot
  <2>2. RxHello' /\ RegisteredUsed' /\ ClaimedNew' /\ RegisteredPeer'
    BY <1>0, <1>1, <2>1
       DEF RxHello, RegisteredUsed, ClaimedNew, Claimed, RegisteredPeer, PastDel, PastUnuse
  <2>3. PeerOwned'
    BY <1>0, <2>1 DEF PeerOwned, PastDel
  <2> QED
    BY <2>2, <2>3
<1>3. CASE ClearSlot
  <2>1. /\ lp.pc = "clear" /\ lp'.pc \notin {"del", "unuse", "clear"}
        /\ \A j \in Idx \ {lp.idx} : slots'[j] = slots[j]
        /\ ~slots'[lp.idx].registered
    BY <1>0, <1>3 DEF ClearSlot, AtSlot, Slot
  <2>2. RxHello' /\ RegisteredUsed' /\ ClaimedNew' /\ RegisteredPeer'
    BY <1>0, <1>1, <2>1
       DEF RxHello, RegisteredUsed, ClaimedNew, Claimed, RegisteredPeer, PastDel, PastUnuse
  <2>3. PeerOwned'
    BY <1>0, <2>1 DEF PeerOwned, PastDel
  <2> QED
    BY <2>2, <2>3
<1> QED
  BY <1>2, <1>3

\* The Wi-Fi task's other steps leave the peers and all it says of them.
LEMMA PeersHandled ==
    ASSUME SharedInv, PeersInv,
           Stamp \/ PollAfterFrame \/ SendAfterFrame \/ (Handle /\ (HelloNoChange \/ TimeRequest \/ DataFrame))
    PROVE  PeersInv'
<1> USE DEF SharedInv
<1>0. slots \in [Idx -> Slot] /\ rx \in RxType /\ rx.idx \in Idx
  BY Typed
<1>1. CASE Handle /\ DataFrame
  <2>1. /\ rx.pc = "handle" /\ rx'.pc \in {"idle", "poll"} /\ UNCHANGED <<peers, lp>>
        /\ rx'.pc # "idle" => rx'.kind = rx.kind /\ rx'.idx = rx.idx
    BY <1>0, <1>1, RecordTypes DEF Handle, DataFrame, RxType
  <2>2. \A j \in Idx :
           /\ slots'[j].used = slots[j].used
           /\ slots'[j].registered = slots[j].registered
           /\ slots'[j].mac = slots[j].mac
    <3>1. slots' = slots \/ slots' = [slots EXCEPT ![rx.idx].uid = rx.mac]
      BY <1>1 DEF DataFrame
    <3> QED
      BY <1>0, <3>1 DEF Slot
  <2>3. RxHello' /\ RegisteredUsed' /\ ClaimedNew'
    BY <1>0, <2>1, <2>2 DEF PeersInv, RxHello, RegisteredUsed, ClaimedNew, Claimed, PastUnuse
  <2>4. RegisteredPeer' /\ PeerOwned'
    BY <2>1, <2>2 DEF PeersInv, RegisteredPeer, PeerOwned, PastDel
  <2> QED
    BY <2>3, <2>4 DEF PeersInv
<1>2. CASE Stamp \/ PollAfterFrame \/ SendAfterFrame \/ (Handle /\ (HelloNoChange \/ TimeRequest))
  <2>1. UNCHANGED <<slots, peers, lp>> /\ rx.pc # "peered" /\ rx'.pc # "peered" /\ RxOn
    BY <1>0, <1>2, RecordTypes
       DEF Stamp, PollAfterFrame, SendAfterFrame, Handle, HelloNoChange, TimeRequest, RxOn, RxType
  <2> QED
    BY <2>1, PeersQuiet DEF LoopElsewhere
<1> QED
  BY <1>1, <1>2

\* The rest of service(), and the environment.
LEMMA ElsewhereSteps ==
    ASSUME SharedInv,
           \/ BeginService \/ CheckSlot \/ ServiceTimeRequests \/ ServicePoll \/ SendPoll
           \/ (\E i \in Idx : FallSilent(i)) \/ PollTimesOut \/ SetAcceptNewDevices
           \/ UNCHANGED vars
    PROVE  UNCHANGED <<slots, peers, rx>> /\ LoopElsewhere
<1>1. CASE BeginService \/ CheckSlot
  BY <1>1 DEF BeginService, CheckSlot, AtSlot, LoopElsewhere, SharedInv, TypeOK
<1>2. CASE ServiceTimeRequests \/ ServicePoll \/ SendPoll
  BY <1>2, RecordTypes
     DEF ServiceTimeRequests, ServicePoll, StillAwaiting, PollNow, SendPoll, LoopElsewhere, SharedInv, TypeOK
<1>3. CASE (\E i \in Idx : FallSilent(i)) \/ PollTimesOut \/ SetAcceptNewDevices \/ UNCHANGED vars
  BY <1>3 DEF FallSilent, PollTimesOut, SetAcceptNewDevices, vars, hubVars, LoopElsewhere
<1> QED
  BY <1>1, <1>2, <1>3

\* The kinds of step there are.
LEMMA Steps ==
    ASSUME [Next]_vars
    PROVE  \/ \E m \in Macs, kind \in Kinds : KnownSender(m, kind) \/ ClaimSlot(m, kind)
           \/ CopyMac \/ Stamp \/ SetRegistered \/ PollAfterFrame \/ SendAfterFrame
           \/ Handle /\ (HelloNoChange \/ AddPeer \/ DataFrame \/ TimeRequest)
           \/ DelPeer \/ Unuse \/ ClearSlot
           \/ BeginService \/ CheckSlot \/ ServiceTimeRequests \/ ServicePoll \/ SendPoll
           \/ (\E i \in Idx : FallSilent(i)) \/ PollTimesOut \/ SetAcceptNewDevices
           \/ UNCHANGED vars
BY DEF Next, Wifi, HandlePacket, Service, Handle

HelloInv == "hello" \notin collided => PeersInv

LEMMA HelloStep == SharedInv /\ HelloInv /\ [Next]_vars => HelloInv'
<1> SUFFICES ASSUME SharedInv, HelloInv, [Next]_vars, "hello" \notin collided'
             PROVE  PeersInv'
  BY DEF HelloInv
<1>0. "hello" \notin collided /\ PeersInv
  BY CollidedGrows DEF HelloInv
<1>1. ASSUME NEW m \in Macs, NEW kind \in Kinds, KnownSender(m, kind) \/ ClaimSlot(m, kind)
      PROVE  PeersInv'
  BY <1>0, <1>1, PeersFindSlot
<1>2. CASE CopyMac
  <2>1. rx.mac \in Macs /\ "other" \in Kinds
    BY <1>2 DEF SharedInv, RxSlot, CopyMac, Kinds
  <2> QED
    BY <1>0, <1>2, <2>1, PeersFindSlot
<1>3. CASE (Handle /\ AddPeer) \/ SetRegistered
  BY <1>0, <1>3, PeersAdded
<1>4. CASE Stamp \/ PollAfterFrame \/ SendAfterFrame \/ (Handle /\ (HelloNoChange \/ TimeRequest \/ DataFrame))
  BY <1>0, <1>4, PeersHandled
<1>5. CASE DelPeer
  BY <1>0, <1>5, PeersDeleted
<1>6. CASE Unuse \/ ClearSlot
  BY <1>0, <1>6, PeersSlotFreed
<1>7. CASE \/ BeginService \/ CheckSlot \/ ServiceTimeRequests \/ ServicePoll \/ SendPoll
           \/ (\E i \in Idx : FallSilent(i)) \/ PollTimesOut \/ SetAcceptNewDevices
           \/ UNCHANGED vars
  <2>1. UNCHANGED <<slots, peers, rx>> /\ LoopElsewhere
    BY <1>7, ElsewhereSteps
  <2> QED
    BY <1>0, <2>1, PeersQuiet DEF RxOn, SharedInv, RxKind
<1> QED
  BY <1>1, <1>2, <1>3, <1>4, <1>5, <1>6, <1>7, Steps

\* However the two tasks interleave, the ESP-NOW peer table is exactly the
\* registered slots as long as no HELLO was handled in a slot being reaped.
THEOREM PeersExact == Spec => []OnlyHelloPartsPeers
<1>1. Init => SharedInv /\ HelloInv
  BY SharedInit DEF Init, HelloInv, PeersInv, RxHello, RegisteredUsed, ClaimedNew, Claimed,
                    RegisteredPeer, PeerOwned, EmptySlot, RxIdle
<1>2. SharedInv /\ HelloInv /\ [Next]_vars => SharedInv' /\ HelloInv'
  BY SharedStep, HelloStep
<1>3. HelloInv => OnlyHelloPartsPeers
  <2> SUFFICES ASSUME PeersInv, AtRest PROVE PeersMatchRoster
    BY DEF HelloInv, OnlyHelloPartsPeers, PeersMatchRoster
  <2> USE DEF PeersInv, AtRest, PastDel, PastUnuse
  <2>1. \A i \in Idx : slots[i].registered => slots[i].used /\ slots[i].mac \in peers
    BY DEF RegisteredUsed, RegisteredPeer
  <2>2. \A p \in peers : \E i \in Idx : slots[i].registered /\ slots[i].mac = p
    BY DEF PeerOwned
  <2> QED
    BY <2>1, <2>2 DEF PeersMatchRoster
<1> QED
  BY <1>1, <1>2, <1>3, PTL DEF Spec

-----------------------------------------------------------------------------
(***************************************************************************)
(* The uids learned, as long as no data frame has met the reaper.          *)
(***************************************************************************)
\* A step that leaves the used slots, their macs and all uids alone, and in
\* which the two tasks only move on.
LEMMA UidsQuiet ==
    ASSUME UidInv, LoopElsewhere, RxOn,
           \A j \in Idx : /\ slots'[j].used = slots[j].used
                          /\ slots'[j].mac = slots[j].mac
                          /\ slots'[j].uid = slots[j].uid,
           rx.idx \in Idx
    PROVE  UidInv'
BY DEF UidInv, RxData, UidOwned, LoopElsewhere, RxOn, PastUnuse, Claimed

LEMMA UidsFindSlot ==
    ASSUME SharedInv, UidInv, NEW m \in Macs, NEW kind \in Kinds,
           KnownSender(m, kind) \/ ClaimSlot(m, kind) \/ CopyMac
    PROVE  UidInv'
<1>0. rx.idx \in Idx
  BY Typed DEF SharedInv
<1>1. CASE KnownSender(m, kind)
  BY <1>1, FindSlotSteps DEF UidInv, RxData, UidOwned, PastUnuse, Claimed
<1>2. CASE ClaimSlot(m, kind)
  <2>1. /\ rx.pc = "idle" /\ UNCHANGED lp
        /\ rx'.pc = "claim" /\ rx'.idx \in Idx
        /\ ~slots[rx'.idx].used /\ slots'[rx'.idx].used
        /\ \A j \in Idx : /\ slots'[j].uid = slots[j].uid
                          /\ j # rx'.idx => slots'[j] = slots[j]
    BY <1>2, FindSlotSteps
  <2> QED
    BY <2>1 DEF UidInv, RxData, UidOwned, PastUnuse, Claimed
<1>3. CASE CopyMac
  <2>1. /\ rx.pc = "claim" /\ UNCHANGED lp
        /\ rx'.pc = "found" /\ rx'.kind = rx.kind /\ rx'.idx = rx.idx
        /\ \A j \in Idx : /\ slots'[j].used = slots[j].used
                          /\ slots'[j].uid = slots[j].uid
                          /\ j # rx.idx => slots'[j] = slots[j]
    BY <1>3, FindSlotSteps
  <2> QED
    BY <1>0, <2>1 DEF UidInv, RxData, UidOwned, PastUnuse, Claimed
<1> QED
  BY <1>1, <1>2, <1>3

\* The uid learned is the slot's occupant's, whose data frame it came with.
LEMMA UidsLearned ==
    ASSUME SharedInv, UidInv, "data" \notin collided, Handle, DataFrame
    PROVE  UidInv'
<1>0. slots \in [Idx -> Slot] /\ rx \in RxType /\ rx.idx \in Idx
  BY Typed DEF SharedInv
<1>1. /\ rx.pc = "handle" /\ rx'.pc \in {"idle", "poll"} /\ UNCHANGED lp
      /\ slots[rx.idx].used /\ slots[rx.idx].mac = rx.mac
      /\ rx'.pc # "idle" => rx'.kind = rx.kind /\ rx'.idx = rx.idx
  BY <1>0, RecordTypes DEF Handle, DataFrame, RxType, UidInv, RxData, SharedInv, RxSlot
<1>2. \A j \in Idx :
         /\ slots'[j].used = slots[j].used
         /\ slots'[j].mac = slots[j].mac
         /\ slots'[j].uid = slots[j].uid \/ (j = rx.idx /\ slots'[j].uid = rx.mac)
  <2>1. slots' = slots \/ slots' = [slots EXCEPT ![rx.idx].uid = rx.mac]
    BY DEF DataFrame
  <2> QED
    BY <1>0, <2>1 DEF Slot
<1> QED
  BY <1>0, <1>1, <1>2 DEF UidInv, RxData, UidOwned, PastUnuse, Claimed

LEMMA UidsSlotFreed ==
    ASSUME SharedInv, UidInv, "data" \notin collided, DelPeer \/ Unuse \/ ClearSlot
    PROVE  UidInv'
<1>0. /\ slots \in [Idx -> Slot] /\ rx.idx \in Idx /\ lp.idx \in Idx
      /\ lp \in [pc : LoopPcs, idx : Idx]
      /\ Reaping /\ UNCHANGED rx
  BY Typed DEF SharedInv, DelPeer, Unuse, ClearSlot, Reaping
<1>1. rx.pc # "idle" /\ rx.kind = "data" => rx.idx # lp.idx
  BY <1>0, NotInReapedSlot
<1>2. CASE DelPeer
  BY <1>0, <1>2 DEF DelPeer, UidInv, RxData, UidOwned, PastUnuse, Claimed
<1>3. CASE Unuse
  <2>1. /\ lp.pc = "unuse" /\ lp'.pc = "clear" /\ lp'.idx = lp.idx
        /\ \A j \in Idx \ {lp.idx} : slots'[j] = slots[j]
    BY <1>0, <1>3 DEF Unuse
  <2> QED
    BY <1>0, <1>1, <2>1 DEF UidInv, RxData, UidOwned, PastUnuse, Claimed
<1>4. CASE ClearSlot
  <2>1. /\ lp.pc = "clear" /\ lp'.pc \notin {"del", "unuse", "clear"}
        /\ \A j \in Idx \ {lp.idx} : slots'[j] = slots[j]
        /\ slots'[lp.idx].uid = NoMac
    BY <1>0, <1>4 DEF ClearSlot, AtSlot, Slot
  <2> QED
    BY <1>0, <1>1, <2>1 DEF UidInv, RxData, UidOwned, PastUnuse, Claimed
<1> QED
  BY <1>2, <1>3, <1>4

DataInv == "data" \notin collided => UidInv

LEMMA DataStep == SharedInv /\ DataInv /\ [Next]_vars => DataInv'
<1> SUFFICES ASSUME SharedInv, DataInv, [Next]_vars, "data" \notin collided'
             PROVE  UidInv'
  BY DEF DataInv
<1>0. /\ "data" \notin collided /\ UidInv
      /\ slots \in [Idx -> Slot] /\ rx \in RxType /\ rx.idx \in Idx
  BY CollidedGrows, Typed DEF DataInv, SharedInv
<1>1. ASSUME NEW m \in Macs, NEW kind \in Kinds, KnownSender(m, kind) \/ ClaimSlot(m, kind)
      PROVE  UidInv'
  BY <1>0, <1>1, UidsFindSlot
<1>2. CASE CopyMac
  <2>1. rx.mac \in Macs /\ "other" \in Kinds
    BY <1>2 DEF SharedInv, RxSlot, CopyMac, Kinds
  <2> QED
    BY <1>0, <1>2, <2>1, UidsFindSlot
<1>3. CASE Handle /\ DataFrame
  BY <1>0, <1>3, UidsLearned
<1>4. CASE DelPeer \/ Unuse \/ ClearSlot
  BY <1>0, <1>4, UidsSlotFreed
<1>5. CASE \/ Stamp \/ PollAfterFrame \/ SendAfterFrame \/ SetRegistered
           \/ (Handle /\ (HelloNoChange \/ AddPeer \/ TimeRequest))
  <2>1. UNCHANGED lp /\ RxOn
    BY <1>0, <1>5, RecordTypes
       DEF Stamp, PollAfterFrame, SendAfterFrame, SetRegistered, Handle, HelloNoChange, AddPeer,
           TimeRequest,
           RxOn, RxType
  <2>2. slots' = slots \/ slots' = [slots EXCEPT ![rx.idx].registered = TRUE]
    BY <1>5
       DEF Stamp, PollAfterFrame, SendAfterFrame, SetRegistered, Handle, HelloNoChange, AddPeer,
           TimeRequest
  <2>3. \A j \in Idx : /\ slots'[j].used = slots[j].used
                       /\ slots'[j].mac = slots[j].mac
                       /\ slots'[j].uid = slots[j].uid
    BY <1>0, <2>2 DEF Slot
  <2> QED
    BY <1>0, <2>1, <2>3, UidsQuiet DEF LoopElsewhere
<1>6. CASE \/ BeginService \/ CheckSlot \/ ServiceTimeRequests \/ ServicePoll \/ SendPoll
           \/ (\E i \in Idx : FallSilent(i)) \/ PollTimesOut \/ SetAcceptNewDevices
           \/ UNCHANGED vars
  <2>1. UNCHANGED <<slots, peers, rx>> /\ LoopElsewhere
    BY <1>6, ElsewhereSteps
  <2> QED
    BY <1>0, <2>1, UidsQuiet DEF RxOn, SharedInv, RxKind
<1> QED
  BY <1>1, <1>2, <1>3, <1>4, <1>5, <1>6, Steps

\* However the two tasks interleave, a device_uid never resolves to the wrong
\* device as long as no data frame was handled in a slot being reaped.
THEOREM UidsOwned == Spec => []OnlyDataMisplacesUid
<1>1. Init => SharedInv /\ DataInv
  BY SharedInit DEF Init, DataInv, UidInv, RxData, UidOwned, EmptySlot, RxIdle
<1>2. SharedInv /\ DataInv /\ [Next]_vars => SharedInv' /\ DataInv'
  BY SharedStep, DataStep
<1>3. DataInv => OnlyDataMisplacesUid
  BY DEF DataInv, UidInv, UidOwned, PastUnuse, AtRest, OnlyDataMisplacesUid, UidOfOccupant
<1> QED
  BY <1>1, <1>2, <1>3, PTL DEF Spec

-----------------------------------------------------------------------------
(***************************************************************************)
(* The poll in flight.                                                     *)
(***************************************************************************)
LEMMA PollStep ==
    ASSUME SharedInv, PollInv, "poll" \notin collided, [Next]_vars
    PROVE  PollInv'
<1> USE DEF PollInv, Pollable, PastUnuse
<1>0. /\ slots \in [Idx -> Slot] /\ rx.idx \in Idx /\ lp.idx \in Idx
      /\ lp \in [pc : LoopPcs, idx : Idx] /\ rx \in RxType
      /\ awaiting \in Idx \cup {-1}
  BY Typed DEF SharedInv, TypeOK
<1>1. ASSUME NEW m \in Macs, NEW kind \in Kinds, KnownSender(m, kind) \/ ClaimSlot(m, kind)
      PROVE  PollInv'
  BY <1>0, <1>1, FindSlotSteps
<1>2. CASE CopyMac
  BY <1>0, <1>2 DEF CopyMac, Slot
<1>3. CASE SetRegistered
  BY <1>0, <1>3, RecordTypes DEF SetRegistered, Slot
<1>4. CASE Handle
  <2>1. \/ slots' = slots
        \/ slots' = [slots EXCEPT ![rx.idx].uid = rx.mac]
    BY <1>4 DEF Handle, HelloNoChange, AddPeer, DataFrame, TimeRequest
  <2>2. \A j \in Idx : slots'[j].used = slots[j].used /\ slots'[j].registered = slots[j].registered
    BY <1>0, <2>1 DEF Slot
  <2>3. rx'.pc # "send" /\ UNCHANGED <<awaiting, lp>>
    BY <1>0, <1>4, RecordTypes
       DEF Handle, HelloNoChange, AddPeer, DataFrame, TimeRequest, RxType
  <2> QED
    BY <1>0, <2>2, <2>3
<1>5. CASE PollAfterFrame
  <2>1. UNCHANGED <<slots, lp>> /\ awaiting' = -1
    BY <1>5 DEF PollAfterFrame
  <2>2. rx'.pc = "send" => Pollable(rx'.idx)
    BY <1>5, TargetPollable, RecordTypes DEF PollAfterFrame, SharedInv
  <2> QED
    BY <2>1, <2>2
<1>6. CASE ServicePoll
  <2>1. UNCHANGED <<slots, rx>> /\ awaiting' \in {awaiting, -1} /\ lp.pc = "poll"
    BY <1>6 DEF ServicePoll, StillAwaiting, PollNow
  <2>2. lp'.pc = "send" => Pollable(lp'.idx)
    BY <1>6, TargetPollable, RecordTypes DEF ServicePoll, StillAwaiting, PollNow, SharedInv
  <2> QED
    BY <2>1, <2>2
<1>7. CASE SendAfterFrame
  BY <1>0, <1>7, RecordTypes DEF SendAfterFrame
<1>8. CASE SendPoll
  BY <1>0, <1>8, RecordTypes DEF SendPoll
<1>9. rx.pc = "send" /\ Reaping => rx.idx # lp.idx
  BY NotInReapedSlot DEF SharedInv, RxKind
<1>10. CASE Unuse
  BY <1>0, <1>9, <1>10 DEF Unuse, Slot, Reaping
<1>11. CASE ClearSlot
  BY <1>0, <1>9, <1>11 DEF ClearSlot, AtSlot, Slot, Reaping
<1>12. CASE Stamp
  BY <1>0, <1>12, RecordTypes DEF Stamp
<1>13. CASE DelPeer \/ BeginService \/ CheckSlot \/ ServiceTimeRequests
  BY <1>0, <1>13 DEF DelPeer, BeginService, CheckSlot, ServiceTimeRequests, AtSlot
<1>14. CASE (\E i \in Idx : FallSilent(i)) \/ PollTimesOut \/ SetAcceptNewDevices \/ UNCHANGED vars
  BY <1>14 DEF FallSilent, PollTimesOut, SetAcceptNewDevices, vars, hubVars
<1> QED
  BY <1>1, <1>2, <1>3, <1>4, <1>5, <1>6, <1>7, <1>8, <1>10, <1>11, <1>12, <1>13, <1>14, Steps

AwaitedInv == "poll" \notin collided => PollInv

\* However the two tasks interleave, the poll in flight is to a device that
\* still is registered, as long as no target that pollNext() chose after a
\* data frame was reaped before the poll was recorded.
THEOREM PollTargetKept == Spec => []OnlyPollOutlivesTarget
<1>1. Init => SharedInv /\ AwaitedInv
  BY SharedInit DEF Init, AwaitedInv, PollInv, RxIdle, LoopIdle
<1>2. SharedInv /\ AwaitedInv /\ [Next]_vars => SharedInv' /\ AwaitedInv'
  BY SharedStep, PollStep, CollidedGrows DEF AwaitedInv
<1>3. AwaitedInv => OnlyPollOutlivesTarget
  BY DEF AwaitedInv, PollInv, PastUnuse, AtRest, OnlyPollOutlivesTarget, PollTargetPresent
<1> QED
  BY <1>1, <1>2, <1>3, PTL DEF Spec
============================================================================
