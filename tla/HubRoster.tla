----------------------------- MODULE HubRoster -----------------------------
(***************************************************************************)
(* EspNowHubManager's roster: which devices hold a slot, which of them are *)
(* ESP-NOW peers, and which one is polled next.                            *)
(*                                                                         *)
(* Two tasks of the dual-core ESP32-S3 share slots_[] without a lock.  The *)
(* Wi-Fi task runs handleEspNowRecv() for each packet; the loop task runs  *)
(* service(), which reaps silent slots, answers time requests and polls.   *)
(* Each is modelled statement by statement where a statement writes what   *)
(* the other task reads, and the two interleave at will.                   *)
(*                                                                         *)
(* They do not always get away with it.  collided remembers which work of  *)
(* the Wi-Fi task has met the reaper on the same slot; the properties say  *)
(* what holds for as long as a kind of work has not.                       *)
(*                                                                         *)
(* Time is abstracted to the comparisons: silent[i] says that more than    *)
(* kEspNowHubSlotStaleMs have passed since slot i's lastSeenMs, pollLate   *)
(* that kHubPollTimeoutUs have passed since the last poll.                 *)
(***************************************************************************)
EXTENDS Integers, FiniteSets

CONSTANTS
    Macs,        \* the devices in radio range
    NoMac,       \* a slot's mac before its first occupant; a uid not known
    MaxDevices   \* kEspNowHubMaxDevices

ASSUME RosterConstants ==
    /\ NoMac \notin Macs
    /\ MaxDevices \in Nat \ {0}

VARIABLES
    slots,        \* slots_[]: used, registered, mac, and the uid learned (or NoMac)
    timeReq,      \* slots that hold a TIME_REQ not yet answered
    silent,       \* slots whose lastSeenMs is more than kEspNowHubSlotStaleMs old
    afterNow,     \* of the slots a reaper has yet to look at, those whose lastSeenMs
                  \* is later than the `now` it holds
    peers,        \* the ESP-NOW driver's peer table
    cursor,       \* pollCursor_
    awaiting,     \* awaitingIdx_
    pollLate,     \* the poll timeout has passed
    acceptNew,    \* acceptNewDevices_
    rx,           \* where the Wi-Fi task is in handleEspNowRecv(), for which packet
    lp,           \* where the loop task is in service(), at which slot
    collided      \* which work of the Wi-Fi task has met the loop task's so far

hubVars == <<slots, timeReq, silent, afterNow, peers, cursor, awaiting, pollLate,
             acceptNew, rx, lp>>
vars == <<hubVars, collided>>

Idx == 0 .. MaxDevices - 1
Kinds == {"hello", "data", "time_req", "other"}

EmptySlot == [used |-> FALSE, registered |-> FALSE, mac |-> NoMac, uid |-> NoMac]

RxIdle == [pc |-> "idle", kind |-> "other", mac |-> NoMac, idx |-> 0]
LoopIdle == [pc |-> "idle", idx |-> 0]

\* The Wi-Fi task is at work in the very slot that is being reaped.
Reaping == lp.pc \in {"del", "unuse", "clear"}
InReapedSlot == rx.pc # "idle" /\ Reaping /\ lp.idx = rx.idx

Collisions == {k \in {"hello", "data", "poll"} : rx.kind = k /\ InReapedSlot}

NoteCollisions == collided' = collided \cup Collisions'

Pollable(i) == slots[i].used /\ slots[i].registered

-----------------------------------------------------------------------------
(***************************************************************************)
(* pollNext(): round robin from pollCursor_ over the registered slots.     *)
(* The poll is sent, and recorded in awaitingIdx_, a step after its target *)
(* was chosen.                                                             *)
(***************************************************************************)
After(i, k) == (i + k) % MaxDevices

Tries == {k \in Idx : Pollable(After(cursor, k))}

\* Mutant: the cursor stays where the device to poll was found.
TargetSameAgain(i) ==
    \E k \in Tries : /\ \A j \in Tries : k <= j
                     /\ i = After(cursor, k)
                     /\ cursor' = After(cursor, k)

Target(i) ==
    \E k \in Tries : /\ \A j \in Tries : k <= j
                     /\ i = After(cursor, k)
                     /\ cursor' = After(cursor, k + 1)

NoTarget == Tries = {} /\ UNCHANGED cursor

-----------------------------------------------------------------------------
(***************************************************************************)
(* handleEspNowRecv(), on the Wi-Fi task, one packet at a time.            *)
(***************************************************************************)
\* Mutant: only registered slots are searched for the sender.
RegisteredSlotsOf(m) == {i \in Idx : Pollable(i) /\ slots[i].mac = m}

SlotsOf(m) == {i \in Idx : slots[i].used /\ slots[i].mac = m}
FreeSlots == {i \in Idx : ~slots[i].used}

\* findOrCreateSlot(): a packet that gets no slot is dropped.
KnownSender(m, kind) ==
    /\ rx.pc = "idle"
    /\ \E i \in SlotsOf(m) : rx' = [pc |-> "found", kind |-> kind, mac |-> m, idx |-> i]
    /\ UNCHANGED <<slots, timeReq, silent, afterNow, peers, cursor, awaiting, pollLate, acceptNew, lp>>
    /\ NoteCollisions

\* A free slot is marked used; its mac is copied after that.
ClaimSlot(m, kind) ==
    /\ rx.pc = "idle"
    /\ SlotsOf(m) = {}
    /\ acceptNew
    /\ \E i \in FreeSlots :
          /\ \A j \in FreeSlots : i <= j
          /\ slots' = [slots EXCEPT ![i].used = TRUE]
          /\ rx' = [pc |-> "claim", kind |-> kind, mac |-> m, idx |-> i]
    /\ UNCHANGED <<timeReq, silent, afterNow, peers, cursor, awaiting, pollLate, acceptNew, lp>>
    /\ NoteCollisions

CopyMac ==
    /\ rx.pc = "claim"
    /\ slots' = [slots EXCEPT ![rx.idx].mac = rx.mac]
    /\ rx' = [rx EXCEPT !.pc = "found"]
    /\ UNCHANGED <<timeReq, silent, afterNow, peers, cursor, awaiting, pollLate, acceptNew, lp>>
    /\ NoteCollisions

NotYetChecked == {i \in Idx : \/ lp.pc = "check" /\ lp.idx <= i
                              \/ Reaping /\ lp.idx < i}

\* slot.lastSeenMs = millis(), which may be past the `now` of a reaper at work.
Stamp ==
    /\ rx.pc = "found"
    /\ silent' = silent \ {rx.idx}
    /\ afterNow' \in {afterNow} \cup {afterNow \cup {i} : i \in {rx.idx} \cap NotYetChecked}
    /\ rx' = IF rx.kind = "other" THEN RxIdle ELSE [rx EXCEPT !.pc = "handle"]
    /\ UNCHANGED <<slots, timeReq, peers, cursor, awaiting, pollLate, acceptNew, lp>>
    /\ NoteCollisions

\* registerPeerIfNeeded(): already registered, or esp_now_add_peer() refuses
\* a MAC it already has.
HelloNoChange ==
    /\ rx.kind = "hello"
    /\ slots[rx.idx].registered \/ slots[rx.idx].mac \in peers
    /\ rx' = RxIdle
    /\ UNCHANGED <<slots, timeReq, peers>>

AddPeer ==
    /\ rx.kind = "hello"
    /\ ~slots[rx.idx].registered
    /\ slots[rx.idx].mac \notin peers
    /\ peers' = peers \cup {slots[rx.idx].mac}
    /\ rx' = [rx EXCEPT !.pc = "peered"]
    /\ UNCHANGED <<slots, timeReq>>

\* A data frame is complete: learn the uid, and poll the next device at once
\* if this is the one that was polled.
DataFrame ==
    /\ rx.kind = "data"
    /\ slots' = IF slots[rx.idx].uid = NoMac
                THEN [slots EXCEPT ![rx.idx].uid = rx.mac] ELSE slots
    /\ rx' = IF awaiting = rx.idx THEN [rx EXCEPT !.pc = "poll"] ELSE RxIdle
    /\ UNCHANGED <<timeReq, peers>>

TimeRequest ==
    /\ rx.kind = "time_req"
    /\ timeReq' = IF slots[rx.idx].registered THEN timeReq \cup {rx.idx} ELSE timeReq
    /\ rx' = RxIdle
    /\ UNCHANGED <<slots, peers>>

Handle ==
    /\ rx.pc = "handle"
    /\ HelloNoChange \/ AddPeer \/ DataFrame \/ TimeRequest
    /\ UNCHANGED <<silent, afterNow, cursor, awaiting, pollLate, acceptNew, lp>>
    /\ NoteCollisions

PollAfterFrame ==
    /\ rx.pc = "poll"
    /\ awaiting' = -1
    /\ \/ NoTarget /\ rx' = RxIdle
       \/ \E i \in Idx : Target(i) /\ rx' = [pc |-> "send", kind |-> "poll", mac |-> NoMac, idx |-> i]
    /\ UNCHANGED <<slots, timeReq, silent, afterNow, peers, pollLate, acceptNew, lp>>
    /\ NoteCollisions

\* sendPollTo(), to whatever occupies the slot by now.
SendAfterFrame ==
    /\ rx.pc = "send"
    /\ awaiting' = rx.idx
    /\ pollLate' = FALSE
    /\ rx' = RxIdle
    /\ UNCHANGED <<slots, timeReq, silent, afterNow, peers, cursor, acceptNew, lp>>
    /\ NoteCollisions

SetRegistered ==
    /\ rx.pc = "peered"
    /\ slots' = [slots EXCEPT ![rx.idx].registered = TRUE]
    /\ rx' = RxIdle
    /\ UNCHANGED <<timeReq, silent, afterNow, peers, cursor, awaiting, pollLate, acceptNew, lp>>
    /\ NoteCollisions

-----------------------------------------------------------------------------
(***************************************************************************)
(* service(), on the loop task: reapStaleSlots() slot by slot, then        *)
(* serviceTimeRequests(), then the poll.                                   *)
(***************************************************************************)
\* Mutant: the loop over the slots runs one past the last.
AtSlotTooFar(i) ==
    IF i <= MaxDevices THEN [pc |-> "check", idx |-> i] ELSE [pc |-> "time", idx |-> 0]

AtSlot(i) == IF i < MaxDevices THEN [pc |-> "check", idx |-> i] ELSE [pc |-> "time", idx |-> 0]

\* `now` is read once, before the first slot is looked at.
BeginService ==
    /\ lp.pc = "idle"
    /\ lp' = AtSlot(0)
    /\ UNCHANGED <<slots, timeReq, silent, afterNow, peers, cursor, awaiting, pollLate, acceptNew, rx>>
    /\ NoteCollisions

\* now - lastSeenMs > kEspNowHubSlotStaleMs in uint32 arithmetic: also true
\* of a slot stamped after `now` was read, because the difference wraps.
Stale(i) == i \in silent \/ i \in afterNow

CheckSlot ==
    /\ lp.pc = "check"
    /\ lp' = IF slots[lp.idx].used /\ Stale(lp.idx)
             THEN [lp EXCEPT !.pc = "del"] ELSE AtSlot(lp.idx + 1)
    /\ afterNow' = afterNow \ {lp.idx}
    /\ UNCHANGED <<slots, timeReq, silent, peers, cursor, awaiting, pollLate, acceptNew, rx>>
    /\ NoteCollisions

\* Mutant: reaping leaves the driver's peer table alone.
DelPeerForgotten ==
    /\ lp.pc = "del"
    /\ lp' = [lp EXCEPT !.pc = "unuse"]
    /\ UNCHANGED <<slots, timeReq, silent, afterNow, peers, cursor, awaiting, pollLate, acceptNew, rx>>
    /\ NoteCollisions

DelPeer ==
    /\ lp.pc = "del"
    /\ peers' = IF slots[lp.idx].registered THEN peers \ {slots[lp.idx].mac} ELSE peers
    /\ lp' = [lp EXCEPT !.pc = "unuse"]
    /\ UNCHANGED <<slots, timeReq, silent, afterNow, cursor, awaiting, pollLate, acceptNew, rx>>
    /\ NoteCollisions

Unuse ==
    /\ lp.pc = "unuse"
    /\ slots' = [slots EXCEPT ![lp.idx].used = FALSE]
    /\ lp' = [lp EXCEPT !.pc = "clear"]
    /\ UNCHANGED <<timeReq, silent, afterNow, peers, cursor, awaiting, pollLate, acceptNew, rx>>
    /\ NoteCollisions

\* Mutant: the uid stays known when its slot is reaped.
ClearSlotKeepUid ==
    /\ lp.pc = "clear"
    /\ slots' = [slots EXCEPT ![lp.idx].registered = FALSE]
    /\ timeReq' = timeReq \ {lp.idx}
    /\ awaiting' = IF awaiting = lp.idx THEN -1 ELSE awaiting
    /\ lp' = AtSlot(lp.idx + 1)
    /\ UNCHANGED <<silent, afterNow, peers, cursor, pollLate, acceptNew, rx>>
    /\ NoteCollisions

\* Mutant: a reaped slot stays the awaited one.
ClearSlotKeepAwaiting ==
    /\ lp.pc = "clear"
    /\ slots' = [slots EXCEPT ![lp.idx] = [@ EXCEPT !.registered = FALSE, !.uid = NoMac]]
    /\ timeReq' = timeReq \ {lp.idx}
    /\ lp' = AtSlot(lp.idx + 1)
    /\ UNCHANGED <<silent, afterNow, peers, cursor, awaiting, pollLate, acceptNew, rx>>
    /\ NoteCollisions

ClearSlot ==
    /\ lp.pc = "clear"
    /\ slots' = [slots EXCEPT ![lp.idx] = [@ EXCEPT !.registered = FALSE, !.uid = NoMac]]
    /\ timeReq' = timeReq \ {lp.idx}
    /\ awaiting' = IF awaiting = lp.idx THEN -1 ELSE awaiting
    /\ lp' = AtSlot(lp.idx + 1)
    /\ UNCHANGED <<silent, afterNow, peers, cursor, pollLate, acceptNew, rx>>
    /\ NoteCollisions

\* Each pending request is answered to the slot's occupant, or dropped.
ServiceTimeRequests ==
    /\ lp.pc = "time"
    /\ timeReq' = {}
    /\ lp' = [lp EXCEPT !.pc = "poll"]
    /\ UNCHANGED <<slots, silent, afterNow, peers, cursor, awaiting, pollLate, acceptNew, rx>>
    /\ NoteCollisions

StillAwaiting ==
    /\ awaiting # -1 /\ ~pollLate
    /\ lp' = LoopIdle
    /\ UNCHANGED <<cursor, awaiting>>

PollNow ==
    /\ awaiting = -1 \/ pollLate
    /\ awaiting' = -1
    /\ \/ NoTarget /\ lp' = LoopIdle
       \/ \E i \in Idx : Target(i) /\ lp' = [pc |-> "send", idx |-> i]

ServicePoll ==
    /\ lp.pc = "poll"
    /\ StillAwaiting \/ PollNow
    /\ UNCHANGED <<slots, timeReq, silent, afterNow, peers, pollLate, acceptNew, rx>>
    /\ NoteCollisions

SendPoll ==
    /\ lp.pc = "send"
    /\ awaiting' = lp.idx
    /\ pollLate' = FALSE
    /\ lp' = LoopIdle
    /\ UNCHANGED <<slots, timeReq, silent, afterNow, peers, cursor, acceptNew, rx>>
    /\ NoteCollisions

Service ==
    \/ BeginService \/ CheckSlot \/ DelPeer \/ Unuse \/ ClearSlot
    \/ ServiceTimeRequests \/ ServicePoll \/ SendPoll

-----------------------------------------------------------------------------
(***************************************************************************)
(* The environment: time, and setAcceptNewDevices() from the update policy *)
(* (on the loop task, outside service()).                                  *)
(***************************************************************************)
FallSilent(i) ==
    /\ slots[i].used
    /\ silent' = silent \cup {i}
    /\ UNCHANGED <<slots, timeReq, afterNow, peers, cursor, awaiting, pollLate, acceptNew, rx, lp, collided>>

PollTimesOut ==
    /\ awaiting # -1
    /\ pollLate' = TRUE
    /\ UNCHANGED <<slots, timeReq, silent, afterNow, peers, cursor, awaiting, acceptNew, rx, lp, collided>>

SetAcceptNewDevices ==
    /\ lp.pc = "idle"
    /\ acceptNew' = ~acceptNew
    /\ UNCHANGED <<slots, timeReq, silent, afterNow, peers, cursor, awaiting, pollLate, rx, lp, collided>>

HandlePacket == CopyMac \/ Stamp \/ Handle \/ SetRegistered \/ PollAfterFrame \/ SendAfterFrame

Wifi == HandlePacket \/ \E m \in Macs, kind \in Kinds : KnownSender(m, kind) \/ ClaimSlot(m, kind)

Init ==
    /\ slots = [i \in Idx |-> EmptySlot]
    /\ timeReq = {}
    /\ silent = {}
    /\ afterNow = {}
    /\ peers = {}
    /\ cursor = 0
    /\ awaiting = -1
    /\ pollLate = FALSE
    /\ acceptNew = TRUE
    /\ rx = RxIdle
    /\ lp = LoopIdle
    /\ collided = {}

Next ==
    \/ Wifi
    \/ Service
    \/ \E i \in Idx : FallSilent(i)
    \/ PollTimesOut
    \/ SetAcceptNewDevices

Spec == Init /\ [][Next]_vars

(***************************************************************************)
(* A packet callback runs to its end, loop() keeps calling service() on    *)
(* its own core, and a poll's 30 ms pass.  Nothing is assumed of the       *)
(* devices.                                                                *)
(***************************************************************************)
Fairness == WF_hubVars(HandlePacket) /\ WF_hubVars(Service) /\ WF_hubVars(PollTimesOut)

\* Both tasks are in pollNext(), whose steps on pollCursor_ are merged here.
PollsMeet == rx.pc \in {"poll", "send"} /\ lp.pc \in {"poll", "send"}

\* Behaviours of Spec in which the two tasks never meet.
CalmSpec == Init /\ [][Next /\ collided' = {} /\ ~PollsMeet']_vars /\ Fairness

-----------------------------------------------------------------------------
(***************************************************************************)
(* Properties.                                                             *)
(***************************************************************************)
Slot == [used : BOOLEAN, registered : BOOLEAN, mac : Macs \cup {NoMac}, uid : Macs \cup {NoMac}]
RxPcs == {"idle", "claim", "found", "handle", "peered", "poll", "send"}
LoopPcs == {"idle", "check", "del", "unuse", "clear", "time", "poll", "send"}

\* The type invariant.
TypeOK ==
    /\ slots \in [Idx -> Slot]
    /\ timeReq \subseteq Idx
    /\ silent \subseteq Idx
    /\ afterNow \subseteq Idx
    /\ peers \subseteq Macs
    /\ cursor \in Idx
    /\ awaiting \in Idx \cup {-1}
    /\ pollLate \in BOOLEAN
    /\ acceptNew \in BOOLEAN
    /\ rx \in [pc : RxPcs, kind : Kinds \cup {"poll"}, mac : Macs \cup {NoMac}, idx : Idx]
    /\ lp \in [pc : LoopPcs, idx : Idx]
    /\ collided \subseteq {"hello", "data", "poll"}

\* A slot that was marked used and still has its previous occupant's mac.
Claimed(i) == rx.pc = "claim" /\ rx.idx = i

\* No device holds two slots, however packets and reaping interleave: a MAC
\* lookup, a poll or a command always means one slot.
UniqueMacs ==
    \A i, j \in Idx :
        /\ slots[i].used /\ ~Claimed(i)
        /\ slots[j].used /\ ~Claimed(j)
        /\ slots[i].mac = slots[j].mac
        => i = j

AtRest == rx.pc = "idle" /\ lp.pc = "idle"

\* Between handlers the driver's peer table is exactly the registered slots.
\* A peer left behind by a reaped slot makes esp_now_add_peer() refuse the
\* device when it comes back -- "silently blocked until a full Hub reboot" --
\* and a registered slot without its peer can never be polled.
PeersMatchRoster ==
    AtRest => /\ peers = {slots[i].mac : i \in {j \in Idx : slots[j].registered}}
              /\ \A i \in Idx : slots[i].registered => slots[i].used

\* It takes a HELLO that is handled in the slot that is being reaped to part
\* them; whatever else the two tasks do at the same time does not.
OnlyHelloPartsPeers == "hello" \notin collided => PeersMatchRoster

\* A device_uid resolves to the device that owns it: a slot's next occupant
\* never inherits the uid learned from the previous one, which would send one
\* device's commands to another.
UidOfOccupant ==
    AtRest => \A i \in Idx :
        slots[i].used /\ slots[i].uid # NoMac => slots[i].uid = slots[i].mac

\* It takes a data frame that is handled in the slot that is being reaped to
\* leave a uid behind for the slot's next occupant.
OnlyDataMisplacesUid == "data" \notin collided => UidOfOccupant

\* The poll in flight, if any, went to a slot that still is a registered
\* device's: a reaped poll target "must be cleared explicitly rather than
\* assumed away", or the others wait out a poll that went nowhere.
PollTargetPresent == AtRest /\ awaiting # -1 => Pollable(awaiting)

\* It takes a slot that is reaped between pollNext()'s choice of it, after a
\* data frame, and the record of the poll, to leave one behind.
OnlyPollOutlivesTarget == "poll" \notin collided => PollTargetPresent

\* "don't let one bad link stall everyone": a device that stays registered is
\* polled again and again, whether or not any device ever answers a poll.
Registered(m) == \E i \in Idx : Pollable(i) /\ slots[i].mac = m
Polled(m) == awaiting # -1 /\ slots[awaiting].mac = m
EveryDevicePolled == \A m \in Macs : <>[]Registered(m) => []<>Polled(m)

\* "A device slot that hasn't been heard from in this long is reaped": a slot
\* whose device was heard less than kEspNowHubSlotStaleMs ago is not freed.  The
\* code breaks this when a packet is stamped after service() has read the time.
OnlySilentSlotsReaped ==
    [][\A i \in Idx : slots[i].used /\ ~slots'[i].used => i \in silent]_vars
============================================================================
