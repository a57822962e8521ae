-------------------------- MODULE HubCommandPath --------------------------
(***************************************************************************)
(* The way of a command through the Hub: CommandDispatcher together with   *)
(* what EspNowHubManager puts between it and the radio.                    *)
(*                                                                         *)
(*   - the roster decides which device a command can be sent to; devices   *)
(*     appear, name themselves and are reaped;                             *)
(*   - replies come in fragments.  All devices' control reassemblers write *)
(*     into one scratch area, and complete frames go into one buffer, with *)
(*     one MAC and one flag, which the Wi-Fi task fills and the loop task  *)
(*     reads without a lock.  Both are modelled access by access: the      *)
(*     Wi-Fi task writes content, MAC and flag; the loop task clears the   *)
(*     flag, compares the MAC and copies the content, and may then sit in  *)
(*     a blocking send while the radio goes on.                            *)
(*                                                                         *)
(* The dispatcher's own ControlResponse, which is handed each reply whole, *)
(* is replaced by these accesses; everything else of it is used as it is.  *)
(*                                                                         *)
(* Fragments of two devices' replies may reach the Hub intermixed: nothing *)
(* but the senders' pace prevents it.                                      *)
(***************************************************************************)
EXTENDS CommandDispatcher

CONSTANTS
    MaxDevices,     \* kEspNowHubMaxDevices
    MaxReaps        \* bound: how many slots are reaped

ASSUME PathConstants ==
    /\ MaxDevices \in Nat \ {0}
    /\ MaxReaps \in Nat

VARIABLES
    slot,       \* slot[d]: d's place in the roster: "none", "used", or "known"
    reaps,      \* slots reaped so far
    scratch,    \* sharedControlScratch_: the reply whose first fragment is there
    partial,    \* partial[d]: the reply d's controlReassembler is in the middle of
    buffer,     \* controlFrameBuffer_: the reply in it
    bufferMac,  \* controlFrameReadyMac_: the device whose MAC it is
    ready,      \* controlFrameReady_
    filling,    \* what the Wi-Fi task has yet to write of a frame: MAC, or flag
    taking,     \* the loop task, at the buffer: "no", to "match", or to "copy"
    matched,    \* idx: the entry whose MAC matched; 0 before
    sending     \* the loop task is in the send at the end of the frame callback

rosterVars == <<slot, reaps>>
scratchVars == <<scratch, partial>>
bufferVars == <<buffer, bufferMac, ready, filling>>
takeVars == <<taking, matched, sending>>
pathVars == <<vars, rosterVars, scratchVars, bufferVars, takeVars>>

NoReply == Msg("none", NoRequest, <<NoRequest, 0>>, 0)

\* The tasks do one thing at a time.
LoopFree == ~sending /\ taking = "no"
WifiFree == acking = {} /\ filling = {}

-----------------------------------------------------------------------------
(***************************************************************************)
(* The roster, as far as commands see it.                                  *)
(***************************************************************************)
Present == {d \in Devices : slot[d] # "none"}

\* Mutant: the search for a free slot goes one too far.
RosterHasRoomForOneMore == Cardinality(Present) <= MaxDevices

RosterHasRoom == Cardinality(Present) < MaxDevices

\* findOrCreateSlot(): any packet of a device without a slot takes a free one.
HeardFrom(d) ==
    /\ WifiFree
    /\ slot[d] # "none" \/ RosterHasRoom
    /\ slot' = [slot EXCEPT ![d] = IF @ = "none" THEN "used" ELSE @]

Hello(d) ==
    /\ slot[d] = "none"
    /\ HeardFrom(d)
    /\ UNCHANGED <<vars, reaps, scratchVars, bufferVars, takeVars>>

\* The device's first data frame names it.
DataFrame(d) ==
    /\ slot[d] = "used"
    /\ WifiFree
    /\ slot' = [slot EXCEPT ![d] = "known"]
    /\ UNCHANGED <<vars, reaps, scratchVars, bufferVars, takeVars>>

\* The scratch area's content is of interest only while somebody is midway.
ScratchLeft == IF \A d \in Devices : partial'[d] = NoReply THEN NoReply ELSE scratch

\* Silent for kEspNowHubSlotStaleMs.  The dispatcher is not told.
Reap(d) ==
    /\ LoopFree
    /\ svc = 0
    /\ slot[d] # "none"
    /\ reaps < MaxReaps
    /\ reaps' = reaps + 1
    /\ slot' = [slot EXCEPT ![d] = "none"]
    /\ partial' = [partial EXCEPT ![d] = NoReply]
    /\ scratch' = ScratchLeft
    /\ UNCHANGED <<vars, bufferVars, takeVars>>

-----------------------------------------------------------------------------
(***************************************************************************)
(* Control replies, on the Wi-Fi task.  A plain reply is one fragment, a   *)
(* page two.  A first fragment abandons what its device had begun.         *)
(***************************************************************************)
Replies == {m \in air : m.type \in {"plain", "page"}}

FirstFragment(m) ==
    /\ m.type = "page"
    /\ HeardFrom(m.dev)
    /\ air' = air \ Taken(m)
    /\ scratch' = m
    /\ partial' = [partial EXCEPT ![m.dev] = m]
    /\ UNCHANGED <<hubVars, execs, reaps, bufferVars, takeVars>>

\* A complete frame of d goes into the buffer: first the content.
Keep(reply, d) ==
    /\ buffer' = reply
    /\ filling' = {[dev |-> d, next |-> "mac"]}
    /\ UNCHANGED <<bufferMac, ready>>

OnlyFragment(m) ==
    /\ m.type = "plain"
    /\ HeardFrom(m.dev)
    /\ air' = air \ Taken(m)
    /\ partial' = [partial EXCEPT ![m.dev] = NoReply]
    /\ scratch' = IF ScratchLeft = NoReply THEN NoReply ELSE m
    /\ Keep(m, m.dev)
    /\ UNCHANGED <<hubVars, execs, reaps, takeVars>>

LastFragment(d) ==
    /\ partial[d] # NoReply
    /\ HeardFrom(d)
    /\ Keep(scratch, d)
    /\ partial' = [partial EXCEPT ![d] = NoReply]
    /\ scratch' = ScratchLeft
    /\ UNCHANGED <<vars, reaps, takeVars>>

KeepMac(f) ==
    /\ f.next = "mac"
    /\ bufferMac' = f.dev
    /\ filling' = {[f EXCEPT !.next = "flag"]}
    /\ UNCHANGED <<vars, rosterVars, scratchVars, buffer, ready, takeVars>>

RaiseFlag(f) ==
    /\ f.next = "flag"
    /\ ready' = TRUE
    /\ filling' = {}
    /\ UNCHANGED <<vars, rosterVars, scratchVars, buffer, bufferMac, takeVars>>

-----------------------------------------------------------------------------
(***************************************************************************)
(* The loop task.                                                          *)
(***************************************************************************)

\* macForDeviceUid() asks the roster.
BackendCommand(r) ==
    /\ LoopFree
    /\ SendCommandTo(r, slot[Target[r]] = "known")
    /\ UNCHANGED <<rosterVars, scratchVars, bufferVars, takeVars>>

DispatcherService ==
    /\ LoopFree
    /\ Service
    /\ UNCHANGED <<rosterVars, scratchVars, bufferVars, takeVars>>

\* EspNowHubManager::service(): the flag is cleared, and the dispatcher is
\* given pointers to the MAC and to the content.
TakeFrame ==
    /\ LoopFree
    /\ svc = 0
    /\ ready
    /\ ready' = FALSE
    /\ taking' = "match"
    /\ UNCHANGED <<vars, rosterVars, scratchVars, buffer, bufferMac, filling, matched, sending>>

\* What is in the buffer is of interest only until it has been taken.
BufferLeft ==
    IF ready \/ filling # {} THEN UNCHANGED <<buffer, bufferMac>>
                             ELSE buffer' = NoReply /\ bufferMac' = NoRequest

\* A MAC that is being written during the comparison may match no entry.
MatchNothing ==
    /\ taking = "match"
    /\ EntryOf(bufferMac) = {} \/ filling # {}
    /\ taking' = "no"
    /\ BufferLeft
    /\ UNCHANGED <<vars, rosterVars, scratchVars, ready, filling, matched, sending>>

MatchEntry(i) ==
    /\ taking = "match"
    /\ i \in EntryOf(bufferMac)
    /\ taking' = "copy"
    /\ matched' = i
    /\ UNCHANGED <<vars, rosterVars, scratchVars, bufferVars, sending>>

\* A page carries its rid as a number, and rids are numbered by each device:
\* another device's page may carry the number that entry i waits for.
Readings(i, reply) ==
    IF /\ reply.type = "page"
       /\ pending[i].paging
       /\ Target[reply.rid[1]] # Target[pending[i].rid[1]]
    THEN {reply, [reply EXCEPT !.rid = pending[i].rid]}
    ELSE {reply}

\* The content is copied and handled as the reply of the entry's device; the
\* report of it may keep the loop task in the send.
CopyFrame ==
    /\ taking = "copy"
    /\ \E m \in Readings(matched, buffer) : HandleReply(matched, m, air)
    /\ taking' = "no"
    /\ matched' = 0
    /\ sending' = (uplink' # uplink)
    /\ BufferLeft
    /\ UNCHANGED <<svc, choice, acking, afterNow, submitted, execs, rosterVars, scratchVars,
                   ready, filling>>

\* Mutant: the flag is cleared after the callback instead of before.
SendReturnsAndClears ==
    /\ sending
    /\ sending' = FALSE
    /\ ready' = FALSE
    /\ UNCHANGED <<vars, rosterVars, scratchVars, buffer, bufferMac, filling, taking, matched>>

SendReturns ==
    /\ sending
    /\ sending' = FALSE
    /\ UNCHANGED <<vars, rosterVars, scratchVars, bufferVars, taking, matched>>

-----------------------------------------------------------------------------
(***************************************************************************)
(* Acks, devices and time, as in CommandDispatcher.                        *)
(***************************************************************************)
Ack(m) ==
    /\ HeardFrom(m.dev)
    /\ FindAcked(m)
    /\ UNCHANGED <<reaps, scratchVars, bufferVars, takeVars>>

AckWritten(a) ==
    /\ MarkAcked(a)
    /\ UNCHANGED <<rosterVars, scratchVars, bufferVars, takeVars>>

DeviceAnswers(m) ==
    /\ Execute(m) \/ AnswerPageAsk(m)
    /\ UNCHANGED <<rosterVars, scratchVars, bufferVars, takeVars>>

TimePasses(i) ==
    /\ WaitRunsOut(i)
    /\ UNCHANGED <<rosterVars, scratchVars, bufferVars, takeVars>>

-----------------------------------------------------------------------------
PathInit ==
    /\ Init
    /\ slot = [d \in Devices |-> "none"]
    /\ reaps = 0
    /\ scratch = NoReply
    /\ partial = [d \in Devices |-> NoReply]
    /\ buffer = NoReply
    /\ bufferMac = NoRequest
    /\ ready = FALSE
    /\ filling = {}
    /\ taking = "no"
    /\ matched = 0
    /\ sending = FALSE

WifiTask ==
    \/ \E d \in Devices : Hello(d) \/ DataFrame(d) \/ LastFragment(d)
    \/ \E m \in Replies : FirstFragment(m) \/ OnlyFragment(m)
    \/ \E f \in filling : KeepMac(f) \/ RaiseFlag(f)
    \/ \E m \in air : Ack(m)
    \/ \E a \in acking : AckWritten(a)

LoopTask ==
    \/ \E d \in Devices : Reap(d)
    \/ \E r \in Requests : BackendCommand(r)
    \/ \E i \in Slots : MatchEntry(i)
    \/ DispatcherService \/ TakeFrame \/ MatchNothing \/ CopyFrame \/ SendReturns

Environment ==
    \/ \E m \in air : DeviceAnswers(m)
    \/ \E i \in Slots : TimePasses(i)

PathNext == WifiTask \/ LoopTask \/ Environment

PathSpec == PathInit /\ [][PathNext]_pathVars

-----------------------------------------------------------------------------
(***************************************************************************)
(* Properties.                                                             *)
(***************************************************************************)
AllReplies == [r \in Requests |-> Requests \X (0 .. MaxExecs)]

Delivery == INSTANCE CommandService
    WITH asked <- submitted, answers <- uplink, RepliesTo <- AllReplies,
         Confusable <- SameDevice, PagesOf <- ReplyPages, Errors <- ErrorMessages

\* Whatever the buffer hands to the dispatcher -- a reply twice, one with the
\* MAC of another, an overwritten one -- each request gets one answer, or the
\* pages 0, 1, 2, ... of one rid, and nothing after the end.  Whose answer it
\* is, is not promised; see AnswerFromOwnDevice.
OneAnswerEach == Delivery!Spec

\* "Can't happen in practice" (hub_command_roster_full): it does not as long as
\* no device with a command in flight is reaped, since there are as many
\* entries as slots; the dispatcher is not told of reaped devices.
FullOnlyAfterReap ==
    [][\A r \in Requests :
          uplink'[r] # uplink[r] /\ uplink'[r][Len(uplink'[r])].type = "hub_command_roster_full"
              => \E i \in Slots : Used(i) /\ slot[Device(i)] = "none"]_pathVars

\* A reply that is complete while the loop task is still in the blocking send
\* of the one before it is not thrown away: the flag goes down only when the
\* loop task, back from the send, turns to the buffer again.
NoReplyThrownAway ==
    [][ready /\ ~ready' => ~sending /\ taking' = "match" /\ buffer' = buffer]_pathVars
============================================================================
