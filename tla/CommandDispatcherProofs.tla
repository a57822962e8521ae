---------------------- MODULE CommandDispatcherProofs ----------------------
(***************************************************************************)
(* Theorems about CommandDispatcher, for every set of devices and requests *)
(* and every size of the pending table.                                    *)
(*                                                                         *)
(* The proofs do not go through the twenty actions once per property.  Two *)
(* summaries say what a step can do: JournalMove to the entries and to     *)
(* what the Backend was sent, RadioMove to the outbound burst and to the   *)
(* messages under way.  Each is proved of Next once, and the invariants    *)
(* follow from the summaries.                                              *)
(*                                                                         *)
(* The invariant has two parts.  DispatcherInv assumes nothing of the      *)
(* device a reply comes from, so that HubCommandPathProofs can use it,     *)
(* where a reply may be taken for another device's.  OwnInv adds that, on  *)
(* a radio that hands over each reply with its sender's MAC, they are not. *)
(***************************************************************************)
EXTENDS CommandDispatcher, SequenceTheorems, WellFoundedInduction, TLAPS

-----------------------------------------------------------------------------
(***************************************************************************)
(* DispatcherInv, first part: types.  TypeOK alone is not inductive: what  *)
(* an entry sends next and what a device answers are typed only because    *)
(* every message concerns some request, and what service() does to the     *)
(* entry it chose only because the entry is still there.                   *)
(***************************************************************************)
Commands == {m \in Messages : m.type \in {"command", "result_page"} /\ m.rid[1] \in Requests}
Answers == {m \in Messages : m.type \in {"ack", "plain", "page"} /\ m.rid[1] \in Requests}

SoundAir == air \subseteq Commands \cup Answers

SoundBurst == Busy => out.payload \in Commands

SoundPages == \A i \in Slots : Used(i) /\ pending[i].paging => pending[i].rid[1] \in Requests

Visiting ==
    choice # "look" =>
        /\ svc \in Slots /\ Used(svc)
        /\ choice = "resend" => pending[svc].attempts < MaxAttempts

WireInv == TypeOK /\ SoundAir /\ SoundBurst /\ SoundPages /\ Visiting

(***************************************************************************)
(* Second part: what the Backend has been sent for a request whose entry   *)
(* is still there, and for the others.                                     *)
(***************************************************************************)
AnyReply == Requests \X (0 .. MaxExecs)

\* r's journal holds the first n pages of reply rid, none of them its last.
OpenAt(r, rid, n) ==
    /\ Len(uplink[r]) = n
    /\ \A k \in 1 .. n :
          /\ uplink[r][k].type = "result_chunk"
          /\ uplink[r][k].chunk = k - 1
          /\ uplink[r][k].rid = rid
          /\ k < Pages[rid[1]]

\* The Backend has the pages before the one the entry waits for.
OpenJournal(i) ==
    /\ pending[i].req \in submitted
    /\ pending[i].paging <=> pending[i].next > 0
    /\ OpenAt(pending[i].req, pending[i].rid, pending[i].next)

OpenJournals == \A i \in Slots : Used(i) => OpenJournal(i)

NothingBeforeRequest == \A r \in Requests : r \notin submitted => uplink[r] = <<>>

ClosedResolved ==
    \A r \in submitted : (\E i \in Slots : pending[i].req = r) \/ Resolved(r)

AnswersSound ==
    \A r \in Requests : \A k \in 1 .. Len(uplink[r]) : uplink[r][k].rid \in AnyReply

JournalInv ==
    /\ OneCommandPerDevice
    /\ OpenJournals
    /\ NothingBeforeRequest
    /\ ClosedResolved
    /\ AnswersSound
    /\ AnswerWellFormed

DispatcherInv == WireInv /\ JournalInv

(***************************************************************************)
(* OwnInv: whatever is under way, pulled or reported concerns a request    *)
(* that was made, and one for that very device.                            *)
(***************************************************************************)
Own == {m \in Messages : m.rid[1] \in submitted /\ m.dev = Target[m.rid[1]]}

OwnReplies ==
    [r \in Requests |-> {p \in AnyReply : p[1] \in submitted /\ Target[p[1]] = Target[r]}]

OwnJournals ==
    \A r \in Requests : \A k \in 1 .. Len(uplink[r]) : uplink[r][k].rid \in OwnReplies[r]

OwnInv ==
    /\ air \subseteq Own
    /\ Busy => out.payload \in Own
    /\ \A i \in Slots : Used(i) /\ pending[i].paging => pending[i].rid \in OwnReplies[pending[i].req]
    /\ OwnJournals

-----------------------------------------------------------------------------
(***************************************************************************)
(* What a step does to the entries and to what the Backend was sent.       *)
(* R[r] are the replies that may be passed on as r's.                      *)
(***************************************************************************)
\* A request turned down at once; a free entry it had been put in is reset.
Refused ==
    \E r \in Requests \ submitted, type \in ErrorMessages :
        /\ submitted' = submitted \cup {r}
        /\ \/ pending' = pending
           \/ \E i \in Slots : ~Used(i) /\ pending' = [pending EXCEPT ![i] = PendingCommand]
        /\ Reject(r, type)

\* A request given a free entry; its device has no other one.
Accepted ==
    \E r \in Requests \ submitted, n \in {0, 1} :
        /\ EntryOf(Target[r]) = {}
        /\ FreeSlots # {}
        /\ submitted' = submitted \cup {r}
        /\ pending' = [pending EXCEPT ![FirstFree] = NewEntry(r, n)]
        /\ uplink' = uplink

\* An entry ended by an error of the Hub, or by a reply in one piece.
GivenUp ==
    \E i \in Slots, type \in ErrorMessages :
        /\ Used(i)
        /\ Finish(i, type, <<pending[i].req, 0>>)
        /\ submitted' = submitted

Answered(R) ==
    \E i \in Slots :
        /\ Used(i)
        /\ \E rid \in R[pending[i].req] : Finish(i, "result", rid)
        /\ submitted' = submitted

\* The expected page, forwarded: the entry goes on to the next one.
Paged(R) ==
    \E i \in Slots, m \in Answers, n \in {0, 1} :
        /\ Used(i)
        /\ m.rid \in R[pending[i].req]
        /\ ExpectedPage(i, m)
        /\ ~LastPage(m)
        /\ pending' = [pending EXCEPT ![i] = NextPage(i, m, n)]
        /\ Report(pending[i].req, "result_chunk", m.rid, m.chunk)
        /\ submitted' = submitted

PagedLast(R) ==
    \E i \in Slots, m \in Answers :
        /\ Used(i)
        /\ m.rid \in R[pending[i].req]
        /\ ExpectedPage(i, m)
        /\ LastPage(m)
        /\ pending' = [pending EXCEPT ![i] = PendingCommand]
        /\ Report(pending[i].req, "result_chunk", m.rid, m.chunk)
        /\ submitted' = submitted

\* Only the timing of entries: attempts, acked, elapsed.
Timed ==
    /\ pending' \in [Slots -> Entry]
    /\ \A i \in Slots :
          /\ pending'[i].req = pending[i].req
          /\ pending'[i].paging = pending[i].paging
          /\ pending'[i].rid = pending[i].rid
          /\ pending'[i].next = pending[i].next
    /\ UNCHANGED <<uplink, submitted>>

JournalMove(R) ==
    Refused \/ Accepted \/ GivenUp \/ Answered(R) \/ Paged(R) \/ PagedLast(R) \/ Timed

ToAnyone == [r \in Requests |-> AnyReply]

(***************************************************************************)
(* What a step does to the outbound burst and to the messages under way.   *)
(* S are the messages that may come to be under way.                       *)
(***************************************************************************)
\* The burst is left alone; devices may answer, and messages may go.
BurstKept(S) == out' = out /\ air' \subseteq air \cup (S \cap Answers)

BurstGoesOn == Busy /\ Send(out.payload, out.sent + 1, out.count, air)

NewCommandSent ==
    \E r \in Requests \ submitted :
        /\ ~Busy
        /\ r \in submitted'
        /\ Send(Msg("command", Target[r], <<r, 0>>, 0), 1, Frags[r], air)

EntrySent ==
    \E i \in Slots :
        /\ Used(i)
        /\ ChosenForResend(i)
        /\ ~Busy
        /\ Send(Payload(pending[i]), 1, FragCount(Payload(pending[i])), air)

PageAsked(S) ==
    \E p \in S \cap Commands, inAir \in SUBSET air :
        ~Busy /\ p.type = "result_page" /\ Send(p, 1, 1, inAir)

RadioMove(S) == BurstKept(S) \/ BurstGoesOn \/ NewCommandSent \/ EntrySent \/ PageAsked(S)

-----------------------------------------------------------------------------
(***************************************************************************)
(* The operators the actions are built from.                               *)
(***************************************************************************)
\* Building a message keeps its types.
LEMMA MsgTyped ==
    ASSUME NEW type \in {"command", "result_page", "ack", "plain", "page"}, NEW dev \in Devices,
           NEW rid \in Rids, NEW chunk \in Nat
    PROVE  LET m == Msg(type, dev, rid, chunk)
           IN  /\ m \in Messages
               /\ m.type = type /\ m.dev = dev /\ m.rid = rid /\ m.chunk = chunk
  BY DEF Msg, Messages

LEMMA ReplyTyped ==
    ASSUME NEW rid \in AnyReply
    PROVE  rid \in Rids /\ rid[1] \in Requests /\ Pages[rid[1]] \in Nat
  BY ConstantsAssumption DEF ConstantsAssumption, AnyReply, Rids

LEMMA HubRid ==
    ASSUME NEW r \in Requests
    PROVE  <<r, 0>> \in AnyReply /\ <<r, 0>> \in Rids
  BY ConstantsAssumption DEF ConstantsAssumption, AnyReply, Rids

LEMMA CommandTyped ==
    ASSUME NEW r \in Requests
    PROVE  LET m == Msg("command", Target[r], <<r, 0>>, 0)
           IN  m \in Commands /\ m.type = "command" /\ m.rid = <<r, 0>> /\ m.dev = Target[r]
  BY HubRid, MsgTyped, ConstantsAssumption DEF Commands, ConstantsAssumption

\* A message between Hub and device, and the reply it names.
LEMMA SoundMessage ==
    ASSUME NEW m \in Commands \cup Answers
    PROVE  /\ m \in Messages /\ m.dev \in Devices /\ m.rid \in AnyReply /\ m.rid \in Rids
           /\ m.rid[1] \in Requests /\ m.chunk \in Nat
<1>1. m \in Messages /\ m.rid[1] \in Requests
  BY DEF Commands, Answers
<1>. QED  BY <1>1 DEF Messages, AnyReply, Rids

LEMMA UsedEntry ==
    ASSUME WireInv, NEW i \in Slots, Used(i)
    PROVE  /\ pending[i] \in Entry /\ pending[i].req \in Requests
           /\ Device(i) \in Devices
           /\ pending[i].paging => pending[i].rid \in AnyReply
<1>1. pending[i] \in Entry /\ pending[i].req \in Requests
  BY DEF WireInv, TypeOK, Used, Entry
<1>2. Device(i) \in Devices
  BY <1>1, ConstantsAssumption DEF Device, ConstantsAssumption
<1>3. pending[i].paging => pending[i].rid \in AnyReply
  BY <1>1 DEF WireInv, SoundPages, Entry, Rids, AnyReply
<1>. QED  BY <1>1, <1>2, <1>3

\* What an entry sends is a command, or a page ask, for its own device.
LEMMA PayloadTyped ==
    ASSUME WireInv, NEW i \in Slots, Used(i)
    PROVE  /\ Payload(pending[i]) \in Commands
           /\ Payload(pending[i]).dev = Device(i)
           /\ pending[i].paging => /\ Payload(pending[i]).type = "result_page"
                                   /\ Payload(pending[i]).rid = pending[i].rid
           /\ ~pending[i].paging => Payload(pending[i]).rid = <<pending[i].req, 0>>
<1>1. pending[i] \in Entry /\ pending[i].req \in Requests /\ Device(i) \in Devices
  BY UsedEntry
<1>2. CASE pending[i].paging
  <2>1. pending[i].rid \in Rids /\ pending[i].rid[1] \in Requests /\ pending[i].next \in Nat
    BY <1>1, <1>2, UsedEntry, ReplyTyped DEF Entry
  <2>. QED  BY <1>1, <1>2, <2>1, MsgTyped DEF Payload, Commands, Device
<1>3. CASE ~pending[i].paging
  BY <1>1, <1>3, CommandTyped DEF Payload, Device
<1>. QED  BY <1>2, <1>3

\* A burst carries its payload to the air and nothing else.
LEMMA SendTyped ==
    ASSUME NEW p \in Commands, NEW sent \in Nat, NEW count \in Nat,
           NEW inAir, Send(p, sent, count, inAir)
    PROVE  /\ out' \in [payload : Payloads, sent : Nat, count : Nat]
           /\ (out'.sent < out'.count) => out'.payload = p
           /\ air' \subseteq inAir \cup {p}
<1>1. CASE sent < count
  BY <1>1 DEF Send, Commands, Messages, Payloads
<1>2. CASE ~(sent < count)
  BY <1>2, ConstantsAssumption DEF Send, NoBurst, Msg, Payloads, Rids, ConstantsAssumption
<1>. QED  BY <1>1, <1>2

\* A slot found free is one.
LEMMA FirstFreeFree ==
    ASSUME FreeSlots # {}
    PROVE  FirstFree \in Slots /\ ~Used(FirstFree)
<1> DEFINE Less == {p \in Nat \X Nat : p[1] < p[2]}
<1>1. IsWellFoundedOn(Less, Nat)
  BY NatLessThanWellFounded DEF OpToRel
<1>2. FreeSlots \subseteq Nat
  BY DEF FreeSlots, Slots
<1>3. \E i \in FreeSlots : \A j \in FreeSlots : <<j, i>> \notin Less
  <2> HIDE DEF Less
  <2>. QED  BY <1>1, <1>2, WFMin
<1>4. \E i \in FreeSlots : \A j \in FreeSlots : i <= j
  <2>1. \A i, j \in Nat : <<j, i>> \notin Less => i <= j
    <3>1. \A i, j \in Nat : j < i => <<j, i>> \in Less
      OBVIOUS
    <3>. QED  BY <3>1
  <2> HIDE DEF Less
  <2>. QED  BY <1>2, <1>3, <2>1
<1>. QED  BY <1>4 DEF FirstFree, FreeSlots

-----------------------------------------------------------------------------
(***************************************************************************)
(* The summaries hold of every step, action by action.                     *)
(***************************************************************************)
\* sendCommand(): a request is refused, or accepted into a free entry.
LEMMA SendCommandMoves ==
    ASSUME WireInv, NEW r \in Requests, NEW known \in BOOLEAN, SendCommandTo(r, known)
    PROVE  /\ Refused \/ Accepted
           /\ NewCommandSent \/ UNCHANGED <<out, air>>
<1>1. r \in Requests \ submitted /\ submitted' = submitted \cup {r}
  BY DEF SendCommandTo
<1>2. ASSUME NEW type \in ErrorMessages, Reject(r, type), pending' = pending
      PROVE  Refused
  BY <1>1, <1>2 DEF Refused
<1>3. ASSUME Acceptable(r), FreeSlots # {}, NEW n \in {0, 1}, UNCHANGED uplink,
             pending' = [pending EXCEPT ![FirstFree] = NewEntry(r, n)]
      PROVE  Accepted
  BY <1>1, <1>3 DEF Accepted, Acceptable
<1>4. CASE RejectUnknownDevice(r)
  BY <1>2, <1>4 DEF RejectUnknownDevice, ErrorMessages
<1>5. CASE RejectInFlight(r)
  BY <1>2, <1>5 DEF RejectInFlight, ErrorMessages
<1>6. CASE RejectRosterFull(r)
  BY <1>2, <1>6 DEF RejectRosterFull, ErrorMessages
<1>7. CASE AcceptAndSend(r)
  <2>1. Payload(NewEntry(r, 1)) = Msg("command", Target[r], <<r, 0>>, 0)
        /\ FragCount(Payload(NewEntry(r, 1))) = Frags[r]
    BY DEF Payload, NewEntry, PendingCommand, FragCount, Msg
  <2>2. NewCommandSent
    BY <1>1, <1>7, <2>1 DEF AcceptAndSend, Queue, NewCommandSent
  <2>. QED  BY <1>3, <1>7, <2>2 DEF AcceptAndSend
<1>8. CASE AcceptDeferred(r)
  BY <1>3, <1>8 DEF AcceptDeferred
<1>9. CASE RejectTooLarge(r)
  <2>1. FirstFree \in Slots /\ ~Used(FirstFree)
    BY <1>9, FirstFreeFree DEF RejectTooLarge
  <2>2. Reject(r, "command_too_large") /\ "command_too_large" \in ErrorMessages
        /\ pending' = [pending EXCEPT ![FirstFree] = PendingCommand]
    BY <1>9 DEF RejectTooLarge, ErrorMessages
  <2>3. Refused
    BY <1>1, <2>1, <2>2 DEF Refused
  <2>. QED  BY <1>9, <2>3 DEF RejectTooLarge
<1>. QED  BY <1>4, <1>5, <1>6, <1>7, <1>8, <1>9 DEF SendCommandTo

\* An entry that is changed in its timing only.
LEMMA EntryTimed ==
    ASSUME WireInv, NEW i \in Slots, UNCHANGED <<uplink, submitted>>,
           NEW e \in Entry, pending' = [pending EXCEPT ![i] = e],
           e.req = pending[i].req, e.paging = pending[i].paging,
           e.rid = pending[i].rid, e.next = pending[i].next
    PROVE  /\ Timed
           /\ pending'[i] = e
           /\ \A j \in Slots \ {i} : pending'[j] = pending[j]
<1>1. pending \in [Slots -> Entry]
  BY DEF WireInv, TypeOK
<1>2. pending' \in [Slots -> Entry] /\ pending'[i] = e
  BY <1>1
<1>3. \A j \in Slots \ {i} : pending'[j] = pending[j]
  BY <1>1
<1>. QED  BY <1>2, <1>3 DEF Timed

\* A step that leaves the entries alone.
LEMMA NothingTimed ==
    ASSUME WireInv, UNCHANGED <<pending, uplink, submitted>>
    PROVE  Timed
  BY DEF Timed, WireInv, TypeOK

\* service(): what is done with the entry it has chosen.
LEMMA ActMoves ==
    ASSUME WireInv, ActOnEntry
    PROVE  \/ GivenUp /\ UNCHANGED <<out, air>>
           \/ Timed /\ UNCHANGED <<out, air>>
           \/ Timed /\ EntrySent
<1>1. submitted' = submitted /\ svc # 0
  BY DEF ActOnEntry
<1>2. CASE Fail(svc)
  <2>1. svc \in Slots /\ Used(svc)
    BY <1>2 DEF Fail, WireInv, Visiting
  <2>2. PICK type \in ErrorMessages : Finish(svc, type, <<pending[svc].req, 0>>)
    BY <1>2 DEF Fail, ErrorMessages
  <2>. QED  BY <1>1, <1>2, <2>1, <2>2 DEF Fail, GivenUp
<1>3. CASE Resend(svc)
  <2>1. svc \in Slots /\ Used(svc) /\ pending[svc].attempts < MaxAttempts
    BY <1>3 DEF Resend, WireInv, Visiting
  <2>2. EntrySent
    BY <1>3, <2>1 DEF EntrySent, ChosenForResend, Resend, Queue
  <2> DEFINE el == pending[svc].acked /\ pending[svc].elapsed
             e == Resent(pending[svc])
  <2>3. pending[svc] \in Entry /\ el \in BOOLEAN
    BY <2>1, UsedEntry DEF Entry
  <2>4. e = [pending[svc] EXCEPT !.attempts = pending[svc].attempts + 1, !.elapsed = el]
    BY DEF Resent
  <2>5. pending[svc].attempts + 1 \in 0 .. MaxAttempts
    BY <2>1, <2>3, ConstantsAssumption DEF Entry, ConstantsAssumption
  <2>6. pending' = [pending EXCEPT ![svc] = e] /\ UNCHANGED <<uplink, submitted>>
    BY <1>1, <1>3 DEF Resend
  <2> HIDE DEF el, e
  <2>7. e \in Entry /\ e.req = pending[svc].req /\ e.paging = pending[svc].paging
        /\ e.rid = pending[svc].rid /\ e.next = pending[svc].next
    BY <2>3, <2>4, <2>5 DEF Entry
  <2>8. Timed
    BY <2>1, <2>6, <2>7, EntryTimed
  <2>. QED  BY <2>2, <2>8
<1>4. CASE BreakOff(svc)
  BY <1>1, <1>4, NothingTimed DEF BreakOff
<1>. QED  BY <1>2, <1>3, <1>4 DEF ActOnEntry

LEMMA ServiceMoves ==
    ASSUME WireInv, Service, NEW R, NEW S
    PROVE  JournalMove(R) /\ RadioMove(S)
<1>1. CASE Drain
  BY <1>1, NothingTimed DEF Drain, JournalMove, RadioMove, BurstGoesOn
<1>2. CASE BeginService \/ LookAtEntry
  BY <1>2, NothingTimed DEF BeginService, LookAtEntry, JournalMove, RadioMove, BurstKept
<1>3. CASE ActOnEntry
  BY <1>3, ActMoves DEF JournalMove, RadioMove, BurstKept
<1>. QED  BY <1>1, <1>2, <1>3 DEF Service

\* handleControlAck() touches only acked and elapsed.
LEMMA MarkAckedMoves ==
    ASSUME WireInv, NEW a \in acking, MarkAcked(a)
    PROVE  /\ Timed /\ UNCHANGED <<out, air>>
           /\ \A i \in Slots : /\ pending'[i].attempts = pending[i].attempts
                               /\ pending'[i].req = pending[i].req
<1>1. a.slot \in Slots /\ pending \in [Slots -> Entry]
  BY DEF WireInv, TypeOK
<1> DEFINE i == a.slot
           e == [pending[i] EXCEPT !.elapsed = FALSE, !.acked = TRUE]
<1>2. pending' = [pending EXCEPT ![i] = e] /\ UNCHANGED <<uplink, submitted, out, air>>
  BY <1>1 DEF MarkAcked
<1>3. /\ e \in Entry /\ e.req = pending[i].req /\ e.paging = pending[i].paging
      /\ e.rid = pending[i].rid /\ e.next = pending[i].next /\ e.attempts = pending[i].attempts
  BY <1>1 DEF Entry
<1> HIDE DEF i, e
<1>4. Timed /\ pending'[i] = e /\ \A j \in Slots \ {i} : pending'[j] = pending[j]
  BY <1>1, <1>2, <1>3, EntryTimed DEF i
<1>. QED  BY <1>2, <1>3, <1>4

\* A page that is forwarded: the ask for the next one goes to the same device.
LEMMA NextPageTyped ==
    ASSUME WireInv, NEW m \in Answers, NEW i \in Slots, Used(i), NEW n \in {0, 1}
    PROVE  LET e == NextPage(i, m, n) IN
           /\ e \in Entry
           /\ e.req = pending[i].req
           /\ e.paging
           /\ e.rid = m.rid
           /\ e.next = m.chunk + 1
           /\ Payload(e) = Msg("result_page", Device(i), m.rid, m.chunk + 1)
<1> DEFINE el == n = 0
<1>1. NextPage(i, m, n) = [pending[i] EXCEPT !.paging = TRUE, !.rid = m.rid,
                              !.next = m.chunk + 1, !.acked = FALSE,
                              !.attempts = n, !.elapsed = el]
  BY DEF NextPage
<1>2. el \in BOOLEAN /\ n \in 0 .. MaxAttempts /\ m.chunk + 1 \in Nat
  BY SoundMessage, ConstantsAssumption DEF ConstantsAssumption
<1>3. pending[i] \in Entry /\ m.rid \in Rids
  BY UsedEntry, SoundMessage
<1> HIDE DEF el
<1>4. /\ NextPage(i, m, n) \in Entry
      /\ NextPage(i, m, n).req = pending[i].req
      /\ NextPage(i, m, n).paging
      /\ NextPage(i, m, n).rid = m.rid
      /\ NextPage(i, m, n).next = m.chunk + 1
  BY <1>1, <1>2, <1>3 DEF Entry
<1>. QED  BY <1>4 DEF Payload, Device

\* handleControlResponse(), for a reply m that is handled as entry i's.
LEMMA HandleReplyMoves ==
    ASSUME WireInv, NEW m \in Answers, NEW i \in Slots, Used(i), NEW inAir \in SUBSET air,
           HandleReply(i, m, inAir), submitted' = submitted,
           NEW R, m.rid \in R[pending[i].req],
           NEW S, \A p \in Commands : p.dev = Device(i) /\ p.rid = m.rid => p \in S
    PROVE  JournalMove(R) /\ RadioMove(S)
<1>1. ASSUME out' = out, air' = inAir
      PROVE  RadioMove(S)
  BY <1>1 DEF BurstKept, RadioMove
<1>2. CASE Complete(i, m, inAir)
  BY <1>1, <1>2 DEF Complete, Answered, JournalMove
<1>3. CASE IgnorePage(i, m, inAir)
  BY <1>1, <1>3, NothingTimed DEF IgnorePage, JournalMove
<1>4. CASE ForwardPage(i, m, inAir)
  <2>1. Paged(R)
    BY <1>4 DEF ForwardPage, Paged
  <2>2. CASE Busy
    BY <1>1, <1>4, <2>1, <2>2 DEF ForwardPage, JournalMove
  <2>3. CASE ~Busy
    <3> DEFINE ask == Payload(NextPage(i, m, 1))
    <3>1. ask = Msg("result_page", Device(i), m.rid, m.chunk + 1)
      BY NextPageTyped
    <3>2. ask \in Commands /\ ask.type = "result_page" /\ ask.dev = Device(i) /\ ask.rid = m.rid
      BY <3>1, UsedEntry, SoundMessage, MsgTyped DEF Commands
    <3>3. Send(ask, 1, 1, inAir)
      BY <1>4, <2>3 DEF ForwardPage
    <3> HIDE DEF ask
    <3>4. PageAsked(S)
      BY <2>3, <3>2, <3>3 DEF PageAsked
    <3>. QED  BY <2>1, <3>4 DEF JournalMove, RadioMove
  <2>. QED  BY <2>2, <2>3
<1>5. CASE ForwardLastPage(i, m, inAir)
  BY <1>1, <1>5 DEF ForwardLastPage, PagedLast, JournalMove
<1>. QED  BY <1>2, <1>3, <1>4, <1>5 DEF HandleReply

\* The environment: a wait runs out, a device executes or pages.
LEMMA WaitMoves ==
    ASSUME WireInv, NEW i \in Slots, WaitRunsOut(i)
    PROVE  /\ Timed /\ UNCHANGED <<out, air>>
           /\ \A j \in Slots : /\ pending'[j].attempts = pending[j].attempts
                               /\ pending'[j].req = pending[j].req
<1>1. pending \in [Slots -> Entry] /\ UNCHANGED <<uplink, submitted, out, air>>
  BY DEF WireInv, TypeOK, WaitRunsOut
<1> DEFINE e == [pending[i] EXCEPT !.elapsed = TRUE]
<1>2. pending' = [pending EXCEPT ![i] = e]
  BY <1>1 DEF WaitRunsOut
<1>3. /\ e \in Entry /\ e.req = pending[i].req /\ e.paging = pending[i].paging
      /\ e.rid = pending[i].rid /\ e.next = pending[i].next /\ e.attempts = pending[i].attempts
  BY <1>1 DEF Entry
<1> HIDE DEF e
<1>4. Timed /\ pending'[i] = e /\ \A j \in Slots \ {i} : pending'[j] = pending[j]
  BY <1>1, <1>2, <1>3, EntryTimed
<1>. QED  BY <1>1, <1>3, <1>4

LEMMA ExecuteMoves ==
    ASSUME WireInv, NEW m \in air, Execute(m),
           NEW S, \A a \in Answers : a.dev = m.dev /\ a.rid[1] = m.rid[1] => a \in S
    PROVE  Timed /\ BurstKept(S) /\ execs' \in [Requests -> 0 .. MaxExecs]
<1> DEFINE r == m.rid[1]
           rid == <<r, execs[r] + 1>>
           reply == IF Pages[r] = 0 THEN "plain" ELSE "page"
<1>1. r \in Requests /\ m.dev \in Devices
  BY SoundMessage DEF WireInv, SoundAir
<1>2. execs[r] < MaxExecs /\ execs \in [Requests -> 0 .. MaxExecs]
  BY DEF Execute, WireInv, TypeOK
<1>3. execs[r] + 1 \in 0 .. MaxExecs
  BY <1>1, <1>2, ConstantsAssumption DEF ConstantsAssumption
<1>4. rid \in Rids /\ rid[1] = r
  BY <1>1, <1>3 DEF Rids
<1>5. Msg("ack", m.dev, rid, 0) \in S \cap Answers /\ Msg(reply, m.dev, rid, 0) \in S \cap Answers
  <2> HIDE DEF rid
  <2>. QED  BY <1>1, <1>4, MsgTyped DEF Answers
<1>6. air' = (air \ {m}) \cup {Msg("ack", m.dev, rid, 0), Msg(reply, m.dev, rid, 0)}
      /\ execs' = [execs EXCEPT ![r] = @ + 1] /\ UNCHANGED hubVars
  BY DEF Execute
<1>7. BurstKept(S)
  BY <1>5, <1>6 DEF BurstKept, hubVars
<1>8. Timed
  BY <1>6, NothingTimed DEF hubVars
<1>9. execs' \in [Requests -> 0 .. MaxExecs]
  BY <1>1, <1>2, <1>3, <1>6
<1>. QED  BY <1>7, <1>8, <1>9

LEMMA AnswerPageAskMoves ==
    ASSUME WireInv, NEW m \in air, AnswerPageAsk(m),
           NEW S, \A a \in Answers : a.dev = m.dev /\ a.rid[1] = m.rid[1] => a \in S
    PROVE  Timed /\ BurstKept(S)
<1>1. m.rid \in Rids /\ m.rid[1] \in Requests /\ m.dev \in Devices /\ m.chunk \in Nat
  BY SoundMessage DEF WireInv, SoundAir
<1>2. Msg("page", m.dev, m.rid, m.chunk) \in S \cap Answers
      /\ Msg("plain", m.dev, m.rid, 0) \in S \cap Answers
  BY <1>1, MsgTyped DEF Answers
<1>3. BurstKept(S)
  BY <1>2 DEF AnswerPageAsk, BurstKept, hubVars
<1>. QED  BY <1>3, NothingTimed DEF AnswerPageAsk, hubVars

\* What a step of the dispatcher does to the journal and on the radio.
LEMMA StepMoves ==
    ASSUME WireInv, [Next]_vars,
           NEW R, \A m \in air : \A i \in EntryOf(m.dev) : m.rid \in R[pending[i].req],
           NEW S, \A m \in air : \A a \in Commands \cup Answers :
                      a.dev = m.dev /\ a.rid[1] = m.rid[1] => a \in S
    PROVE  JournalMove(R) /\ RadioMove(S)
<1>1. ASSUME UNCHANGED <<out, air>>  PROVE RadioMove(S)
  BY <1>1 DEF RadioMove, BurstKept
<1>2. ASSUME NEW r \in Requests, SendCommand(r)
      PROVE  JournalMove(R) /\ RadioMove(S)
  BY <1>1, <1>2, SendCommandMoves DEF SendCommand, JournalMove, RadioMove
<1>3. CASE Service
  BY <1>3, ServiceMoves
<1>4. ASSUME NEW m \in air, FindAcked(m)
      PROVE  JournalMove(R) /\ RadioMove(S)
  BY <1>4, NothingTimed DEF FindAcked, JournalMove, RadioMove, BurstKept
<1>5. ASSUME NEW a \in acking, MarkAcked(a)
      PROVE  JournalMove(R) /\ RadioMove(S)
  BY <1>1, <1>5, MarkAckedMoves DEF JournalMove
<1>6. ASSUME NEW m \in air, ControlResponse(m)
      PROVE  JournalMove(R) /\ RadioMove(S)
  <2>1. m \in Answers /\ submitted' = submitted
    BY <1>6 DEF ControlResponse, WireInv, SoundAir, Commands, Answers
  <2>2. CASE DropResponse(m)
    BY <2>1, <2>2, NothingTimed DEF DropResponse, JournalMove, RadioMove, BurstKept
  <2>3. ASSUME NEW i \in EntryOf(m.dev), HandleReply(i, m, air \ Taken(m))
        PROVE  JournalMove(R) /\ RadioMove(S)
    <3>1. i \in Slots /\ Used(i) /\ Device(i) = m.dev /\ m.rid \in R[pending[i].req]
      BY <2>3 DEF EntryOf
    <3>2. \A p \in Commands : p.dev = Device(i) /\ p.rid = m.rid => p \in S
      BY <3>1
    <3>3. air \ Taken(m) \in SUBSET air
      OBVIOUS
    <3>. QED  BY <2>1, <2>3, <3>1, <3>2, <3>3, HandleReplyMoves
  <2>. QED  BY <1>6, <2>2, <2>3 DEF ControlResponse
<1>7. ASSUME NEW m \in air, Execute(m) \/ AnswerPageAsk(m)
      PROVE  JournalMove(R) /\ RadioMove(S)
  BY <1>7, ExecuteMoves, AnswerPageAskMoves DEF JournalMove, RadioMove
<1>8. ASSUME NEW i \in Slots, WaitRunsOut(i)
      PROVE  JournalMove(R) /\ RadioMove(S)
  BY <1>1, <1>8, WaitMoves DEF JournalMove
<1>9. CASE UNCHANGED vars
  BY <1>1, <1>9, NothingTimed DEF vars, hubVars, JournalMove
<1>. QED  BY <1>2, <1>3, <1>4, <1>5, <1>6, <1>7, <1>8, <1>9 DEF Next

-----------------------------------------------------------------------------
(***************************************************************************)
(* DispatcherInv, first part.                                              *)
(***************************************************************************)
\* A report is an append of a well typed message to one request's journal.
LEMMA ReportTyped ==
    ASSUME NEW r \in Requests, NEW type \in ErrorMessages \cup {"result", "result_chunk"},
           NEW rid \in Rids, NEW chunk \in Nat,
           uplink \in [Requests -> Seq(Reports)], Report(r, type, rid, chunk)
    PROVE  uplink' \in [Requests -> Seq(Reports)]
<1> DEFINE m == [type |-> type, rid |-> rid, chunk |-> chunk]
<1>1. m \in Reports
  BY DEF Reports
<1>2. Append(uplink[r], m) \in Seq(Reports)
  <2> HIDE DEF m
  <2>. QED  BY <1>1, AppendProperties
<1>. QED  BY <1>2 DEF Report

LEMMA DefaultEntry ==
    /\ PendingCommand \in Entry /\ ~PendingCommand.paging
    /\ PendingCommand.req = NoRequest /\ PendingCommand.next = 0
  BY ConstantsAssumption DEF PendingCommand, Entry, Rids, ConstantsAssumption

LEMMA NewEntryTyped ==
    ASSUME WireInv, FreeSlots # {}, NEW r \in Requests, NEW n \in {0, 1}
    PROVE  /\ NewEntry(r, n) \in Entry
           /\ NewEntry(r, n).req = r
           /\ ~NewEntry(r, n).paging
           /\ NewEntry(r, n).next = 0
<1> DEFINE ak == pending[FirstFree].acked
           el == n = 0 /\ ~pending[FirstFree].acked
<1>1. pending[FirstFree] \in Entry
  BY FirstFreeFree DEF WireInv, TypeOK
<1>2. ak \in BOOLEAN /\ el \in BOOLEAN /\ n \in 0 .. MaxAttempts
  BY <1>1, ConstantsAssumption DEF ConstantsAssumption, Entry
<1>3. NewEntry(r, n) = [PendingCommand EXCEPT !.req = r, !.attempts = n, !.acked = ak,
                                              !.elapsed = el]
  BY DEF NewEntry
<1> HIDE DEF ak, el
<1>. QED  BY <1>2, <1>3, DefaultEntry DEF Entry

LEMMA JournalTyped ==
    ASSUME WireInv, JournalMove(ToAnyone)
    PROVE  /\ pending' \in [Slots -> Entry]
           /\ submitted' \subseteq Requests /\ submitted \subseteq submitted'
           /\ uplink' \in [Requests -> Seq(Reports)]
           /\ SoundPages'
<1>1. /\ pending \in [Slots -> Entry] /\ submitted \subseteq Requests
      /\ uplink \in [Requests -> Seq(Reports)]
      /\ SoundPages
  BY DEF WireInv, TypeOK
<1>2. ASSUME NEW i \in Slots, pending' = [pending EXCEPT ![i] = PendingCommand]
      PROVE  pending' \in [Slots -> Entry] /\ SoundPages'
  BY <1>1, <1>2, DefaultEntry DEF SoundPages, Used
<1>3. CASE Refused
  <2>1. PICK r \in Requests \ submitted, type \in ErrorMessages :
            submitted' = submitted \cup {r} /\ Report(r, type, <<r, 0>>, 0)
    BY <1>3 DEF Refused, Reject
  <2>2. uplink' \in [Requests -> Seq(Reports)]
    BY <1>1, <2>1, HubRid, ReportTyped
  <2>3. pending' \in [Slots -> Entry] /\ SoundPages'
    BY <1>1, <1>2, <1>3 DEF Refused, SoundPages, Used
  <2>. QED  BY <1>1, <2>1, <2>2, <2>3
<1>4. CASE Accepted
  BY <1>1, <1>4, NewEntryTyped, FirstFreeFree DEF Accepted, SoundPages, Used
<1>5. CASE GivenUp
  <2>1. PICK i \in Slots, type \in ErrorMessages :
            Used(i) /\ Finish(i, type, <<pending[i].req, 0>>) /\ submitted' = submitted
    BY <1>5 DEF GivenUp
  <2>2. uplink' \in [Requests -> Seq(Reports)]
    BY <1>1, <2>1, UsedEntry, HubRid, ReportTyped DEF Finish
  <2>. QED  BY <1>1, <1>2, <2>1, <2>2 DEF Finish
<1>6. CASE Answered(ToAnyone)
  <2>1. PICK i \in Slots : Used(i) /\ (\E rid \in ToAnyone[pending[i].req] : Finish(i, "result", rid))
                           /\ submitted' = submitted
    BY <1>6 DEF Answered
  <2>2. PICK rid \in AnyReply : Finish(i, "result", rid)
    BY <2>1, UsedEntry DEF ToAnyone
  <2>3. uplink' \in [Requests -> Seq(Reports)]
    BY <1>1, <2>1, <2>2, UsedEntry, ReplyTyped, ReportTyped DEF Finish
  <2>. QED  BY <1>1, <1>2, <2>1, <2>2, <2>3 DEF Finish
<1>7. CASE Paged(ToAnyone)
  <2>1. PICK i \in Slots, m \in Answers, n \in {0, 1} :
            /\ Used(i)
            /\ pending' = [pending EXCEPT ![i] = NextPage(i, m, n)]
            /\ Report(pending[i].req, "result_chunk", m.rid, m.chunk)
            /\ submitted' = submitted
    BY <1>7 DEF Paged
  <2>2. uplink' \in [Requests -> Seq(Reports)]
    BY <1>1, <2>1, UsedEntry, SoundMessage, ReportTyped
  <2>3. NextPage(i, m, n) \in Entry /\ NextPage(i, m, n).rid[1] \in Requests
    BY <2>1, NextPageTyped, SoundMessage
  <2>. QED  BY <1>1, <2>1, <2>2, <2>3 DEF SoundPages, Used
<1>8. CASE PagedLast(ToAnyone)
  <2>1. PICK i \in Slots, m \in Answers :
            /\ Used(i)
            /\ pending' = [pending EXCEPT ![i] = PendingCommand]
            /\ Report(pending[i].req, "result_chunk", m.rid, m.chunk)
            /\ submitted' = submitted
    BY <1>8 DEF PagedLast
  <2>2. uplink' \in [Requests -> Seq(Reports)]
    BY <1>1, <2>1, UsedEntry, SoundMessage, ReportTyped
  <2>. QED  BY <1>1, <1>2, <2>1, <2>2
<1>9. CASE Timed
  BY <1>1, <1>9 DEF Timed, SoundPages, Used
<1>. QED  BY <1>3, <1>4, <1>5, <1>6, <1>7, <1>8, <1>9 DEF JournalMove

LEMMA RadioTyped ==
    ASSUME WireInv, NEW S, RadioMove(S)
    PROVE  /\ out' \in [payload : Payloads, sent : Nat, count : Nat]
           /\ SoundBurst'
           /\ air' \subseteq Messages
           /\ SoundAir'
<1>1. /\ out \in [payload : Payloads, sent : Nat, count : Nat]
      /\ SoundBurst /\ SoundAir
  BY DEF WireInv, TypeOK
<1>2. Commands \cup Answers \subseteq Messages
  BY DEF Commands, Answers
<1>3. ASSUME NEW p \in Commands, NEW sent \in Nat, NEW count \in Nat,
             NEW inAir \in SUBSET air, Send(p, sent, count, inAir)
      PROVE  /\ out' \in [payload : Payloads, sent : Nat, count : Nat]
             /\ SoundBurst' /\ SoundAir'
  BY <1>1, <1>3, SendTyped DEF SoundBurst, SoundAir, Busy
<1>4. ASSUME NEW p \in Commands
      PROVE  FragCount(p) \in Nat
  BY ConstantsAssumption DEF FragCount, Commands, ConstantsAssumption
<1>5. CASE BurstKept(S)
  BY <1>1, <1>2, <1>5 DEF BurstKept, SoundBurst, SoundAir, Busy
<1>6. CASE BurstGoesOn
  BY <1>1, <1>2, <1>3, <1>6 DEF BurstGoesOn, SoundBurst, SoundAir
<1>7. CASE NewCommandSent
  <2>1. PICK r \in Requests : Send(Msg("command", Target[r], <<r, 0>>, 0), 1, Frags[r], air)
    BY <1>7 DEF NewCommandSent
  <2>2. Msg("command", Target[r], <<r, 0>>, 0) \in Commands /\ Frags[r] \in Nat
    BY CommandTyped, ConstantsAssumption DEF ConstantsAssumption
  <2>. QED  BY <1>2, <1>3, <2>1, <2>2 DEF SoundAir
<1>8. CASE EntrySent
  <2>1. PICK i \in Slots :
             Used(i) /\ Send(Payload(pending[i]), 1, FragCount(Payload(pending[i])), air)
    BY <1>8 DEF EntrySent
  <2>2. Payload(pending[i]) \in Commands
    BY <2>1, PayloadTyped
  <2>. QED  BY <1>2, <1>3, <1>4, <2>1, <2>2 DEF SoundAir
<1>9. CASE PageAsked(S)
  BY <1>2, <1>3, <1>9 DEF PageAsked, SoundAir
<1>. QED  BY <1>5, <1>6, <1>7, <1>8, <1>9 DEF RadioMove

(***************************************************************************)
(* The rest: where service() and handleControlAck() are, and executions.   *)
(***************************************************************************)
CursorInv ==
    /\ svc \in 0 .. MaxPending
    /\ choice \in {"look", "unanswered", "undelivered", "resend"}
    /\ acking \subseteq [slot : Slots, rid : Rids]
    /\ afterNow \subseteq Slots
    /\ execs \in [Requests -> 0 .. MaxExecs]
    /\ Visiting

LEMMA CursorNow == WireInv => CursorInv
  BY DEF WireInv, TypeOK, CursorInv

LEMMA GoToTyped ==
    ASSUME NEW i \in Nat, GoTo(i), WireInv, acking' = acking, execs' = execs
    PROVE  CursorInv'
<1>1. svc' \in 0 .. MaxPending /\ afterNow' \subseteq Slots
  BY ConstantsAssumption DEF GoTo, ConstantsAssumption, WireInv, TypeOK
<1>2. choice' = "look"
  BY DEF GoTo
<1>. QED  BY <1>1, <1>2 DEF WireInv, TypeOK, CursorInv, Visiting

LEMMA ServiceCursor ==
    ASSUME WireInv, Service
    PROVE  CursorInv'
<1>1. svc \in 0 .. MaxPending /\ svc + 1 \in Nat
  BY ConstantsAssumption DEF WireInv, TypeOK, ConstantsAssumption
<1>2. CASE Drain
  BY <1>2, GoToTyped DEF Drain
<1>3. CASE BeginService
  BY <1>3, GoToTyped DEF BeginService
<1>4. CASE LookAtEntry
  <2>1. CASE SkipEntry(svc)
    BY <1>1, <1>4, <2>1, GoToTyped DEF LookAtEntry, SkipEntry
  <2>2. CASE ChooseFor(svc)
    <3>1. svc \in Slots /\ Used(svc) /\ svc' = svc /\ pending' = pending
          /\ choice' \in {"unanswered", "undelivered", "resend"}
      BY <1>1, <1>4, <2>2, ConstantsAssumption
      DEF LookAtEntry, ChooseFor, Unanswered, Undelivered, Due, Slots, ConstantsAssumption
    <3>2. choice' = "resend" => pending[svc].attempts < MaxAttempts
      <4>1. pending[svc].attempts \in Nat
        BY <3>1, UsedEntry, ConstantsAssumption DEF Entry, ConstantsAssumption
      <4>2. choice' = "resend" => ~Exhausted(svc)
        BY <2>2 DEF ChooseFor, Due
      <4>. QED  BY <4>1, <4>2, ConstantsAssumption DEF Exhausted, ConstantsAssumption
    <3>3. acking' = acking /\ execs' = execs /\ afterNow' = afterNow
      BY <1>4, <2>2 DEF LookAtEntry, ChooseFor
    <3>4. Visiting'
      BY <3>1, <3>2 DEF Visiting, Used
    <3>. QED  BY <3>1, <3>3, <3>4, CursorNow DEF CursorInv
  <2>. QED  BY <1>4, <2>1, <2>2 DEF LookAtEntry
<1>5. CASE ActOnEntry
  <2>1. acking' = acking /\ execs' = execs
    BY <1>5 DEF ActOnEntry
  <2>2. GoTo(svc + 1) \/ GoTo(0)
    BY <1>5 DEF ActOnEntry, Fail, Resend, BreakOff
  <2>. QED  BY <1>1, <2>1, <2>2, GoToTyped
<1>. QED  BY <1>2, <1>3, <1>4, <1>5 DEF Service

\* A step of the other actors: the entry that was chosen is left as it is.
LEMMA CursorKept ==
    ASSUME WireInv, svc' = svc, choice' = choice,
           \A i \in Slots : /\ pending'[i].attempts = pending[i].attempts
                            /\ pending'[i].req = pending[i].req,
           acking' \subseteq [slot : Slots, rid : Rids],
           afterNow' \subseteq Slots,
           execs' \in [Requests -> 0 .. MaxExecs]
    PROVE  CursorInv'
<1>1. Visiting'
  BY DEF WireInv, Visiting, Used
<1>. QED  BY <1>1, CursorNow DEF CursorInv

\* A step of the loop task outside service() leaves nothing chosen.
LEMMA CursorIdle ==
    ASSUME WireInv, svc = 0, UNCHANGED <<svc, choice, acking, afterNow, execs>>
    PROVE  CursorInv'
<1>1. choice = "look"
  BY DEF WireInv, Visiting, Slots
<1>2. Visiting'
  BY <1>1 DEF Visiting
<1>. QED  BY <1>2, CursorNow DEF CursorInv

\* handleControlAck().
LEMMA AckCursor ==
    ASSUME WireInv,
           \/ \E m \in air : FindAcked(m)
           \/ \E a \in acking : MarkAcked(a)
    PROVE  CursorInv'
<1>1. /\ acking \subseteq [slot : Slots, rid : Rids] /\ afterNow \subseteq Slots
      /\ execs \in [Requests -> 0 .. MaxExecs]
  BY DEF WireInv, TypeOK
<1>2. ASSUME NEW m \in air, FindAcked(m)
      PROVE  CursorInv'
  <2>1. m.rid \in Rids
    BY SoundMessage DEF WireInv, SoundAir
  <2>2. acking' \subseteq [slot : Slots, rid : Rids]
    BY <1>2, <2>1 DEF FindAcked, EntryOf
  <2>. QED  BY <1>1, <1>2, <2>2, CursorKept DEF FindAcked
<1>3. ASSUME NEW a \in acking, MarkAcked(a)
      PROVE  CursorInv'
  <2>1. a.slot \in Slots
    BY <1>1
  <2>2. afterNow' \subseteq Slots /\ acking' = {}
    BY <1>1, <1>3, <2>1 DEF MarkAcked
  <2>. QED  BY <1>1, <1>3, <2>2, MarkAckedMoves, CursorKept DEF MarkAcked
<1>. QED  BY <1>2, <1>3

LEMMA StepCursor ==
    ASSUME WireInv, [Next]_vars
    PROVE  CursorInv'
<1>1. /\ acking \subseteq [slot : Slots, rid : Rids] /\ afterNow \subseteq Slots
      /\ execs \in [Requests -> 0 .. MaxExecs]
  BY DEF WireInv, TypeOK
<1>2. ASSUME NEW r \in Requests, SendCommand(r)
      PROVE  CursorInv'
  BY <1>2, CursorIdle DEF SendCommand, SendCommandTo
<1>3. ASSUME NEW m \in air, ControlResponse(m)
      PROVE  CursorInv'
  BY <1>3, CursorIdle DEF ControlResponse
<1>4. ASSUME NEW m \in air, Execute(m)
      PROVE  CursorInv'
  <2>1. execs' \in [Requests -> 0 .. MaxExecs]
    <3>1. \A a \in Answers : a.dev = m.dev /\ a.rid[1] = m.rid[1] => a \in Messages
      BY SoundMessage
    <3>. QED  BY <1>4, <3>1, ExecuteMoves
  <2>. QED  BY <1>1, <1>4, <2>1, CursorKept DEF Execute, hubVars
<1>5. ASSUME NEW m \in air, AnswerPageAsk(m)
      PROVE  CursorInv'
  BY <1>1, <1>5, CursorKept DEF AnswerPageAsk, hubVars
<1>6. ASSUME NEW i \in Slots, WaitRunsOut(i)
      PROVE  CursorInv'
  BY <1>1, <1>6, WaitMoves, CursorKept DEF WaitRunsOut
<1>7. CASE UNCHANGED vars
  BY <1>1, <1>7, CursorKept DEF vars, hubVars
<1>. QED  BY <1>2, <1>3, <1>4, <1>5, <1>6, <1>7, ServiceCursor, AckCursor DEF Next

\* The three together.
LEMMA WireMoves ==
    ASSUME WireInv, JournalMove(ToAnyone), NEW S, RadioMove(S), CursorInv'
    PROVE  WireInv'
<1>1. TypeOK'
  BY JournalTyped, RadioTyped DEF TypeOK, CursorInv
<1>. QED  BY <1>1, JournalTyped, RadioTyped DEF WireInv, CursorInv

LEMMA AnyoneMoves ==
    ASSUME WireInv, [Next]_vars
    PROVE  JournalMove(ToAnyone) /\ RadioMove(Messages)
<1>1. \A m \in air : \A i \in EntryOf(m.dev) : m.rid \in ToAnyone[pending[i].req]
  BY UsedEntry, SoundMessage DEF EntryOf, WireInv, SoundAir, ToAnyone
<1>2. \A m \in air : \A a \in Commands \cup Answers :
          a.dev = m.dev /\ a.rid[1] = m.rid[1] => a \in Messages
  BY SoundMessage
<1>. QED  BY <1>1, <1>2, StepMoves

LEMMA WireInit == Init => WireInv
<1> SUFFICES ASSUME Init PROVE WireInv
  OBVIOUS
<1>1. pending \in [Slots -> Entry]
  BY DefaultEntry DEF Init
<1>2. out \in [payload : Payloads, sent : Nat, count : Nat]
  BY ConstantsAssumption DEF Init, Msg, Payloads, Rids, ConstantsAssumption
<1>3. uplink \in [Requests -> Seq(Reports)]
  BY EmptySeq DEF Init
<1>4. svc \in 0 .. MaxPending /\ execs \in [Requests -> 0 .. MaxExecs]
  BY ConstantsAssumption DEF Init, ConstantsAssumption
<1>5. TypeOK
  BY <1>1, <1>2, <1>3, <1>4 DEF Init, TypeOK
<1>6. SoundAir /\ SoundBurst /\ SoundPages /\ Visiting
  BY DefaultEntry DEF Init, SoundAir, SoundBurst, SoundPages, Visiting, Busy, Used
<1>. QED  BY <1>5, <1>6 DEF WireInv

LEMMA WireStep == WireInv /\ [Next]_vars => WireInv'
  BY AnyoneMoves, StepCursor, WireMoves

LEMMA WireAlways == Spec => []WireInv
  BY WireInit, WireStep, PTL DEF Spec

\* However acks, answers, resends and timeouts interleave, every entry,
\* message, burst and report keeps its form, and the attempts their budget.
THEOREM DispatcherTyped == Spec => []TypeOK
<1>1. WireInv => TypeOK
  BY DEF WireInv
<1>. QED  BY <1>1, WireAlways, PTL

-----------------------------------------------------------------------------
(***************************************************************************)
(* DispatcherInv, second part.                                             *)
(***************************************************************************)
WellFormed(r) ==
    \A k \in 1 .. Len(uplink[r]) :
        /\ Terminal(uplink[r][k]) => k = Len(uplink[r])
        /\ uplink[r][k].type = "result_chunk" =>
               uplink[r][k].chunk = k - 1 /\ uplink[r][k].rid = uplink[r][1].rid

LEMMA WellFormedEach == AnswerWellFormed <=> \A r \in Requests : WellFormed(r)
  BY DEF AnswerWellFormed, WellFormed

\* Two entries are never for the same request.
LEMMA OneEntryPerRequest ==
    ASSUME OneCommandPerDevice, NEW i \in Slots, NEW j \in Slots, Used(i), Used(j),
           pending[i].req = pending[j].req
    PROVE  i = j
  BY DEF OneCommandPerDevice, Device

\* A report appends one message to one journal.
LEMMA ReportAppends ==
    ASSUME WireInv, NEW r \in Requests,
           NEW type \in ErrorMessages \cup {"result", "result_chunk"},
           NEW rid \in Rids, NEW chunk \in Nat, Report(r, type, rid, chunk)
    PROVE  /\ Len(uplink[r]) \in Nat
           /\ Len(uplink'[r]) = Len(uplink[r]) + 1
           /\ \A k \in 1 .. Len(uplink[r]) : uplink'[r][k] = uplink[r][k]
           /\ uplink'[r][Len(uplink[r]) + 1].type = type
           /\ uplink'[r][Len(uplink[r]) + 1].rid = rid
           /\ uplink'[r][Len(uplink[r]) + 1].chunk = chunk
           /\ \A q \in Requests \ {r} : uplink'[q] = uplink[q]
<1> DEFINE m == [type |-> type, rid |-> rid, chunk |-> chunk]
<1>1. uplink[r] \in Seq(Reports) /\ uplink \in [Requests -> Seq(Reports)]
  BY DEF WireInv, TypeOK
<1>2. m \in Reports /\ m.type = type /\ m.rid = rid /\ m.chunk = chunk
  BY DEF Reports
<1>3. uplink' = [uplink EXCEPT ![r] = Append(uplink[r], m)]
  BY <1>1 DEF Report
<1> HIDE DEF m
<1>4. uplink'[r] = Append(uplink[r], m) /\ \A q \in Requests \ {r} : uplink'[q] = uplink[q]
  BY <1>1, <1>3
<1>5. Len(uplink[r]) \in Nat
  BY <1>1, LenProperties
<1>. QED  BY <1>1, <1>2, <1>4, <1>5, AppendProperties

\* Appending to an open journal: an end resolves the request, the next page
\* leaves the journal open, and both keep it well formed.
LEMMA AppendToOpen ==
    ASSUME WireInv, NEW r \in Requests, NEW old, NEW n \in Nat, OpenAt(r, old, n),
           NEW type \in ErrorMessages \cup {"result", "result_chunk"},
           NEW rid \in AnyReply, NEW chunk \in Nat, Report(r, type, rid, chunk),
           type = "result_chunk" => chunk = n /\ (n > 0 => rid = old),
           n > 0 => old \in AnyReply
    PROVE  /\ WellFormed(r)'
           /\ type # "result_chunk" \/ chunk + 1 >= Pages[rid[1]] => Resolved(r)'
           /\ type = "result_chunk" /\ chunk + 1 < Pages[rid[1]] => OpenAt(r, rid, n + 1)'
<1>1. rid \in Rids /\ rid[1] \in Requests /\ Pages[rid[1]] \in Nat
  BY ReplyTyped
<1>2. n > 0 => old[1] \in Requests /\ Pages[old[1]] \in Nat
  BY ReplyTyped
<1>3. /\ Len(uplink[r]) = n
      /\ \A k \in 1 .. n :
            /\ uplink[r][k].type = "result_chunk"
            /\ uplink[r][k].chunk = k - 1
            /\ uplink[r][k].rid = old
            /\ k < Pages[old[1]]
  BY DEF OpenAt
<1>4. /\ Len(uplink'[r]) = n + 1
      /\ \A k \in 1 .. n : uplink'[r][k] = uplink[r][k]
      /\ uplink'[r][n + 1].type = type
      /\ uplink'[r][n + 1].rid = rid
      /\ uplink'[r][n + 1].chunk = chunk
  <2>1. Len(uplink[r]) = n
    BY <1>3
  <2>. QED  BY <1>1, <2>1, ReportAppends
<1>5. ASSUME NEW k \in 1 .. n
      PROVE  ~Terminal(uplink'[r][k])
  <2> DEFINE m == uplink'[r][k]
  <2>1. m.type = "result_chunk" /\ m.chunk = k - 1 /\ m.rid = old /\ k < Pages[old[1]]
    BY <1>3, <1>4
  <2>2. Pages[old[1]] \in Nat
    BY <1>2
  <2> HIDE DEF m
  <2>3. ~Terminal(m)
    BY <2>1, <2>2 DEF Terminal
  <2>. QED  BY <2>3 DEF m
<1>6. WellFormed(r)'
  <2> SUFFICES ASSUME NEW k \in 1 .. (n + 1)
               PROVE  /\ Terminal(uplink'[r][k]) => k = n + 1
                      /\ uplink'[r][k].type = "result_chunk" =>
                             /\ uplink'[r][k].chunk = k - 1
                             /\ uplink'[r][k].rid = uplink'[r][1].rid
    BY <1>4 DEF WellFormed, Terminal
  <2>1. CASE k \in 1 .. n
    <3>1. uplink'[r][k].chunk = k - 1 /\ uplink'[r][k].rid = old
      BY <1>3, <1>4, <2>1
    <3>2. 1 \in 1 .. n
      BY <2>1
    <3>3. uplink'[r][1].rid = old
      BY <1>3, <1>4, <3>2
    <3>4. ~Terminal(uplink'[r][k])
      BY <1>5, <2>1
    <3>. QED  BY <3>1, <3>3, <3>4
  <2>2. CASE k = n + 1
    <3>1. n > 0 => uplink'[r][1].rid = old
      <4>1. n > 0 => 1 \in 1 .. n
        OBVIOUS
      <4>. QED  BY <1>3, <1>4, <4>1
    <3>2. n = 0 => uplink'[r][1].rid = rid
      BY <1>4
    <3>. QED  BY <1>4, <2>2, <3>1, <3>2
  <2>. QED  BY <2>1, <2>2
<1>7. type # "result_chunk" \/ chunk + 1 >= Pages[rid[1]] => Resolved(r)'
  BY <1>4 DEF Resolved, Terminal
<1>8. type = "result_chunk" /\ chunk + 1 < Pages[rid[1]] => OpenAt(r, rid, n + 1)'
  <2> SUFFICES ASSUME type = "result_chunk", chunk + 1 < Pages[rid[1]]
               PROVE  OpenAt(r, rid, n + 1)'
    OBVIOUS
  <2>1. ASSUME NEW k \in 1 .. (n + 1)
        PROVE  /\ uplink'[r][k].type = "result_chunk"
               /\ uplink'[r][k].chunk = k - 1
               /\ uplink'[r][k].rid = rid
               /\ k < Pages[rid[1]]
    <3>1. CASE k \in 1 .. n
      <4>1. uplink'[r][k] = uplink[r][k] /\ old = rid
        BY <1>4, <3>1
      <4>2. /\ uplink[r][k].type = "result_chunk" /\ uplink[r][k].chunk = k - 1
            /\ uplink[r][k].rid = old /\ k < Pages[old[1]]
        BY <1>3, <3>1
      <4>. QED  BY <4>1, <4>2, Zenon
    <3>2. CASE k = n + 1
      BY <1>1, <1>4, <3>2
    <3>. QED  BY <3>1, <3>2
  <2>. QED  BY <1>4, <2>1 DEF OpenAt
<1>. QED  BY <1>6, <1>7, <1>8

\* A journal that is not touched stays what it was.
LEMMA JournalKept ==
    ASSUME NEW r \in Requests, uplink'[r] = uplink[r]
    PROVE  /\ WellFormed(r) => WellFormed(r)'
           /\ Resolved(r) => Resolved(r)'
           /\ \A rid, n : OpenAt(r, rid, n) => OpenAt(r, rid, n)'
<1>1. WellFormed(r) => WellFormed(r)'
  BY DEF WellFormed, Terminal
<1>2. Resolved(r) => Resolved(r)'
  BY DEF Resolved, Terminal
<1>3. \A rid, n : OpenAt(r, rid, n) => OpenAt(r, rid, n)'
  BY DEF OpenAt
<1>. QED  BY <1>1, <1>2, <1>3

\* What holds of all journals once it holds of the one that was added to.
LEMMA AllJournals ==
    ASSUME DispatcherInv, NEW r \in Requests, r \in submitted', submitted \subseteq submitted',
           NEW type \in ErrorMessages \cup {"result", "result_chunk"},
           NEW rid \in AnyReply, NEW chunk \in Nat, Report(r, type, rid, chunk),
           WellFormed(r)'
    PROVE  (NothingBeforeRequest /\ AnswersSound /\ AnswerWellFormed)'
<1>1. rid \in Rids /\ WireInv
  BY ReplyTyped DEF DispatcherInv
<1>2. /\ Len(uplink[r]) \in Nat
      /\ Len(uplink'[r]) = Len(uplink[r]) + 1
      /\ \A k \in 1 .. Len(uplink[r]) : uplink'[r][k] = uplink[r][k]
      /\ uplink'[r][Len(uplink[r]) + 1].rid = rid
      /\ \A q \in Requests \ {r} : uplink'[q] = uplink[q]
  <2>. HIDE DEF Report, ErrorMessages
  <2>1. /\ Len(uplink[r]) \in Nat
        /\ Len(uplink'[r]) = Len(uplink[r]) + 1
        /\ \A k \in 1 .. Len(uplink[r]) : uplink'[r][k] = uplink[r][k]
        /\ uplink'[r][Len(uplink[r]) + 1].type = type
        /\ uplink'[r][Len(uplink[r]) + 1].rid = rid
        /\ uplink'[r][Len(uplink[r]) + 1].chunk = chunk
        /\ \A q \in Requests \ {r} : uplink'[q] = uplink[q]
    BY <1>1, ReportAppends
  <2>. QED  BY <2>1, Zenon
<1>3. NothingBeforeRequest'
  BY <1>2 DEF NothingBeforeRequest, DispatcherInv, JournalInv
<1>4. \A k \in 1 .. Len(uplink'[r]) : uplink'[r][k].rid \in AnyReply
  <2>1. \A k \in 1 .. Len(uplink[r]) : uplink[r][k].rid \in AnyReply
    BY DEF AnswersSound, DispatcherInv, JournalInv
  <2>2. SUFFICES ASSUME NEW k \in 1 .. Len(uplink'[r])
                 PROVE  uplink'[r][k].rid \in AnyReply
    OBVIOUS
  <2>3. CASE k = Len(uplink[r]) + 1
    BY <1>2, <2>3
  <2>4. CASE k # Len(uplink[r]) + 1
    <3>1. k \in 1 .. Len(uplink[r])
      BY <1>2, <2>4
    <3>. QED  BY <1>2, <2>1, <3>1
  <2>. QED  BY <2>3, <2>4
<1>5. AnswersSound'
  <2> SUFFICES ASSUME NEW q \in Requests, NEW k \in 1 .. Len(uplink'[q])
               PROVE  uplink'[q][k].rid \in AnyReply
    BY DEF AnswersSound
  <2>1. CASE q = r
    BY <1>4, <2>1
  <2>2. CASE q # r
    BY <1>2, <2>2 DEF AnswersSound, DispatcherInv, JournalInv
  <2>. QED  BY <2>1, <2>2
<1>6. \A q \in Requests : WellFormed(q)'
  BY <1>2, JournalKept, WellFormedEach DEF DispatcherInv, JournalInv
<1>7. AnswerWellFormed'
  BY <1>6 DEF AnswerWellFormed, WellFormed, Terminal
<1>. QED  BY <1>3, <1>5, <1>7

\* An entry that is not touched, while its journal is not touched.
LEMMA EntryKept ==
    ASSUME DispatcherInv, NEW j \in Slots, Used(j), submitted \subseteq submitted',
           uplink'[pending[j].req] = uplink[pending[j].req],
           pending'[j].req = pending[j].req, pending'[j].paging = pending[j].paging,
           pending'[j].rid = pending[j].rid, pending'[j].next = pending[j].next
    PROVE  OpenJournal(j)'
<1>1. OpenJournal(j)
  BY DEF DispatcherInv, JournalInv, OpenJournals
<1>. QED  BY <1>1 DEF OpenJournal, OpenAt

\* The journal of an entry, as far as it goes.
LEMMA EntryJournal ==
    ASSUME DispatcherInv, NEW i \in Slots, Used(i)
    PROVE  LET e == pending[i]
           IN  /\ e.req \in Requests /\ e.req \in submitted
               /\ e.next \in Nat
               /\ OpenAt(e.req, e.rid, e.next)
               /\ e.paging <=> e.next > 0
               /\ e.next > 0 => e.rid \in AnyReply
<1>1. /\ pending[i] \in Entry /\ pending[i].req \in Requests
      /\ pending[i].paging => pending[i].rid \in AnyReply
  BY UsedEntry DEF DispatcherInv
<1>2. OpenJournal(i)
  BY DEF DispatcherInv, JournalInv, OpenJournals
<1>. QED  BY <1>1, <1>2 DEF OpenJournal, Entry

LEMMA RefusedJournal ==
    ASSUME DispatcherInv, Refused
    PROVE  JournalInv'
<1>1. PICK r \in Requests \ submitted, type \in ErrorMessages :
          submitted' = submitted \cup {r} /\ Report(r, type, <<r, 0>>, 0)
  BY DEF Refused, Reject
<1>2. OpenAt(r, <<r, 0>>, 0)
  BY <1>1 DEF OpenAt, DispatcherInv, JournalInv, NothingBeforeRequest
<1>3. type \in ErrorMessages \cup {"result", "result_chunk"} /\ type # "result_chunk"
  BY <1>1 DEF ErrorMessages
<1>4. <<r, 0>> \in AnyReply /\ <<r, 0>> \in Rids /\ WireInv
  BY HubRid DEF DispatcherInv
<1>5. WellFormed(r)' /\ Resolved(r)'
  BY <1>1, <1>2, <1>3, <1>4, AppendToOpen
<1>6. \A q \in Requests \ {r} : uplink'[q] = uplink[q]
  BY <1>1, <1>3, <1>4, ReportAppends
<1>7. (NothingBeforeRequest /\ AnswersSound /\ AnswerWellFormed)'
  BY <1>1, <1>3, <1>4, <1>5, AllJournals
<1>8. /\ \A i \in Slots : pending'[i].req = pending[i].req
      /\ \A i \in Slots : Used(i) => pending'[i] = pending[i]
  <2>1. CASE pending' = pending
    BY <2>1
  <2>2. ASSUME NEW i \in Slots, ~Used(i), pending' = [pending EXCEPT ![i] = PendingCommand]
        PROVE  /\ \A j \in Slots : pending'[j].req = pending[j].req
               /\ \A j \in Slots : Used(j) => pending'[j] = pending[j]
    BY <2>2, DefaultEntry DEF Used, DispatcherInv, WireInv, TypeOK
  <2>. QED  BY <2>1, <2>2 DEF Refused
<1>9. OneCommandPerDevice'
  BY <1>8 DEF OneCommandPerDevice, Used, Device, DispatcherInv, JournalInv
<1>10. OpenJournals'
  <2> SUFFICES ASSUME NEW i \in Slots, Used(i)'  PROVE OpenJournal(i)'
    BY DEF OpenJournals
  <2>1. Used(i) /\ pending'[i] = pending[i]
    BY <1>8 DEF Used
  <2>2. pending[i].req \in Requests /\ pending[i].req \in submitted
    BY <2>1, EntryJournal
  <2>. QED  BY <1>1, <1>6, <2>1, <2>2, EntryKept
<1>11. ClosedResolved'
  BY <1>1, <1>5, <1>6, <1>8, JournalKept
  DEF ClosedResolved, DispatcherInv, JournalInv, WireInv, TypeOK
<1>. QED  BY <1>7, <1>9, <1>10, <1>11 DEF JournalInv

LEMMA AcceptedJournal ==
    ASSUME DispatcherInv, Accepted
    PROVE  JournalInv'
<1>1. PICK r \in Requests \ submitted, i \in Slots, n \in {0, 1} :
          /\ EntryOf(Target[r]) = {}
          /\ i = FirstFree /\ ~Used(i) /\ FreeSlots # {}
          /\ submitted' = submitted \cup {r}
          /\ pending' = [pending EXCEPT ![i] = NewEntry(r, n)]
          /\ uplink' = uplink
  BY FirstFreeFree DEF Accepted
<1>2. pending \in [Slots -> Entry] /\ submitted \subseteq Requests
  BY DEF DispatcherInv, WireInv, TypeOK
<1>3. /\ pending'[i] = NewEntry(r, n)
      /\ \A j \in Slots \ {i} : pending'[j] = pending[j]
  BY <1>1, <1>2
<1>4. /\ pending'[i].req = r /\ ~pending'[i].paging /\ pending'[i].next = 0
  BY <1>1, <1>3, NewEntryTyped DEF DispatcherInv
<1>5. OneCommandPerDevice'
  BY <1>1, <1>2, <1>3, <1>4
  DEF OneCommandPerDevice, Used, Device, EntryOf, DispatcherInv, JournalInv
<1>6. OpenJournal(i)'
  <2>1. Len(uplink'[r]) = 0
    BY <1>1 DEF DispatcherInv, JournalInv, NothingBeforeRequest
  <2>. QED  BY <1>1, <1>4, <2>1 DEF OpenJournal, OpenAt
<1>7. OpenJournals'
  BY <1>1, <1>3, <1>6, EntryKept DEF OpenJournals, Used
<1>8. NothingBeforeRequest' /\ AnswersSound'
  BY <1>1 DEF NothingBeforeRequest, AnswersSound, DispatcherInv, JournalInv
<1>9. AnswerWellFormed'
  BY <1>1 DEF AnswerWellFormed, Terminal, DispatcherInv, JournalInv
<1>10. ClosedResolved'
  <2> SUFFICES ASSUME NEW q \in submitted', ~(\E j \in Slots : pending'[j].req = q)
               PROVE  Resolved(q)'
    BY DEF ClosedResolved
  <2>1. q # r /\ q \in submitted /\ q \in Requests
    BY <1>1, <1>2, <1>4
  <2>2. \A j \in Slots : pending[j].req # q
    BY <1>1, <1>2, <1>3, <2>1, ConstantsAssumption DEF Used, ConstantsAssumption
  <2>3. Resolved(q)
    BY <2>1, <2>2 DEF ClosedResolved, DispatcherInv, JournalInv
  <2>. QED  BY <1>1, <2>1, <2>3, JournalKept
<1>. QED  BY <1>5, <1>7, <1>8, <1>9, <1>10 DEF JournalInv

\* An entry that is given up with its request resolved.
LEMMA ClosedJournal ==
    ASSUME DispatcherInv, NEW i \in Slots, Used(i), submitted' = submitted,
           pending' = [pending EXCEPT ![i] = PendingCommand],
           NEW type \in ErrorMessages \cup {"result", "result_chunk"},
           NEW rid \in AnyReply, NEW chunk \in Nat,
           Report(pending[i].req, type, rid, chunk),
           type = "result_chunk" =>
               /\ chunk = pending[i].next
               /\ pending[i].next > 0 => rid = pending[i].rid
               /\ chunk + 1 >= Pages[rid[1]]
    PROVE  JournalInv'
<1>1. PICK r \in Requests : r = pending[i].req
  BY EntryJournal
<1>2. /\ r \in Requests /\ r \in submitted /\ pending[i].next \in Nat
      /\ OpenAt(r, pending[i].rid, pending[i].next)
      /\ pending[i].next > 0 => pending[i].rid \in AnyReply
  BY <1>1, EntryJournal
<1>3. pending \in [Slots -> Entry] /\ submitted \subseteq Requests /\ WireInv
  BY DEF DispatcherInv, WireInv, TypeOK
<1>4. rid \in Rids
  BY ReplyTyped
<1>5. WellFormed(r)' /\ Resolved(r)'
  BY <1>1, <1>2, <1>3, AppendToOpen
<1>6. \A q \in Requests \ {r} : uplink'[q] = uplink[q]
  BY <1>1, <1>3, <1>4, ReportAppends
<1>7. (NothingBeforeRequest /\ AnswersSound /\ AnswerWellFormed)'
  BY <1>1, <1>2, <1>5, AllJournals
<1>8. /\ ~Used(i)'
      /\ \A j \in Slots \ {i} : pending'[j] = pending[j]
  BY <1>3, DefaultEntry DEF Used
<1>9. OneCommandPerDevice'
  BY <1>8 DEF OneCommandPerDevice, Used, Device, DispatcherInv, JournalInv
<1>10. OpenJournals'
  <2> SUFFICES ASSUME NEW j \in Slots, Used(j)'  PROVE OpenJournal(j)'
    BY DEF OpenJournals
  <2>1. j # i /\ pending'[j] = pending[j] /\ Used(j)
    BY <1>8 DEF Used
  <2>2. pending[j].req # r /\ pending[j].req \in Requests
    BY <1>1, <2>1, OneEntryPerRequest, EntryJournal DEF DispatcherInv, JournalInv
  <2>. QED  BY <1>6, <2>1, <2>2, EntryKept
<1>11. ClosedResolved'
  <2> SUFFICES ASSUME NEW q \in submitted', ~(\E j \in Slots : pending'[j].req = q)
               PROVE  Resolved(q)'
    BY DEF ClosedResolved
  <2>1. CASE q = r
    BY <1>5, <2>1
  <2>2. CASE q # r
    <3>1. \A j \in Slots : pending[j].req # q
      BY <1>1, <1>8, <2>2
    <3>2. Resolved(q) /\ q \in Requests
      BY <1>3, <3>1 DEF ClosedResolved, DispatcherInv, JournalInv
    <3>. QED  BY <1>6, <2>2, <3>2, JournalKept
  <2>. QED  BY <2>1, <2>2
<1>. QED  BY <1>7, <1>9, <1>10, <1>11 DEF JournalInv

LEMMA EndedJournal ==
    ASSUME DispatcherInv, GivenUp \/ Answered(ToAnyone)
    PROVE  JournalInv'
<1>1. PICK i \in Slots, type \in ErrorMessages \cup {"result"}, rid \in AnyReply :
          Used(i) /\ Finish(i, type, rid)
  <2>1. CASE GivenUp
    BY <2>1, UsedEntry, HubRid DEF GivenUp, DispatcherInv
  <2>2. CASE Answered(ToAnyone)
    BY <2>2, UsedEntry DEF Answered, ToAnyone, DispatcherInv
  <2>. QED  BY <2>1, <2>2
<1>2. type # "result_chunk" /\ type \in ErrorMessages \cup {"result", "result_chunk"}
  BY <1>1 DEF ErrorMessages
<1>3. /\ Report(pending[i].req, type, rid, 0)
      /\ pending' = [pending EXCEPT ![i] = PendingCommand]
      /\ submitted' = submitted
  BY <1>1 DEF Finish, GivenUp, Answered
<1>. QED  BY <1>1, <1>2, <1>3, ClosedJournal

\* The expected page is the next one of the reply passed on so far.
LEMMA ExpectedNext ==
    ASSUME DispatcherInv, NEW i \in Slots, Used(i), NEW m, ExpectedPage(i, m)
    PROVE  /\ m.chunk = pending[i].next
           /\ pending[i].next > 0 => m.rid = pending[i].rid
  BY EntryJournal DEF ExpectedPage

LEMMA PagedLastJournal ==
    ASSUME DispatcherInv, PagedLast(ToAnyone)
    PROVE  JournalInv'
<1>1. PICK i \in Slots, m \in Answers :
          /\ Used(i)
          /\ ExpectedPage(i, m)
          /\ LastPage(m)
          /\ pending' = [pending EXCEPT ![i] = PendingCommand]
          /\ Report(pending[i].req, "result_chunk", m.rid, m.chunk)
          /\ submitted' = submitted
  BY DEF PagedLast
<1>2. m.rid \in AnyReply /\ m.chunk \in Nat
  BY SoundMessage
<1>3. m.chunk = pending[i].next /\ (pending[i].next > 0 => m.rid = pending[i].rid)
  BY <1>1, <1>2, ExpectedNext
<1>4. m.chunk + 1 >= Pages[m.rid[1]]
  BY <1>1 DEF LastPage
<1>. QED  BY <1>1, <1>2, <1>3, <1>4, ClosedJournal

LEMMA PagedJournal ==
    ASSUME DispatcherInv, Paged(ToAnyone)
    PROVE  JournalInv'
<1>1. PICK i \in Slots, m \in Answers, n \in {0, 1} :
          /\ Used(i)
          /\ ExpectedPage(i, m)
          /\ ~LastPage(m)
          /\ pending' = [pending EXCEPT ![i] = NextPage(i, m, n)]
          /\ Report(pending[i].req, "result_chunk", m.rid, m.chunk)
          /\ submitted' = submitted
  BY DEF Paged
<1>2. WireInv /\ pending \in [Slots -> Entry] /\ submitted \subseteq Requests
  BY DEF DispatcherInv, WireInv, TypeOK
<1>3. PICK r \in Requests : r = pending[i].req
  BY <1>1, <1>2, UsedEntry
<1>4. /\ m.rid \in AnyReply /\ m.chunk \in Nat
      /\ m.rid \in Rids /\ Pages[m.rid[1]] \in Nat
  BY SoundMessage, ReplyTyped
<1>5. m.chunk = pending[i].next /\ (pending[i].next > 0 => m.rid = pending[i].rid)
  BY <1>1, <1>4, ExpectedNext
<1>6. m.chunk + 1 < Pages[m.rid[1]]
  BY <1>1, <1>4 DEF LastPage
<1>7. /\ r \in submitted
      /\ OpenAt(r, pending[i].rid, pending[i].next)
      /\ pending[i].next > 0 => pending[i].rid \in AnyReply
  BY <1>1, <1>3, EntryJournal
<1>8. WellFormed(r)' /\ OpenAt(r, m.rid, m.chunk + 1)'
  BY <1>1, <1>2, <1>3, <1>4, <1>5, <1>6, <1>7, AppendToOpen
<1>9. \A q \in Requests \ {r} : uplink'[q] = uplink[q]
  BY <1>1, <1>2, <1>3, <1>4, ReportAppends
<1>10. (NothingBeforeRequest /\ AnswersSound /\ AnswerWellFormed)'
  BY <1>1, <1>3, <1>4, <1>7, <1>8, AllJournals
<1>11. /\ pending'[i].req = r /\ pending'[i].paging
       /\ pending'[i].rid = m.rid /\ pending'[i].next = m.chunk + 1
       /\ \A j \in Slots \ {i} : pending'[j] = pending[j]
  BY <1>1, <1>2, <1>3, NextPageTyped
<1>12. OneCommandPerDevice'
  BY <1>3, <1>11 DEF OneCommandPerDevice, Used, Device, DispatcherInv, JournalInv
<1>13. OpenJournals'
  <2> SUFFICES ASSUME NEW j \in Slots, Used(j)'  PROVE OpenJournal(j)'
    BY DEF OpenJournals
  <2>1. CASE j = i
    <3>1. pending'[i].req \in submitted'
      BY <1>1, <1>7, <1>11
    <3>2. pending'[i].paging <=> pending'[i].next > 0
      BY <1>4, <1>11
    <3>3. OpenAt(r, m.rid, m.chunk + 1)'
      BY <1>8
    <3>4. OpenAt(pending[i].req, pending[i].rid, pending[i].next)'
      BY <1>11, <3>3 DEF OpenAt
    <3>. QED  BY <2>1, <3>1, <3>2, <3>4 DEF OpenJournal
  <2>2. CASE j # i
    <3>1. pending'[j] = pending[j] /\ Used(j)
      BY <1>11, <2>2 DEF Used
    <3>2. pending[j].req # r /\ pending[j].req \in Requests
      BY <1>1, <1>3, <2>2, <3>1, OneEntryPerRequest, EntryJournal DEF DispatcherInv, JournalInv
    <3>. QED  BY <1>1, <1>9, <3>1, <3>2, EntryKept
  <2>. QED  BY <2>1, <2>2
<1>14. ClosedResolved'
  <2> SUFFICES ASSUME NEW q \in submitted', ~(\E j \in Slots : pending'[j].req = q)
               PROVE  Resolved(q)'
    BY DEF ClosedResolved
  <2>1. q # r /\ q \in submitted /\ q \in Requests
    BY <1>1, <1>2, <1>11
  <2>2. \A j \in Slots : pending[j].req # q
    BY <1>3, <1>11, <2>1
  <2>3. Resolved(q)
    BY <2>1, <2>2 DEF ClosedResolved, DispatcherInv, JournalInv
  <2>. QED  BY <1>9, <2>1, <2>3, JournalKept
<1>. QED  BY <1>10, <1>12, <1>13, <1>14 DEF JournalInv

LEMMA TimedJournal ==
    ASSUME DispatcherInv, Timed
    PROVE  JournalInv'
<1>1. /\ uplink' = uplink /\ submitted' = submitted
      /\ \A j \in Slots : /\ pending'[j].req = pending[j].req
                          /\ pending'[j].paging = pending[j].paging
                          /\ pending'[j].rid = pending[j].rid
                          /\ pending'[j].next = pending[j].next
  BY DEF Timed
<1>2. OneCommandPerDevice'
  BY <1>1 DEF OneCommandPerDevice, Used, Device, DispatcherInv, JournalInv
<1>3. OpenJournals'
  BY <1>1, EntryKept DEF OpenJournals, Used
<1>4. NothingBeforeRequest' /\ AnswersSound'
  BY <1>1 DEF NothingBeforeRequest, AnswersSound, DispatcherInv, JournalInv
<1>5. AnswerWellFormed'
  BY <1>1 DEF AnswerWellFormed, Terminal, DispatcherInv, JournalInv
<1>6. ClosedResolved'
  BY <1>1, JournalKept DEF ClosedResolved, DispatcherInv, JournalInv, WireInv, TypeOK
<1>. QED  BY <1>2, <1>3, <1>4, <1>5, <1>6 DEF JournalInv

LEMMA DispatcherInit == Init => DispatcherInv
<1> SUFFICES ASSUME Init PROVE DispatcherInv
  OBVIOUS
<1>1. \A i \in Slots : ~Used(i)
  BY DefaultEntry DEF Init, Used
<1>2. \A r \in Requests : uplink[r] = <<>> /\ Len(uplink[r]) = 0
  BY DEF Init
<1>3. submitted = {}
  BY DEF Init
<1>4. JournalInv
  BY <1>1, <1>2, <1>3
  DEF JournalInv, OneCommandPerDevice, OpenJournals, NothingBeforeRequest, ClosedResolved,
      AnswersSound, AnswerWellFormed
<1>. QED  BY <1>4, WireInit DEF DispatcherInv

LEMMA JournalMoves ==
    ASSUME DispatcherInv, JournalMove(ToAnyone)
    PROVE  JournalInv'
  BY RefusedJournal, AcceptedJournal, EndedJournal, PagedJournal, PagedLastJournal, TimedJournal
  DEF JournalMove

LEMMA DispatcherStep == DispatcherInv /\ [Next]_vars => DispatcherInv'
  BY WireStep, AnyoneMoves, JournalMoves DEF DispatcherInv

LEMMA DispatcherAlways == Spec => []DispatcherInv
  BY DispatcherInit, DispatcherStep, PTL DEF Spec

-----------------------------------------------------------------------------
(***************************************************************************)
(* OwnInv.                                                                 *)
(***************************************************************************)
LEMMA OwnMoves ==
    ASSUME WireInv, OwnInv, [Next]_vars
    PROVE  JournalMove(OwnReplies) /\ RadioMove(Own)
<1>1. ASSUME NEW m \in air, NEW i \in EntryOf(m.dev)
      PROVE  m.rid \in OwnReplies[pending[i].req]
  <2>1. i \in Slots /\ Used(i) /\ Device(i) = m.dev /\ pending[i].req \in Requests
    BY UsedEntry DEF EntryOf
  <2>2. m.rid \in AnyReply /\ m.rid[1] \in submitted /\ m.dev = Target[m.rid[1]]
    BY SoundMessage DEF WireInv, SoundAir, OwnInv, Own
  <2>. QED  BY <2>1, <2>2 DEF OwnReplies, Device
<1>2. ASSUME NEW m \in air, NEW a \in Commands \cup Answers, a.dev = m.dev, a.rid[1] = m.rid[1]
      PROVE  a \in Own
  BY <1>2, SoundMessage DEF OwnInv, Own
<1>. QED  BY <1>1, <1>2, StepMoves

\* Of what may be passed on as r's, nothing is lost by another step.
LEMMA OwnGrows ==
    ASSUME submitted \subseteq submitted'
    PROVE  /\ Own \subseteq Own'
           /\ \A r \in Requests : OwnReplies[r] \subseteq OwnReplies'[r]
  BY DEF Own, OwnReplies

LEMMA OwnWeaker ==
    ASSUME WireInv, JournalMove(OwnReplies)
    PROVE  JournalMove(ToAnyone)
<1>1. ASSUME NEW i \in Slots, Used(i), NEW rid \in OwnReplies[pending[i].req]
      PROVE  rid \in ToAnyone[pending[i].req]
  BY <1>1, UsedEntry DEF OwnReplies, ToAnyone
<1>2. CASE Answered(OwnReplies)
  BY <1>1, <1>2 DEF Answered, JournalMove
<1>3. CASE Paged(OwnReplies)
  BY <1>1, <1>3 DEF Paged, JournalMove
<1>4. CASE PagedLast(OwnReplies)
  BY <1>1, <1>4 DEF PagedLast, JournalMove
<1>. QED  BY <1>2, <1>3, <1>4 DEF JournalMove

\* What is sent for an entry is its own.
LEMMA PayloadOwn ==
    ASSUME DispatcherInv, OwnInv, NEW i \in Slots, Used(i)
    PROVE  Payload(pending[i]) \in Own
<1>1. /\ pending[i].req \in Requests /\ pending[i].req \in submitted
      /\ Payload(pending[i]) \in Messages /\ Payload(pending[i]).dev = Target[pending[i].req]
  BY EntryJournal, PayloadTyped, SoundMessage DEF DispatcherInv, Device
<1>2. CASE pending[i].paging
  <2>1. Payload(pending[i]).rid \in OwnReplies[pending[i].req]
    BY <1>2, PayloadTyped DEF OwnInv, DispatcherInv
  <2>. QED  BY <1>1, <2>1 DEF OwnReplies, Own
<1>3. CASE ~pending[i].paging
  BY <1>1, <1>3, PayloadTyped DEF DispatcherInv, Own
<1>. QED  BY <1>2, <1>3

LEMMA OwnRadio ==
    ASSUME DispatcherInv, OwnInv, RadioMove(Own), submitted \subseteq submitted'
    PROVE  air' \subseteq Own' /\ (Busy => out.payload \in Own)'
<1>1. out \in [payload : Payloads, sent : Nat, count : Nat] /\ SoundBurst /\ WireInv
  BY DEF DispatcherInv, WireInv, TypeOK
<1>2. Own \subseteq Own' /\ air \subseteq Own /\ (Busy => out.payload \in Own)
  BY OwnGrows DEF OwnInv
<1>3. ASSUME NEW p \in Commands, p \in Own', NEW sent \in Nat, NEW count \in Nat,
             NEW inAir \in SUBSET air, Send(p, sent, count, inAir)
      PROVE  air' \subseteq Own' /\ (Busy => out.payload \in Own)'
  BY <1>2, <1>3, SendTyped DEF Busy
<1>4. CASE BurstKept(Own)
  BY <1>2, <1>4 DEF BurstKept, Busy
<1>5. CASE BurstGoesOn
  BY <1>1, <1>2, <1>3, <1>5 DEF BurstGoesOn, SoundBurst
<1>6. CASE NewCommandSent
  <2>1. PICK r \in Requests : r \in submitted'
                              /\ Send(Msg("command", Target[r], <<r, 0>>, 0), 1, Frags[r], air)
    BY <1>6 DEF NewCommandSent
  <2> DEFINE p == Msg("command", Target[r], <<r, 0>>, 0)
  <2>2. p \in Commands /\ p.rid = <<r, 0>> /\ p.dev = Target[r] /\ Frags[r] \in Nat
    BY CommandTyped, ConstantsAssumption DEF ConstantsAssumption
  <2> HIDE DEF p
  <2>3. p \in Own'
    BY <2>1, <2>2, SoundMessage DEF Own
  <2>. QED  BY <1>3, <2>1, <2>2, <2>3 DEF p
<1>7. CASE EntrySent
  <2>1. PICK i \in Slots :
             Used(i) /\ Send(Payload(pending[i]), 1, FragCount(Payload(pending[i])), air)
    BY <1>7 DEF EntrySent
  <2>2. Payload(pending[i]) \in Commands /\ Payload(pending[i]) \in Own
    BY <1>1, <2>1, PayloadTyped, PayloadOwn
  <2>3. FragCount(Payload(pending[i])) \in Nat
    BY <2>2, ConstantsAssumption DEF FragCount, Commands, ConstantsAssumption
  <2>. QED  BY <1>2, <1>3, <2>1, <2>2, <2>3
<1>8. CASE PageAsked(Own)
  BY <1>2, <1>3, <1>8 DEF PageAsked
<1>. QED  BY <1>4, <1>5, <1>6, <1>7, <1>8 DEF RadioMove

\* A report of one of r's replies leaves all journals in order.
LEMMA OwnReport ==
    ASSUME DispatcherInv, OwnInv, submitted \subseteq submitted', NEW r \in Requests,
           NEW type \in ErrorMessages \cup {"result", "result_chunk"},
           NEW rid \in OwnReplies'[r], NEW chunk \in Nat, Report(r, type, rid, chunk)
    PROVE  OwnJournals'
<1>1. rid \in Rids /\ WireInv
  <2>1. rid \in AnyReply
    BY DEF OwnReplies
  <2>. QED  BY <2>1, ReplyTyped DEF DispatcherInv
<1>2. /\ Len(uplink[r]) \in Nat
      /\ Len(uplink'[r]) = Len(uplink[r]) + 1
      /\ \A k \in 1 .. Len(uplink[r]) : uplink'[r][k] = uplink[r][k]
      /\ uplink'[r][Len(uplink[r]) + 1].rid = rid
      /\ \A q \in Requests \ {r} : uplink'[q] = uplink[q]
  <2>. HIDE DEF Report, ErrorMessages
  <2>1. /\ Len(uplink[r]) \in Nat
        /\ Len(uplink'[r]) = Len(uplink[r]) + 1
        /\ \A k \in 1 .. Len(uplink[r]) : uplink'[r][k] = uplink[r][k]
        /\ uplink'[r][Len(uplink[r]) + 1].type = type
        /\ uplink'[r][Len(uplink[r]) + 1].rid = rid
        /\ uplink'[r][Len(uplink[r]) + 1].chunk = chunk
        /\ \A q \in Requests \ {r} : uplink'[q] = uplink[q]
    BY <1>1, ReportAppends
  <2>. QED  BY <2>1, Zenon
<1>3. \A q \in Requests : \A k \in 1 .. Len(uplink[q]) : uplink[q][k].rid \in OwnReplies'[q]
  BY OwnGrows DEF OwnInv, OwnJournals
<1>4. ASSUME NEW k \in 1 .. Len(uplink'[r])
      PROVE  uplink'[r][k].rid \in OwnReplies'[r]
  <2>1. CASE k = Len(uplink[r]) + 1
    BY <1>2, <2>1
  <2>2. CASE k # Len(uplink[r]) + 1
    <3>1. k \in 1 .. Len(uplink[r])
      BY <1>2, <2>2
    <3>. QED  BY <1>2, <1>3, <3>1
  <2>. QED  BY <2>1, <2>2
<1>5. ASSUME NEW q \in Requests, NEW k \in 1 .. Len(uplink'[q])
      PROVE  uplink'[q][k].rid \in OwnReplies'[q]
  BY <1>2, <1>3, <1>4, <1>5
<1>. QED  BY <1>5 DEF OwnJournals

LEMMA OwnJournalStep ==
    ASSUME DispatcherInv, OwnInv, JournalMove(OwnReplies)
    PROVE  /\ OwnJournals'
           /\ \A i \in Slots : Used(i)' /\ pending'[i].paging
                                  => pending'[i].rid \in OwnReplies'[pending'[i].req]
<1> DEFINE Pulled == \A i \in Slots : Used(i)' /\ pending'[i].paging
                                  => pending'[i].rid \in OwnReplies'[pending'[i].req]
<1>1. WireInv /\ pending \in [Slots -> Entry] /\ submitted \subseteq submitted'
  BY OwnWeaker, JournalTyped DEF DispatcherInv, WireInv, TypeOK
<1>2. \A r \in Requests : OwnReplies[r] \subseteq OwnReplies'[r]
  BY <1>1, OwnGrows
<1>3. \A i \in Slots : Used(i) => pending[i].req \in Requests
  BY <1>1, UsedEntry
<1>4. \A i \in Slots : Used(i) /\ pending[i].paging
                          => pending[i].rid \in OwnReplies'[pending[i].req]
  BY <1>2, <1>3 DEF OwnInv
<1>5. ASSUME NEW i \in Slots, pending' = [pending EXCEPT ![i] = PendingCommand]
      PROVE  Pulled
  BY <1>1, <1>4, <1>5, DefaultEntry DEF Used
<1>6. ASSUME UNCHANGED <<uplink, submitted>>
      PROVE  OwnJournals'
  BY <1>6 DEF OwnInv, OwnJournals, OwnReplies
<1>7. CASE Refused
  <2>1. PICK r \in Requests \ submitted, type \in ErrorMessages :
            submitted' = submitted \cup {r} /\ Report(r, type, <<r, 0>>, 0)
    BY <1>7 DEF Refused, Reject
  <2>2. <<r, 0>> \in OwnReplies'[r] /\ type \in ErrorMessages \cup {"result", "result_chunk"}
    BY <2>1, HubRid DEF OwnReplies
  <2>3. OwnJournals'
    BY <1>1, <2>1, <2>2, OwnReport
  <2>4. Pulled
    BY <1>4, <1>5, <1>7 DEF Refused, Used
  <2>. QED  BY <2>3, <2>4
<1>8. CASE Accepted
  <2>1. OwnJournals'
    BY <1>2, <1>8 DEF Accepted, OwnInv, OwnJournals
  <2>2. Pulled
    BY <1>1, <1>4, <1>8, NewEntryTyped, FirstFreeFree DEF Accepted, Used
  <2>. QED  BY <2>1, <2>2
<1>9. ASSUME NEW i \in Slots, Used(i), NEW type \in ErrorMessages \cup {"result"},
             NEW rid \in OwnReplies[pending[i].req], Finish(i, type, rid)
      PROVE  OwnJournals' /\ Pulled
  <2>1. rid \in OwnReplies'[pending[i].req] /\ pending[i].req \in Requests
    BY <1>2, <1>3, <1>9
  <2>2. OwnJournals'
    BY <1>1, <1>9, <2>1, OwnReport DEF Finish
  <2>. QED  BY <1>5, <1>9, <2>2 DEF Finish
<1>10. CASE GivenUp
  <2>1. PICK i \in Slots, type \in ErrorMessages :
            Used(i) /\ Finish(i, type, <<pending[i].req, 0>>)
    BY <1>10 DEF GivenUp
  <2>2. <<pending[i].req, 0>> \in OwnReplies[pending[i].req]
    BY <2>1, EntryJournal, HubRid DEF OwnReplies
  <2>. QED  BY <1>9, <2>1, <2>2
<1>11. CASE Answered(OwnReplies)
  BY <1>9, <1>11 DEF Answered
<1>12. ASSUME NEW i \in Slots, Used(i), NEW m \in Answers, m.rid \in OwnReplies[pending[i].req],
              Report(pending[i].req, "result_chunk", m.rid, m.chunk)
       PROVE  OwnJournals'
  <2>1. m.rid \in OwnReplies'[pending[i].req] /\ pending[i].req \in Requests /\ m.chunk \in Nat
    BY <1>2, <1>3, <1>12, SoundMessage
  <2>. QED  BY <1>1, <1>12, <2>1, OwnReport
<1>13. CASE Paged(OwnReplies)
  <2>1. PICK i \in Slots, m \in Answers, n \in {0, 1} :
            /\ Used(i)
            /\ m.rid \in OwnReplies[pending[i].req]
            /\ pending' = [pending EXCEPT ![i] = NextPage(i, m, n)]
            /\ Report(pending[i].req, "result_chunk", m.rid, m.chunk)
    BY <1>13 DEF Paged
  <2>2. /\ pending'[i].req = pending[i].req /\ pending'[i].rid = m.rid
        /\ \A j \in Slots \ {i} : pending'[j] = pending[j]
    BY <1>1, <2>1, NextPageTyped
  <2>3. Pulled
    BY <1>2, <1>3, <1>4, <2>1, <2>2 DEF Used
  <2>. QED  BY <1>12, <2>1, <2>3
<1>14. CASE PagedLast(OwnReplies)
  BY <1>5, <1>12, <1>14 DEF PagedLast
<1>15. CASE Timed
  BY <1>4, <1>6, <1>15 DEF Timed, Used
<1>. QED  BY <1>7, <1>8, <1>10, <1>11, <1>13, <1>14, <1>15 DEF JournalMove

LEMMA OwnAlways == Spec => [](DispatcherInv /\ OwnInv)
<1>1. Init => OwnInv
  BY DefaultEntry DEF Init, OwnInv, OwnJournals, Busy, Used
<1>2. DispatcherInv /\ OwnInv /\ [Next]_vars => OwnInv'
  <2> SUFFICES ASSUME DispatcherInv, OwnInv, [Next]_vars PROVE OwnInv'
    OBVIOUS
  <2>1. WireInv /\ JournalMove(OwnReplies) /\ RadioMove(Own)
    BY OwnMoves DEF DispatcherInv
  <2>2. submitted \subseteq submitted'
    BY <2>1, OwnWeaker, JournalTyped
  <2>3. air' \subseteq Own' /\ (Busy => out.payload \in Own)'
    BY <2>1, <2>2, OwnRadio
  <2>4. /\ OwnJournals'
        /\ \A i \in Slots : Used(i)' /\ pending'[i].paging
                               => pending'[i].rid \in OwnReplies'[pending'[i].req]
    BY <2>1, OwnJournalStep
  <2>. QED  BY <2>3, <2>4 DEF OwnInv, Used
<1>. QED  BY <1>1, <1>2, DispatcherInit, DispatcherStep, PTL DEF Spec

-----------------------------------------------------------------------------
(***************************************************************************)
(* Theorems.                                                               *)
(***************************************************************************)
\* sendCommand() never puts two commands of one device in flight, so an
\* answer, which names only its device, has one entry it can be for.
THEOREM OneInFlight == Spec => []OneCommandPerDevice
<1>1. DispatcherInv => OneCommandPerDevice
  BY DEF DispatcherInv, JournalInv
<1>. QED  BY <1>1, DispatcherAlways, PTL

\* A request with an entry is not resolved.
LEMMA EntryUnresolved ==
    ASSUME DispatcherInv, NEW i \in Slots, Used(i)
    PROVE  pending[i].req \in submitted /\ ~Resolved(pending[i].req)
<1>1. PICK r \in Requests : r = pending[i].req
  BY EntryJournal
<1>2. /\ r \in submitted /\ pending[i].next \in Nat
      /\ OpenAt(r, pending[i].rid, pending[i].next)
      /\ pending[i].next > 0 => pending[i].rid \in AnyReply
  BY <1>1, EntryJournal
<1>3. ASSUME NEW k \in 1 .. Len(uplink[r])
      PROVE  ~Terminal(uplink[r][k])
  <2> DEFINE m == uplink[r][k]
  <2>1. k \in 1 .. pending[i].next /\ pending[i].next > 0
    BY <1>2, <1>3 DEF OpenAt
  <2>2. m.type = "result_chunk" /\ m.chunk = k - 1 /\ m.rid = pending[i].rid
        /\ k < Pages[pending[i].rid[1]]
    BY <1>2, <2>1 DEF OpenAt
  <2>3. Pages[pending[i].rid[1]] \in Nat
    BY <1>2, <2>1, ReplyTyped
  <2> HIDE DEF m
  <2>4. ~Terminal(m)
    BY <2>1, <2>2, <2>3 DEF Terminal
  <2>. QED  BY <2>4 DEF m
<1>. QED  BY <1>1, <1>2, <1>3 DEF Resolved

\* A request occupies an entry exactly as long as it is unresolved: none is
\* dropped unanswered by a timeout, a reply or a page, and none lingers.
THEOREM NothingForgotten == Spec => []NoRequestForgotten
<1>1. DispatcherInv => NoRequestForgotten
  <2> SUFFICES ASSUME DispatcherInv, NEW r \in Requests
               PROVE  (r \in submitted /\ ~Resolved(r)) <=> (\E i \in Slots : pending[i].req = r)
    BY DEF NoRequestForgotten
  <2>1. ASSUME NEW i \in Slots, pending[i].req = r
        PROVE  r \in submitted /\ ~Resolved(r)
    BY <2>1, EntryUnresolved, ConstantsAssumption DEF Used, ConstantsAssumption
  <2>. QED  BY <2>1 DEF ClosedResolved, DispatcherInv, JournalInv
<1>. QED  BY <1>1, DispatcherAlways, PTL

\* What the Backend gets for a request is one result or one error, or the
\* consecutive pages of one reply, and nothing after its end.
THEOREM AnswersWellFormed == Spec => []AnswerWellFormed
<1>1. DispatcherInv => AnswerWellFormed
  BY DEF DispatcherInv, JournalInv
<1>. QED  BY <1>1, DispatcherAlways, PTL

\* If each reply is handed over whole and with its sender's MAC, no device's
\* reply is ever reported for another device's request.
THEOREM AnswersFromOwnDevice == Spec => []AnswerFromOwnDevice
<1>1. OwnInv => AnswerFromOwnDevice
  BY DEF OwnInv, OwnJournals, OwnReplies, AnswerFromOwnDevice
<1>. QED  BY <1>1, OwnAlways, PTL

\* What the radio summary says of a burst that drains.
Whole ==
    Busy => \/ out' \in {out, [out EXCEPT !.sent = @ + 1]}
            \/ out.sent + 1 = out.count /\ out' = NoBurst /\ out.payload \in air'

LEMMA WholeBurst ==
    ASSUME WireInv, NEW S, RadioMove(S)
    PROVE  Whole
<1> SUFFICES ASSUME Busy
             PROVE  \/ out' \in {out, [out EXCEPT !.sent = @ + 1]}
                    \/ out.sent + 1 = out.count /\ out' = NoBurst /\ out.payload \in air'
  BY DEF Whole
<1>1. out \in [payload : Payloads, sent : Nat, count : Nat]
  BY DEF WireInv, TypeOK
<1>2. BurstKept(S) \/ BurstGoesOn
  BY DEF RadioMove, NewCommandSent, EntrySent, PageAsked
<1>3. CASE BurstKept(S)
  BY <1>3 DEF BurstKept
<1>4. CASE BurstGoesOn
  <2>1. CASE out.sent + 1 < out.count
    <3>1. out' = [payload |-> out.payload, sent |-> out.sent + 1, count |-> out.count]
      BY <1>4, <2>1 DEF BurstGoesOn, Send
    <3>2. out' = [out EXCEPT !.sent = out.sent + 1]
      BY <1>1, <3>1
    <3>. QED  BY <3>2
  <2>2. CASE ~(out.sent + 1 < out.count)
    BY <1>1, <1>4, <2>2 DEF BurstGoesOn, Send, Busy
  <2>. QED  BY <2>1, <2>2
<1>. QED  BY <1>2, <1>3, <1>4

\* A burst that has begun goes out to its last fragment; nothing replaces it.
THEOREM BurstsWhole == Spec => NoTruncatedBurst
<1>1. WireInv /\ [Next]_vars => [Whole]_vars
  BY AnyoneMoves, WholeBurst
<1>. QED  BY <1>1, WireAlways, PTL DEF Spec, NoTruncatedBurst, Whole

\* Sending p puts p, and nothing else, into the buffer or on the air.
LEMMA SendBegins ==
    ASSUME NEW q, NEW p \in Commands, p.type = "command",
           NEW sent, NEW count, NEW inAir \in SUBSET air, Send(q, sent, count, inAir), Begins(p)
    PROVE  q = p /\ out.payload # p
<1>1. NoBurst.payload.type = "none"
  BY DEF NoBurst, Msg
<1>2. CASE sent < count
  BY <1>2 DEF Send, Begins
<1>3. CASE ~(sent < count)
  BY <1>1, <1>3 DEF Send, Begins
<1>. QED  BY <1>2, <1>3

\* An entry's command goes out again only if service() chose the entry for it.
LEMMA CommandBegins ==
    ASSUME DispatcherInv, NEW i \in Slots, Used(i), Begins(CommandOf(i)), NEW S, RadioMove(S)
    PROVE  ChosenForResend(i) /\ ~pending[i].paging
<1>1. pending[i].req \in Requests /\ pending[i].req \in submitted /\ WireInv
  BY EntryJournal DEF DispatcherInv
<1>2. PICK r \in Requests : r = pending[i].req
  BY <1>1
<1>3. PICK p \in Commands : p = CommandOf(i) /\ p.type = "command" /\ p.rid = <<r, 0>>
  BY <1>2, CommandTyped DEF Device, CommandOf
<1>4. Begins(p)
  BY <1>3 DEF Begins
<1>5. ASSUME BurstKept(S)  PROVE FALSE
  BY <1>3, <1>4, <1>5 DEF BurstKept, Begins, Answers
<1>6. ASSUME BurstGoesOn  PROVE FALSE
  BY <1>3, <1>4, <1>6, SendBegins DEF BurstGoesOn
<1>7. ASSUME NewCommandSent  PROVE FALSE
  <2>1. PICK q \in Requests \ submitted :
            Send(Msg("command", Target[q], <<q, 0>>, 0), 1, Frags[q], air)
    BY <1>7 DEF NewCommandSent
  <2>2. Msg("command", Target[q], <<q, 0>>, 0) = p
    BY <1>3, <1>4, <2>1, SendBegins
  <2>3. Msg("command", Target[q], <<q, 0>>, 0).rid = <<q, 0>>
    BY CommandTyped
  <2>. QED  BY <1>1, <1>2, <1>3, <2>1, <2>2, <2>3
<1>8. ASSUME EntrySent  PROVE ChosenForResend(i) /\ ~pending[i].paging
  <2>1. PICK j \in Slots :
            /\ Used(j) /\ ChosenForResend(j)
            /\ Send(Payload(pending[j]), 1, FragCount(Payload(pending[j])), air)
    BY <1>8 DEF EntrySent
  <2>2. Payload(pending[j]) = p
    BY <1>3, <1>4, <2>1, SendBegins
  <2>3. ~pending[j].paging
    BY <1>1, <1>3, <2>1, <2>2, PayloadTyped
  <2>4. Payload(pending[j]).rid = <<pending[j].req, 0>>
    BY <1>1, <2>1, <2>3, PayloadTyped
  <2>5. pending[j].req = pending[i].req
    BY <1>2, <1>3, <2>2, <2>4
  <2>6. i = j
    BY <2>1, <2>5, OneEntryPerRequest DEF DispatcherInv, JournalInv
  <2>. QED  BY <2>1, <2>3, <2>6
<1>9. ASSUME PageAsked(S)  PROVE FALSE
  BY <1>3, <1>4, <1>9, SendBegins DEF PageAsked
<1>. QED  BY <1>5, <1>6, <1>7, <1>8, <1>9 DEF RadioMove

\* service() chooses for a resend only what it finds not acked.
LEMMA ResendChosen ==
    ASSUME WireInv, [Next]_vars, NEW i \in Slots, ChosenForResend(i)'
    PROVE  ChosenForResend(i) \/ ~pending[i].acked
<1>1. CASE Service
  BY <1>1
  DEF Service, Drain, BeginService, LookAtEntry, SkipEntry, ChooseFor, Due, ActOnEntry, Fail, Resend,
      BreakOff, GoTo, ChosenForResend
<1>2. ASSUME ~Service
      PROVE  UNCHANGED <<svc, choice>>
  BY <1>2
  DEF Next, SendCommand, SendCommandTo, FindAcked, MarkAcked, ControlResponse, Execute,
      AnswerPageAsk, WaitRunsOut, vars, hubVars
<1>. QED  BY <1>1, <1>2 DEF ChosenForResend

\* Past its ack an entry's command goes out once more at most, and only if
\* service() had chosen to resend it before; past the first page it does not.
THEOREM OneResendAtMost == Spec => OneResendPastAck
<1> DEFINE Quiet ==
        \A i \in Slots : Used(i) =>
            /\ pending[i].paging => ~Begins(CommandOf(i))
            /\ pending[i].acked /\ (Begins(CommandOf(i)) \/ ChosenForResend(i)')
                   => ChosenForResend(i)
<1>1. DispatcherInv /\ [Next]_vars => [Quiet]_vars
  <2> SUFFICES ASSUME DispatcherInv, [Next]_vars, NEW i \in Slots, Used(i)
               PROVE  /\ pending[i].paging => ~Begins(CommandOf(i))
                      /\ pending[i].acked /\ (Begins(CommandOf(i)) \/ ChosenForResend(i)')
                             => ChosenForResend(i)
    OBVIOUS
  <2>1. WireInv /\ RadioMove(Messages)
    BY AnyoneMoves DEF DispatcherInv
  <2>2. Begins(CommandOf(i)) => ChosenForResend(i) /\ ~pending[i].paging
    BY <2>1, CommandBegins
  <2>3. ChosenForResend(i)' => ChosenForResend(i) \/ ~pending[i].acked
    BY <2>1, ResendChosen
  <2>. QED  BY <2>2, <2>3, Zenon
<1>. QED  BY <1>1, DispatcherAlways, PTL DEF Spec, OneResendPastAck

-----------------------------------------------------------------------------
(***************************************************************************)
(* The dispatcher implements the promise CommandService states.            *)
(***************************************************************************)
\* A page that is passed on is the next one of the reply passed on so far.
LEMMA NextOfReply ==
    ASSUME DispatcherInv, NEW m \in Answers, NEW i \in Slots, Used(i), ExpectedPage(i, m)
    PROVE  LET r == pending[i].req IN
           /\ uplink[r] = <<>> => m.chunk = 0
           /\ uplink[r] # <<>> => m.chunk = Len(uplink[r]) /\ m.rid = uplink[r][1].rid
<1>1. PICK r \in Requests : r = pending[i].req
  BY EntryJournal
<1>2. m.chunk = pending[i].next /\ (pending[i].next > 0 => m.rid = pending[i].rid)
  BY ExpectedNext
<1>3. pending[i].next \in Nat /\ OpenAt(r, pending[i].rid, pending[i].next)
  BY <1>1, EntryJournal
<1>4. uplink[r] \in Seq(Reports) /\ m.chunk = Len(uplink[r])
  BY <1>2, <1>3 DEF OpenAt, DispatcherInv, WireInv, TypeOK
<1>5. uplink[r] # <<>> => m.rid = uplink[r][1].rid
  <2> SUFFICES ASSUME uplink[r] # <<>> PROVE m.rid = uplink[r][1].rid
    OBVIOUS
  <2>1. Len(uplink[r]) > 0
    BY <1>4, EmptySeq, LenProperties
  <2>2. uplink[r][1].rid = pending[i].rid /\ pending[i].next > 0
    BY <1>3, <2>1 DEF OpenAt
  <2>. QED  BY <1>2, <2>2
<1>6. uplink[r] = <<>> => m.chunk = 0
  BY <1>4
<1>. QED  BY <1>1, <1>4, <1>5, <1>6

LEMMA PromiseInit == Init => Promise!Init
  BY DEF Init, Promise!Init

\* The two notions of an end are the same.
LEMMA PromiseEnds ==
    ASSUME DispatcherInv, NEW r \in Requests
    PROVE  Promise!HasEnded(r) <=> Resolved(r)
<1>1. ASSUME NEW k \in 1 .. Len(uplink[r])
      PROVE  ReplyPages[uplink[r][k].rid] = Pages[uplink[r][k].rid[1]]
  BY <1>1 DEF DispatcherInv, JournalInv, AnswersSound, AnyReply, ReplyPages
<1>. QED  BY <1>1 DEF Promise!HasEnded, Promise!Ends, Resolved, Terminal

LEMMA PromiseOpen ==
    ASSUME DispatcherInv, NEW i \in Slots, Used(i)
    PROVE  Promise!Open(pending[i].req)
  BY EntryJournal, EntryUnresolved, PromiseEnds DEF Promise!Open

\* A reply that may be passed on as r's is r's own, or a late one: an earlier
\* request for the device has no entry any more, so it has ended.
LEMMA PromiseEligible ==
    ASSUME DispatcherInv, NEW i \in Slots, Used(i), NEW rid \in OwnReplies[pending[i].req]
    PROVE  rid \in Promise!Eligible(pending[i].req)
<1>1. PICK r \in Requests : r = pending[i].req
  BY EntryJournal
<1>2. PICK q \in Requests : /\ q = rid[1] /\ q \in submitted /\ Target[q] = Target[r]
                            /\ rid \in RepliesToRequest[q]
  BY <1>1 DEF OwnReplies, AnyReply, RepliesToRequest
<1>3. CASE q = r
  BY <1>1, <1>2, <1>3 DEF Promise!Eligible
<1>4. CASE q # r
  <2>1. \A j \in Slots : pending[j].req # q
    <3> SUFFICES ASSUME NEW j \in Slots, pending[j].req = q PROVE FALSE
      OBVIOUS
    <3>1. Used(j) /\ Device(j) = Device(i) /\ j # i
      BY <1>1, <1>2, <1>4, ConstantsAssumption DEF Used, Device, ConstantsAssumption
    <3>. QED  BY <3>1 DEF DispatcherInv, JournalInv, OneCommandPerDevice
  <2>2. Promise!HasEnded(q)
    BY <1>2, <2>1, PromiseEnds DEF DispatcherInv, JournalInv, ClosedResolved
  <2>3. q \in Promise!Late(r)
    BY <1>2, <2>2 DEF Promise!Late, SameDevice
  <2>. QED  BY <1>1, <1>2, <2>3 DEF Promise!Eligible
<1>. QED  BY <1>3, <1>4

\* What is reported is new.
LEMMA ReportTells ==
    ASSUME DispatcherInv, NEW r \in Requests, NEW type, NEW rid, NEW chunk,
           Report(r, type, rid, chunk)
    PROVE  uplink'[r] # uplink[r]
<1>1. uplink \in [Requests -> Seq(Reports)]
  BY DEF DispatcherInv, WireInv, TypeOK
<1>2. uplink'[r] = Append(uplink[r], [type |-> type, rid |-> rid, chunk |-> chunk])
  BY <1>1 DEF Report
<1>3. PICK n \in Nat : uplink[r] \in [1 .. n -> Reports] /\ n = Len(uplink[r])
  BY <1>1
<1>4. Len(uplink'[r]) = n + 1
  BY <1>2, <1>3
<1>. QED  BY <1>3, <1>4

\* Every step of the dispatcher asks, refuses, gives up, answers, passes on
\* the next page, or is none of the promise's concern.
LEMMA PromiseStep ==
    ASSUME DispatcherInv, JournalMove(OwnReplies)
    PROVE  [Promise!Next]_(Promise!serviceVars)
<1>1. CASE Refused
  <2>1. PICK r \in Requests \ submitted, type \in ErrorMessages :
            submitted' = submitted \cup {r} /\ Report(r, type, <<r, 0>>, 0)
    BY <1>1 DEF Refused, Reject
  <2>2. <<r, 0>> \in RepliesToRequest[r]
    BY HubRid DEF AnyReply, RepliesToRequest
  <2>3. Promise!Refuse(r)
    BY <2>1, <2>2 DEF Report, Promise!Refuse, Promise!Tell
  <2>4. Promise!ToldSomething(r)
    BY <2>1, ReportTells DEF Promise!ToldSomething
  <2>. QED  BY <2>3, <2>4 DEF Promise!Next
<1>2. CASE Accepted
  BY <1>2 DEF Accepted, Promise!Next, Promise!Ask
<1>3. CASE GivenUp
  <2>1. PICK i \in Slots, type \in ErrorMessages :
            Used(i) /\ Finish(i, type, <<pending[i].req, 0>>) /\ submitted' = submitted
    BY <1>3 DEF GivenUp
  <2>2. PICK r \in Requests : r = pending[i].req
    BY <2>1, EntryJournal
  <2>3. <<r, 0>> \in RepliesToRequest[r]
    BY HubRid DEF AnyReply, RepliesToRequest
  <2>4. Promise!GiveUp(r)
    BY <2>1, <2>2, <2>3, PromiseOpen DEF Finish, Report, Promise!GiveUp, Promise!Tell
  <2>5. Promise!ToldSomething(r)
    BY <2>1, <2>2, ReportTells DEF Finish, Promise!ToldSomething
  <2>. QED  BY <2>4, <2>5 DEF Promise!Next
<1>4. CASE Answered(OwnReplies)
  <2>1. PICK i \in Slots : /\ Used(i) /\ submitted' = submitted
                           /\ \E rid \in OwnReplies[pending[i].req] : Finish(i, "result", rid)
    BY <1>4 DEF Answered
  <2>2. PICK r \in Requests : r = pending[i].req
    BY <2>1, EntryJournal
  <2>3. Promise!Answer(r)
    BY <2>1, <2>2, PromiseOpen, PromiseEligible DEF Finish, Report, Promise!Answer, Promise!Tell
  <2>4. Promise!ToldSomething(r)
    BY <2>1, <2>2, ReportTells DEF Finish, Promise!ToldSomething
  <2>. QED  BY <2>3, <2>4 DEF Promise!Next
<1>5. ASSUME NEW i \in Slots, NEW m \in Answers, Used(i), ExpectedPage(i, m),
             m.rid \in OwnReplies[pending[i].req], submitted' = submitted,
             Report(pending[i].req, "result_chunk", m.rid, m.chunk)
      PROVE  Promise!Next
  <2>1. PICK r \in Requests : r = pending[i].req
    BY <1>5, EntryJournal
  <2>2. Promise!Open(r) /\ m.rid \in Promise!Eligible(r)
    BY <1>5, <2>1, PromiseOpen, PromiseEligible
  <2>3. /\ uplink[r] = <<>> => m.chunk = 0
        /\ uplink[r] # <<>> => m.chunk = Len(uplink[r]) /\ m.rid = uplink[r][1].rid
    BY <1>5, <2>1, NextOfReply
  <2>4. Promise!FirstPiece(r) \/ Promise!NextPiece(r)
    BY <1>5, <2>1, <2>2, <2>3 DEF Report, Promise!FirstPiece, Promise!NextPiece, Promise!Tell
  <2>5. Promise!ToldSomething(r)
    BY <1>5, <2>1, ReportTells DEF Promise!ToldSomething
  <2>. QED  BY <2>4, <2>5 DEF Promise!Next
<1>6. CASE Paged(OwnReplies)
  BY <1>5, <1>6 DEF Paged
<1>7. CASE PagedLast(OwnReplies)
  BY <1>5, <1>7 DEF PagedLast
<1>8. CASE Timed
  BY <1>8 DEF Timed, Promise!serviceVars
<1>. QED  BY <1>1, <1>2, <1>3, <1>4, <1>6, <1>7, <1>8 DEF JournalMove

\* The dispatcher keeps the promise, for any devices, requests and sizes: what
\* is passed on as a request's answer is its own, or late, of a request for
\* the same device that has ended.
THEOREM DispatcherKeepsPromise == Spec => ImplementsCommandService
<1>1. DispatcherInv /\ OwnInv /\ [Next]_vars => [Promise!Next]_(Promise!serviceVars)
  BY OwnMoves, PromiseStep DEF DispatcherInv
<1>. QED
  BY <1>1, PromiseInit, OwnAlways, PTL
  DEF Spec, ImplementsCommandService, Promise!Spec
============================================================================
