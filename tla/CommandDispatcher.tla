------------------------- MODULE CommandDispatcher -------------------------
(***************************************************************************)
(* EspNowCommandDispatcher: the Hub's half of the reverse command channel. *)
(*                                                                         *)
(* The Backend's commands arrive through sendCommand() and are unicast to  *)
(* a device as a paced burst of ESP-NOW fragments, re-sent until the       *)
(* device acks or answers or a budget runs out.  A reply too big for one   *)
(* frame is pulled page by page.  What the dispatcher hands to             *)
(* HubUplinkClient::sendDeviceMessage() is kept, per request, in uplink.   *)
(*                                                                         *)
(* Two tasks run this code.  sendCommand(), service() and                  *)
(* handleControlResponse() run on the loop task, one at a time;            *)
(* handleControlAck() runs on the Wi-Fi task.  The two share pending_[]    *)
(* without a lock.  service() is therefore modelled entry by entry (svc),  *)
(* and for each entry as the tests that choose what to do (choice) and the *)
(* doing; handleControlAck() as the search for an entry and the write      *)
(* (acking).  Each may fall between the steps of the other.                *)
(*                                                                         *)
(* Time is abstracted to what the code compares: an entry's `elapsed`      *)
(* says whether the wait it is in has run out -- kResendIntervalMs since   *)
(* lastSentMs while it is not acked, responseTimeoutMs since ackedMs once  *)
(* it is.                                                                  *)
(***************************************************************************)
EXTENDS Integers, FiniteSets, Sequences

CONSTANTS
    Devices,      \* the devices, each with its one MAC and one device_uid
    Requests,     \* the request_ids the Backend may issue, each at most once
    NoRequest,    \* the request_id of a default PendingCommand
    Target,       \* Target[r]: the device request r is addressed to
    Frags,        \* Frags[r]: fragments of r's payload, 0 when it does not fit
    Pages,        \* Pages[r]: pages of the device's reply, 0 for a plain reply
    MaxPending,   \* kEspNowCommandMaxPending
    MaxAttempts,  \* kMaxAttempts
    MaxExecs      \* bound: how often one device executes one request

ASSUME ConstantsAssumption ==
    /\ NoRequest \notin Requests
    /\ Target \in [Requests -> Devices]
    /\ Frags \in [Requests -> Nat]
    /\ Pages \in [Requests -> Nat]
    /\ MaxPending \in Nat \ {0}
    /\ MaxAttempts \in Nat \ {0}
    /\ MaxExecs \in Nat \ {0}

VARIABLES
    pending,    \* pending_[]
    out,        \* the burst in flight: outMac_, outFrags_, outSent_, outCount_
    svc,        \* the entry service() is at; 0 when the loop task is elsewhere
    choice,     \* what service()'s tests of that entry have led to; "look" before
    acking,     \* the entry handleControlAck() found but has not yet written, if any
    afterNow,   \* slots whose ackedMs is later than the `now` service() captured
    submitted,  \* requests sendCommand() was called with
    uplink,     \* uplink[r]: the messages sent to the Backend for request r
    air,        \* messages under way between the Hub and the devices
    execs       \* execs[r]: how often r's device has executed r

hubVars == <<pending, out, svc, choice, acking, afterNow, submitted, uplink>>
vars == <<hubVars, air, execs>>

-----------------------------------------------------------------------------
(***************************************************************************)
(* Data.  A reply is identified by the execution that produced it: <<r, n>>*)
(* is the n-th execution of request r (the device's rid).  The Hub sees    *)
(* neither component of an ack's or a plain reply's identity; they are     *)
(* carried so that properties can speak of where an answer came from.      *)
(***************************************************************************)
Slots == 1 .. MaxPending
Rids == (Requests \cup {NoRequest}) \X (0 .. MaxExecs)

Msg(type, dev, rid, chunk) ==
    [type |-> type, dev |-> dev, rid |-> rid, chunk |-> chunk]

\* What an entry (re)sends: the command itself, then each result_page ask.
Payload(e) ==
    IF e.paging THEN Msg("result_page", Target[e.req], e.rid, e.next)
                ELSE Msg("command", Target[e.req], <<e.req, 0>>, 0)

\* A page ask always fits one fragment; 0 is EspNowFragmenter's "too large".
FragCount(p) == IF p.type = "command" THEN Frags[p.rid[1]] ELSE 1

PendingCommand ==
    [req |-> NoRequest, attempts |-> 0, elapsed |-> FALSE, acked |-> FALSE,
     paging |-> FALSE, rid |-> <<NoRequest, 0>>, next |-> 0]

Used(i) == pending[i].req # NoRequest
Device(i) == Target[pending[i].req]

EntryOf(d) == {i \in Slots : Used(i) /\ Device(i) = d}

Report(r, type, rid, chunk) ==
    uplink' = [uplink EXCEPT ![r] =
                  Append(@, [type |-> type, rid |-> rid, chunk |-> chunk])]

\* The errors the Hub answers with by itself.
ErrorMessages ==
    {"device_not_connected_to_hub", "device_command_already_in_flight",
     "hub_command_roster_full", "command_too_large", "command_delivery_timeout",
     "result_page_timeout"}

\* Mutant: the request is reported as ended but keeps its entry.
FinishKeepingEntry(i, type, rid) ==
    /\ UNCHANGED pending
    /\ Report(pending[i].req, type, rid, 0)

\* failPending(), completePending() and rejectImmediately() all end a request.
Finish(i, type, rid) ==
    /\ pending' = [pending EXCEPT ![i] = PendingCommand]
    /\ Report(pending[i].req, type, rid, 0)

Reject(r, message) == Report(r, message, <<r, 0>>, 0)

-----------------------------------------------------------------------------
(***************************************************************************)
(* The outbound burst.                                                     *)
(***************************************************************************)
NoBurst == [payload |-> Msg("none", NoRequest, <<NoRequest, 0>>, 0), sent |-> 0, count |-> 0]

Busy == out.sent < out.count

\* The burst so far; with its last fragment it is on the air and forgotten.
Send(p, sent, count, inAir) ==
    IF sent < count
    THEN out' = [payload |-> p, sent |-> sent, count |-> count] /\ air' = inAir
    ELSE out' = NoBurst /\ air' = inAir \cup {p}

\* Mutant: the outbound buffer is overwritten while a burst drains.
QueueOverBurst(p) ==
    /\ FragCount(p) > 0
    /\ Send(p, 1, FragCount(p), air)

\* queueFragmentsTo(), Queued: the first fragment goes immediately.
Queue(p) ==
    /\ ~Busy
    /\ FragCount(p) > 0
    /\ Send(p, 1, FragCount(p), air)

\* queueFragmentsTo(), Busy or TooLarge: nothing is queued.
CannotQueue(p) == Busy \/ FragCount(p) = 0

-----------------------------------------------------------------------------
(***************************************************************************)
(* sendCommand(), on the loop task.  Whether macForDeviceUid() resolves    *)
(* the device is the roster's doing and may differ from call to call.      *)
(***************************************************************************)
FreeSlots == {i \in Slots : ~Used(i)}
FirstFree == CHOOSE i \in FreeSlots : \A j \in FreeSlots : i <= j

RejectUnknownDevice(r) ==
    /\ Reject(r, "device_not_connected_to_hub")
    /\ UNCHANGED <<pending, out, air>>

RejectInFlight(r) ==
    /\ EntryOf(Target[r]) # {}
    /\ Reject(r, "device_command_already_in_flight")
    /\ UNCHANGED <<pending, out, air>>

\* Mutant: a second command for a device with one in flight is accepted.
AcceptableAlways(r) == r \in Requests

Acceptable(r) == EntryOf(Target[r]) = {}

RejectRosterFull(r) ==
    /\ Acceptable(r)
    /\ FreeSlots = {}
    /\ Reject(r, "hub_command_roster_full")
    /\ UNCHANGED <<pending, out, air>>

\* sendCommand() relies on a free entry being a default one; a late write of
\* handleControlAck() may have left it acked.
NewEntry(r, attempts) ==
    [PendingCommand EXCEPT !.req = r, !.attempts = attempts,
                           !.acked = pending[FirstFree].acked,
                           !.elapsed = attempts = 0 /\ ~pending[FirstFree].acked]

AcceptAndSend(r) ==
    /\ Acceptable(r)
    /\ FreeSlots # {}
    /\ Queue(Payload(NewEntry(r, 1)))
    /\ pending' = [pending EXCEPT ![FirstFree] = NewEntry(r, 1)]
    /\ UNCHANGED uplink

\* Deferred behind another burst: backdated, and the attempt is not counted.
AcceptDeferred(r) ==
    /\ Acceptable(r)
    /\ FreeSlots # {}
    /\ Busy
    /\ pending' = [pending EXCEPT ![FirstFree] = NewEntry(r, 0)]
    /\ UNCHANGED <<uplink, out, air>>

RejectTooLarge(r) ==
    /\ Acceptable(r)
    /\ FreeSlots # {}
    /\ ~Busy
    /\ Frags[r] = 0
    /\ Reject(r, "command_too_large")
    /\ pending' = [pending EXCEPT ![FirstFree] = PendingCommand]
    /\ UNCHANGED <<out, air>>

SendCommandTo(r, known) ==
    /\ svc = 0
    /\ r \notin submitted
    /\ submitted' = submitted \cup {r}
    /\ \/ ~known /\ RejectUnknownDevice(r)
       \/ known /\ RejectInFlight(r)
       \/ known /\ RejectRosterFull(r)
       \/ known /\ AcceptAndSend(r)
       \/ known /\ AcceptDeferred(r)
       \/ known /\ RejectTooLarge(r)
    /\ UNCHANGED <<svc, choice, acking, afterNow, execs>>

SendCommand(r) == \E known \in BOOLEAN : SendCommandTo(r, known)

-----------------------------------------------------------------------------
(***************************************************************************)
(* service(), on the loop task: drain the burst, then visit the entries in *)
(* order.  A break and the end of the loop both return to svc = 0.         *)
(***************************************************************************)
GoTo(i) ==
    /\ svc' = IF i > MaxPending THEN 0 ELSE i
    /\ afterNow' = IF svc' = 0 THEN {} ELSE afterNow
    /\ choice' = "look"

\* servicePacedSend() sends one fragment; an unfinished burst ends the tick.
Drain ==
    /\ svc = 0
    /\ Busy
    /\ Send(out.payload, out.sent + 1, out.count, air)
    /\ GoTo(IF out.sent + 1 < out.count THEN 0 ELSE 1)
    /\ UNCHANGED <<pending, acking, submitted, uplink, execs>>

BeginService ==
    /\ svc = 0
    /\ ~Busy
    /\ GoTo(1)
    /\ UNCHANGED <<pending, out, acking, submitted, uplink, air, execs>>

\* now - ackedMs >= responseTimeoutMs in uint32 arithmetic: also true when
\* the ack was stamped after `now` was read, because the difference wraps.
ResponseOverdue(i) == pending[i].elapsed \/ i \in afterNow

\* Mutant: the budget is checked one attempt too late.
ExhaustedLate(i) == pending[i].attempts > MaxAttempts

Exhausted(i) == pending[i].attempts >= MaxAttempts

Unanswered(i) == Used(i) /\ pending[i].acked /\ ResponseOverdue(i)

Undelivered(i) == Used(i) /\ ~pending[i].acked /\ Exhausted(i)

\* Mutant: an entry is due for a resend whether it is acked or not.
DueThoughAcked(i) == Used(i) /\ ~Exhausted(i) /\ pending[i].elapsed

Due(i) == Used(i) /\ ~pending[i].acked /\ ~Exhausted(i) /\ pending[i].elapsed

SkipEntry(i) ==
    /\ ~Unanswered(i) /\ ~Undelivered(i) /\ ~Due(i)
    /\ GoTo(i + 1)

ChooseFor(i) ==
    /\ \/ Unanswered(i) /\ choice' = "unanswered"
       \/ Undelivered(i) /\ choice' = "undelivered"
       \/ Due(i) /\ choice' = "resend"
    /\ UNCHANGED <<svc, afterNow>>

LookAtEntry ==
    /\ svc # 0
    /\ choice = "look"
    /\ SkipEntry(svc) \/ ChooseFor(svc)
    /\ UNCHANGED <<pending, out, acking, submitted, uplink, air, execs>>

Fail(i) ==
    /\ \/ choice = "unanswered"
       \/ choice = "undelivered"
    /\ Finish(i, IF choice = "undelivered" /\ pending[i].paging
                 THEN "result_page_timeout" ELSE "command_delivery_timeout",
              <<pending[i].req, 0>>)
    /\ GoTo(i + 1)
    /\ UNCHANGED <<out, air>>

\* Mutant: a resend is not counted against the budget.
ResendUncounted(i) ==
    /\ choice = "resend"
    /\ Queue(Payload(pending[i]))
    /\ pending' = [pending EXCEPT ![i].elapsed = pending[i].acked /\ @]
    /\ GoTo(i + 1)
    /\ UNCHANGED uplink

\* Whether an ack came after the tests makes no difference to what is sent; but
\* lastSentMs does not cut short the wait for the response that it began.
Resent(e) == [e EXCEPT !.attempts = @ + 1, !.elapsed = e.acked /\ @]

Resend(i) ==
    /\ choice = "resend"
    /\ Queue(Payload(pending[i]))
    /\ pending' = [pending EXCEPT ![i] = Resent(pending[i])]
    /\ GoTo(i + 1)
    /\ UNCHANGED uplink

BreakOff(i) ==
    /\ choice = "resend"
    /\ CannotQueue(Payload(pending[i]))
    /\ GoTo(0)
    /\ UNCHANGED <<pending, out, uplink, air>>

ActOnEntry ==
    /\ svc # 0
    /\ Fail(svc) \/ Resend(svc) \/ BreakOff(svc)
    /\ UNCHANGED <<acking, submitted, execs>>

Service == Drain \/ BeginService \/ LookAtEntry \/ ActOnEntry

-----------------------------------------------------------------------------
(***************************************************************************)
(* handleControlAck(), on the Wi-Fi task: it finds the entry, then writes  *)
(* it, whatever has become of the entry by then.  While service() is       *)
(* running, its millis() may or may not be past the `now` service() holds. *)
(***************************************************************************)
FindAcked(m) ==
    /\ acking = {}
    /\ m.type = "ack"
    /\ air' = air \ {m}
    /\ acking' = {[slot |-> i, rid |-> m.rid] :
                      i \in {j \in EntryOf(m.dev) : ~pending[j].acked /\ ~pending[j].paging}}
    /\ UNCHANGED <<pending, out, svc, choice, afterNow, submitted, uplink, execs>>

MarkAcked(a) ==
    /\ acking' = {}
    /\ pending' = [pending EXCEPT ![a.slot].acked = TRUE, ![a.slot].elapsed = FALSE]
    /\ afterNow' \in IF svc = 0 THEN {afterNow} ELSE {afterNow, afterNow \cup {a.slot}}
    /\ UNCHANGED <<out, svc, choice, submitted, uplink, air, execs>>

(***************************************************************************)
(* handleControlResponse(), on the loop task: an answer m that was matched *)
(* to entry i is handled.  inAir is what is under way besides m.           *)
(***************************************************************************)
\* completePending(): also a device's refusal of a page ask.
Complete(i, m, inAir) ==
    /\ m.type = "plain"
    /\ Finish(i, "result", m.rid)
    /\ air' = inAir
    /\ UNCHANGED out

\* Mutant: while paging, any page is taken for the one that was asked for.
AnyPage(i, m) == pending[i].paging \/ m.chunk = 0

\* handlePage(): a stray page, or the repeat of a page already forwarded.
ExpectedPage(i, m) ==
    IF pending[i].paging
    THEN m.rid = pending[i].rid /\ m.chunk = pending[i].next
    ELSE m.chunk = 0

IgnorePage(i, m, inAir) ==
    /\ m.type = "page"
    /\ ~ExpectedPage(i, m)
    /\ air' = inAir
    /\ UNCHANGED <<pending, out, uplink>>

LastPage(m) == m.chunk + 1 >= Pages[m.rid[1]]

\* The entry once it waits for the page after m.
NextPage(i, m, attempts) ==
    [pending[i] EXCEPT !.paging = TRUE, !.rid = m.rid, !.next = m.chunk + 1,
                       !.acked = FALSE, !.attempts = attempts, !.elapsed = attempts = 0]

\* The next page is asked for before this one is forwarded.
ForwardPage(i, m, inAir) ==
    /\ m.type = "page"
    /\ ExpectedPage(i, m)
    /\ ~LastPage(m)
    /\ Report(pending[i].req, "result_chunk", m.rid, m.chunk)
    /\ IF Busy
       THEN /\ pending' = [pending EXCEPT ![i] = NextPage(i, m, 0)]
            /\ air' = inAir
            /\ UNCHANGED out
       ELSE /\ pending' = [pending EXCEPT ![i] = NextPage(i, m, 1)]
            /\ Send(Payload(NextPage(i, m, 1)), 1, 1, inAir)

\* Mutant: the entry is kept after the last page.
ForwardLastPageKeepEntry(i, m, inAir) ==
    /\ m.type = "page"
    /\ ExpectedPage(i, m)
    /\ LastPage(m)
    /\ Report(pending[i].req, "result_chunk", m.rid, m.chunk)
    /\ air' = inAir
    /\ UNCHANGED <<pending, out>>

ForwardLastPage(i, m, inAir) ==
    /\ m.type = "page"
    /\ ExpectedPage(i, m)
    /\ LastPage(m)
    /\ Report(pending[i].req, "result_chunk", m.rid, m.chunk)
    /\ pending' = [pending EXCEPT ![i] = PendingCommand]
    /\ air' = inAir
    /\ UNCHANGED out

HandleReply(i, m, inAir) ==
    \/ Complete(i, m, inAir)
    \/ IgnorePage(i, m, inAir)
    \/ ForwardPage(i, m, inAir)
    \/ ForwardLastPage(i, m, inAir)

\* A device's ack precedes its reply on the air: when the reply is here, an ack
\* of the same execution has been handled or is lost.
Taken(m) == {m} \cup {a \in air : a.type = "ack" /\ a.rid = m.rid}

DropResponse(m) ==
    /\ EntryOf(m.dev) = {}
    /\ air' = air \ Taken(m)
    /\ UNCHANGED <<pending, out, uplink>>

\* A reply that is handed over whole, with the MAC of its sender.
ControlResponse(m) ==
    /\ svc = 0
    /\ m.type \in {"plain", "page"}
    /\ \A a \in acking : a.rid # m.rid
    /\ \/ DropResponse(m)
       \/ \E i \in EntryOf(m.dev) : HandleReply(i, m, air \ Taken(m))
    /\ UNCHANGED <<svc, choice, acking, afterNow, submitted, execs>>

-----------------------------------------------------------------------------
(***************************************************************************)
(* The environment: time, the radio and the devices.  Messages are delayed *)
(* and reordered at will, and a message nobody ever takes is lost.         *)
(***************************************************************************)
WaitRunsOut(i) ==
    /\ Used(i)
    /\ ~pending[i].elapsed
    /\ pending' = [pending EXCEPT ![i].elapsed = TRUE]
    /\ UNCHANGED <<out, svc, choice, acking, afterNow, submitted, uplink, air, execs>>

\* A device acks a complete command frame, executes it and answers.
Execute(m) ==
    LET r == m.rid[1]
        rid == <<r, execs[r] + 1>>
        reply == IF Pages[r] = 0 THEN "plain" ELSE "page"
    IN  /\ m.type = "command"
        /\ execs[r] < MaxExecs
        /\ execs' = [execs EXCEPT ![r] = @ + 1]
        /\ air' = (air \ {m}) \cup {Msg("ack", m.dev, rid, 0), Msg(reply, m.dev, rid, 0)}
        /\ UNCHANGED hubVars

\* A page ask is answered with the page, or refused (result_page_expired).
AnswerPageAsk(m) ==
    /\ m.type = "result_page"
    /\ \E reply \in {Msg("page", m.dev, m.rid, m.chunk), Msg("plain", m.dev, m.rid, 0)} :
          air' = (air \ {m}) \cup {reply}
    /\ UNCHANGED <<hubVars, execs>>

-----------------------------------------------------------------------------
Init ==
    /\ pending = [i \in Slots |-> PendingCommand]
    /\ out = [payload |-> Msg("none", NoRequest, <<NoRequest, 0>>, 0), sent |-> 0, count |-> 0]
    /\ svc = 0
    /\ choice = "look"
    /\ acking = {}
    /\ afterNow = {}
    /\ submitted = {}
    /\ uplink = [r \in Requests |-> <<>>]
    /\ air = {}
    /\ execs = [r \in Requests |-> 0]

Next ==
    \/ \E r \in Requests : SendCommand(r)
    \/ Service
    \/ \E m \in air : FindAcked(m) \/ ControlResponse(m) \/ Execute(m) \/ AnswerPageAsk(m)
    \/ \E a \in acking : MarkAcked(a)
    \/ \E i \in Slots : WaitRunsOut(i)

Spec == Init /\ [][Next]_vars

(***************************************************************************)
(* loop() calls service() on every iteration, and a wait that nothing cuts *)
(* short runs out.  Nothing is assumed of the radio, the devices, the      *)
(* Backend or the roster.                                                  *)
(***************************************************************************)
Fairness == WF_vars(Service) /\ \A i \in Slots : WF_vars(WaitRunsOut(i))

FairSpec == Spec /\ Fairness

-----------------------------------------------------------------------------
(***************************************************************************)
(* Properties.                                                             *)
(***************************************************************************)
Entry ==
    [req : Requests \cup {NoRequest}, attempts : 0 .. MaxAttempts, elapsed : BOOLEAN,
     acked : BOOLEAN, paging : BOOLEAN, rid : Rids, next : Nat]

Payloads ==
    [type : {"none", "command", "result_page"}, dev : Devices \cup {NoRequest},
     rid : Rids, chunk : Nat]

Messages ==
    [type : {"command", "result_page", "ack", "plain", "page"}, dev : Devices,
     rid : Rids, chunk : Nat]

Reports ==
    [type : ErrorMessages \cup {"result", "result_chunk"}, rid : Rids, chunk : Nat]

\* The type invariant.
TypeOK ==
    /\ pending \in [Slots -> Entry]
    /\ out \in [payload : Payloads, sent : Nat, count : Nat]
    /\ svc \in 0 .. MaxPending
    /\ choice \in {"look", "unanswered", "undelivered", "resend"}
    /\ acking \subseteq [slot : Slots, rid : Rids]
    /\ afterNow \subseteq Slots
    /\ submitted \subseteq Requests
    /\ uplink \in [Requests -> Seq(Reports)]
    /\ air \subseteq Messages
    /\ execs \in [Requests -> 0 .. MaxExecs]

\* A message that ends its request: a result, or the last page of a reply.
Terminal(m) == m.type # "result_chunk" \/ m.chunk + 1 >= Pages[m.rid[1]]

Resolved(r) == \E k \in 1 .. Len(uplink[r]) : Terminal(uplink[r][k])

\* The device acks and answers carry no request_id, so matching by MAC is
\* only possible while no two entries are for the same device.
OneCommandPerDevice ==
    \A i, j \in Slots : Used(i) /\ Used(j) /\ i # j => Device(i) # Device(j)

\* No request is dropped without an answer and none lingers after its answer:
\* a request is unresolved exactly as long as it occupies an entry, whatever
\* mix of resends, acks, pages and timeouts it goes through.
NoRequestForgotten ==
    \A r \in Requests :
        (r \in submitted /\ ~Resolved(r)) <=> (\E i \in Slots : pending[i].req = r)

\* r's own replies are those of its executions.  As replies are matched by MAC
\* alone, a late reply to another request for the same device may pass for one.
RepliesToRequest == [r \in Requests |-> {r} \X (0 .. MaxExecs)]
SameDevice == [r \in Requests |-> {q \in Requests : Target[q] = Target[r]}]
ReplyPages == [p \in Requests \X (0 .. MaxExecs) |-> Pages[p[1]]]

Promise == INSTANCE CommandService
    WITH asked <- submitted, answers <- uplink, RepliesTo <- RepliesToRequest,
         Confusable <- SameDevice, PagesOf <- ReplyPages, Errors <- ErrorMessages

\* The dispatcher keeps the promise CommandService states, step by step:
\* sendCommand() asks or refuses, and every message reported afterwards is
\* the one answer, or the next page of the one reply, of an open request; a
\* reply that is not the request's own is a late one, to a request that ended.
ImplementsCommandService == Promise!Spec

\* What the Backend gets for one request is one result, or the pages 0, 1, 2,
\* ... of one single reply, possibly cut short by one error; nothing follows
\* the end.  Duplicate executions, repeated pages and stale replies are what
\* could break this.
AnswerWellFormed ==
    \A r \in Requests : \A k \in 1 .. Len(uplink[r]) :
        LET m == uplink[r][k]
        IN  /\ Terminal(m) => k = Len(uplink[r])
            /\ m.type = "result_chunk" => m.chunk = k - 1 /\ m.rid = uplink[r][1].rid

\* An answer reported for a request came from the device the request was for,
\* although replies name no request and entries are reused across devices.
AnswerFromOwnDevice ==
    \A r \in Requests : \A k \in 1 .. Len(uplink[r]) :
        Target[uplink[r][k].rid[1]] = Target[r]

\* There is one outbound buffer: a burst that has begun is never replaced
\* before its last fragment has gone out (the receiver would wait for
\* fragments that are never sent).
NoTruncatedBurst ==
    [][Busy => \/ out' \in {out, [out EXCEPT !.sent = @ + 1]}
               \/ out.sent + 1 = out.count /\ out' = NoBurst /\ out.payload \in air']_vars

CommandOf(i) == Msg("command", Device(i), <<pending[i].req, 0>>, 0)
Begins(p) == out.payload # p /\ (out'.payload = p \/ p \in air' \ air)

\* "Delivery confirmed -- never resend the raw command again": once its ack was
\* handled, no new burst of the command is begun for the entry.  The code breaks
\* this when the ack is handled between service()'s tests and its send.
NoResendOnceAcked ==
    [][\A i \in Slots : Used(i) /\ pending[i].acked => ~Begins(CommandOf(i))]_vars

\* What holds of resends although the ack may be handled between service()'s
\* tests and its send: an entry is not chosen for a resend any more once it is
\* acked, the one it was chosen for before is the only one that may still go
\* out, and after the first page there is none at all.
ChosenForResend(i) == svc = i /\ choice = "resend"
OneResendPastAck ==
    [][\A i \in Slots : Used(i) =>
          /\ pending[i].paging => ~Begins(CommandOf(i))
          /\ pending[i].acked /\ (Begins(CommandOf(i)) \/ ChosenForResend(i)')
                 => ChosenForResend(i)]_vars

\* Every command handed to the dispatcher is eventually answered, provided no
\* command that is too large to send ever sits in an entry.
CommandsAnswered ==
    [](\A i \in Slots : Used(i) => Frags[pending[i].req] > 0)
        => \A r \in Requests : r \in submitted ~> Resolved(r)

\* "Still bounded, so a stuck slot does not block this device's next command
\* forever", and a payload that does not fit is failed "at once": every
\* command is eventually answered, the oversized ones included.
EveryCommandAnswered == \A r \in Requests : r \in submitted ~> Resolved(r)

\* "unsolicited/late response -- nothing pending to match it to": what is
\* reported for a request is an answer to that request, not a late answer to
\* an earlier one.
AnswersOwnRequest ==
    \A r \in Requests : \A k \in 1 .. Len(uplink[r]) : uplink[r][k].rid[1] = r

\* The wait for the response is "anchored to the ack event": an entry whose
\* ack was handled is not failed before its response deadline has passed.  The
\* code breaks this when the ack is stamped after service() has read the time.
DeadlineAnchoredToAck ==
    [][\A i \in Slots :
          Used(i) /\ pending[i].acked /\ ~pending[i].elapsed /\ ~Used(i)'
              => LET r == pending[i].req IN
                 uplink'[r][Len(uplink'[r])].type # "command_delivery_timeout"]_vars

\* An ack "marks the pending command for this device as delivered": an entry
\* is acked only when its own command has reached the device.
AckedMeansDelivered ==
    \A i \in Slots : Used(i) /\ pending[i].acked => execs[pending[i].req] > 0
\* "Only one command is ever in flight per device, nothing to disambiguate", so
\* that acks and responses can be matched by MAC alone: a command is marked as
\* delivered only when it was itself delivered, and every answer reported for
\* a request is an answer to that request.
NothingToDisambiguate == AckedMeansDelivered /\ AnswersOwnRequest
============================================================================
