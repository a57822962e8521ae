-------------------------- MODULE HubClockProofs --------------------------
(***************************************************************************)
(* Theorems about HubClock, for every number of pings and pongs under way. *)
(***************************************************************************)
EXTENDS HubClock, SequenceTheorems, TLAPS

-----------------------------------------------------------------------------
(***************************************************************************)
(* The inductive invariant.                                                *)
(***************************************************************************)
\* service() holds a reading only between taking and submitting it.
HandInSubmit == newest = "hand" => lc = "submit"

\* Only while a ping is being sent can its pong be one of a ping being sent.
SendingInSend == lc # "send" => \A i \in DOMAIN pongs : pongs[i] # "sending"

\* The pong of a ping that was alone on its connection was read after its stamp.
LoneNotBefore == ~overlap => \A i \in DOMAIN pongs : pongs[i] # "before"

ClockInv ==
    /\ ClockTypeOK
    /\ NewestReadingKept /\ HandInSubmit
    /\ SendingInSend /\ LoneNotBefore /\ SampleSound

-----------------------------------------------------------------------------
(***************************************************************************)
(* The pongs under way.                                                    *)
(***************************************************************************)
\* Reading a pong leaves the ones behind it as they were.
LEMMA PongRead ==
    ASSUME NEW s \in Seq(Readings), s # <<>>
    PROVE  /\ Tail(s) \in Seq(Readings)
           /\ Len(Tail(s)) = Len(s) - 1
           /\ Head(s) \in Readings
           /\ 1 \in DOMAIN s /\ Head(s) = s[1]
           /\ \A i \in DOMAIN Tail(s) : i + 1 \in DOMAIN s /\ Tail(s)[i] = s[i + 1]
BY HeadTailProperties

\* A pong that comes is the last one under way.
LEMMA PongSent ==
    ASSUME NEW s \in Seq(Readings), NEW p \in Readings
    PROVE  /\ Append(s, p) \in Seq(Readings)
           /\ Len(Append(s, p)) = Len(s) + 1
           /\ \A i \in DOMAIN Append(s, p) :
                 \/ i \in DOMAIN s /\ Append(s, p)[i] = s[i]
                 \/ i = Len(s) + 1 /\ Append(s, p)[i] = p
BY AppendProperties

\* After a ping is sent, no pong under way is one of a ping being sent, and one that
\* was is sound.
LEMMA PongsRestamped ==
    ASSUME NEW s \in Seq(Readings)
    PROVE  /\ Restamp(s) \in Seq(Readings)
           /\ Len(Restamp(s)) = Len(s)
           /\ DOMAIN Restamp(s) = DOMAIN s
           /\ \A i \in DOMAIN s :
                 /\ Restamp(s)[i] # "sending"
                 /\ s[i] = "sending" => Restamp(s)[i] = "after"
<1>1. s \in [1 .. Len(s) -> Readings] /\ DOMAIN s = 1 .. Len(s) /\ Len(s) \in Nat
  BY ElementOfSeq, LenProperties
<1>2. \A i \in DOMAIN s : Restamp(s)[i] \in Readings
  BY DEF Restamp, Readings
<1>3. Restamp(s) \in [1 .. Len(s) -> Readings]
  BY <1>1, <1>2 DEF Restamp
<1>4. Restamp(s) \in Seq(Readings) /\ Len(Restamp(s)) = Len(s)
  BY <1>1, <1>3, IsASeq, LenProperties
<1> QED
  BY <1>1, <1>4 DEF Restamp

-----------------------------------------------------------------------------
(***************************************************************************)
(* The invariant is inductive.                                             *)
(***************************************************************************)
LEMMA ClockInvInit == ClockInit => ClockInv
<1> SUFFICES ASSUME ClockInit PROVE ClockInv
  OBVIOUS
<1> USE DEF ClockInit
<1>1. ClockTypeOK
  <2>1. pongs \in Seq(Readings) /\ pings + Len(pongs) <= MaxInFlight
    BY MaxInFlightAssumption
  <2> QED
    BY <2>1 DEF ClockTypeOK
<1>2. DOMAIN pongs = {}
  BY EmptySeq
<1> QED
  BY <1>1, <1>2 DEF ClockInv, NewestReadingKept, HandInSubmit, SendingInSend,
     LoneNotBefore, SampleSound, NoSample

\* Steps that leave pings and pongs alone.
QuietStep ==
    \/ BeginSntp \/ OnSntpTime \/ LookForReading \/ TakeReading \/ SubmitReading
    \/ Ping \/ RequestSync \/ NextLoop \/ Connect
    \/ SntpGoesStale \/ GraceEnds \/ PingFallsDue
    \/ UNCHANGED clockVars

LEMMA QuietPreserves == ClockInv /\ QuietStep => ClockInv'
<1> SUFFICES ASSUME ClockInv, QuietStep PROVE ClockInv'
  OBVIOUS
<1> USE DEF ClockInv, sntpVars, pingVars, uplinkVars, clockVars,
        BeginSntp, OnSntpTime, LookForReading, TakeReading, SubmitReading, Submitted, Ping,
        RequestSync, NextLoop, Connect, SntpGoesStale, GraceEnds, PingFallsDue
<1>1. UNCHANGED <<pings, pongs, overlap, backend>>
  BY DEF QuietStep
<1>2. (/\ lc \in {"service", "take", "submit", "ping", "send", "uplink"}
       /\ {sntpStarted, sntpPending, grace, pingNow, pingDue, outstanding, overlap, link}
              \subseteq BOOLEAN
       /\ newest \in {"none", "mailbox", "hand", "submitted"}
       /\ sntp \in {"never", "fresh", "stale"})'
  BY DEF QuietStep, ClockTypeOK
<1>3. (sntpPending => newest = "mailbox")'
  BY DEF QuietStep, ClockTypeOK
<1>4. NewestReadingKept'
  BY DEF QuietStep, NewestReadingKept
<1>5. HandInSubmit'
  BY DEF QuietStep, HandInSubmit
<1>6. SendingInSend'
  <2>1. lc' # "send" \/ lc = "ping" \/ lc = "send"
    BY DEF QuietStep
  <2>2. lc = "send" => lc' = "send"
    BY DEF QuietStep
  <2> QED
    BY <1>1, <2>1, <2>2 DEF SendingInSend
<1>7. ClockTypeOK'
  BY <1>1, <1>2, <1>3 DEF ClockTypeOK
<1> QED
  BY <1>1, <1>4, <1>5, <1>6, <1>7 DEF LoneNotBefore, SampleSound

\* A ping goes out, or the send fails.
LEMMA SendPreserves ==
    ASSUME ClockInv, SendFails \/ \E answered \in BOOLEAN : SendPing(answered)
    PROVE  ClockInv'
<1> USE DEF ClockInv, sntpVars, pingVars, uplinkVars
<1>1. pongs \in Seq(Readings) /\ Len(pongs) \in Nat /\ pings \in Nat
  BY LenProperties DEF ClockTypeOK
<1>2. CASE SendFails
  <2> DEFINE s == [i \in DOMAIN pongs |-> IF pongs[i] = "sending" THEN "after" ELSE pongs[i]]
  <2>1. pongs \in [1 .. Len(pongs) -> Readings] /\ DOMAIN pongs = 1 .. Len(pongs)
    BY <1>1, ElementOfSeq, LenProperties
  <2>2. s \in [1 .. Len(pongs) -> Readings]
    BY <2>1 DEF Readings
  <2>3. s \in Seq(Readings) /\ Len(s) = Len(pongs)
    BY <1>1, <2>2, IsASeq, LenProperties
  <2>4. \A i \in DOMAIN s : s[i] # "sending" /\ (s[i] = "before" => pongs[i] = "before")
    OBVIOUS
  <2>5. /\ lc' = "uplink" /\ lc = "send" /\ pongs' = s /\ pingDue' = FALSE
        /\ UNCHANGED <<sntpVars, pingNow, outstanding, overlap, link, pings, backend>>
    BY <1>2 DEF SendFails
  <2> HIDE DEF s
  <2>6. ClockTypeOK'
    BY <2>3, <2>5 DEF ClockTypeOK
  <2>7. SendingInSend'
    BY <2>4, <2>5 DEF SendingInSend
  <2>8. LoneNotBefore'
    <3>1. DOMAIN s = DOMAIN pongs
      BY DEF s
    <3> QED
      BY <2>4, <2>5, <3>1 DEF LoneNotBefore
  <2> QED
    BY <2>5, <2>6, <2>7, <2>8 DEF NewestReadingKept, HandInSubmit, SampleSound
<1>3. ASSUME NEW answered \in BOOLEAN, SendPing(answered)
      PROVE  ClockInv'
  <2> DEFINE s == IF answered THEN Append(pongs, "sending") ELSE pongs
  <2>1. s \in Seq(Readings) /\ Len(s) \in Nat
    BY <1>1, PongSent, LenProperties DEF Readings
  <2>2. pings' + Len(s) = pings + Len(pongs) + 1 /\ pings' \in Nat
    BY <1>1, <1>3, PongSent DEF SendPing, Readings
  <2>3. /\ lc' = "uplink" /\ lc = "send" /\ pongs' = Restamp(s)
        /\ pingDue' = FALSE /\ outstanding' = TRUE
        /\ overlap' = (pings # 0 \/ pongs # <<>>)
        /\ pings + Len(pongs) < MaxInFlight
        /\ UNCHANGED <<sntpVars, pingNow, link, backend>>
    BY <1>3 DEF SendPing
  <2>4. overlap' \/ \A i \in DOMAIN s : s[i] = "sending"
    <3>1. SUFFICES ASSUME pongs = <<>>, NEW i \in DOMAIN s PROVE s[i] = "sending"
      BY <2>3
    <3>2. DOMAIN pongs = {}
      BY <3>1, EmptySeq
    <3>3. CASE answered
      BY <1>1, <3>1, <3>2, <3>3, PongSent DEF Readings
    <3> QED
      BY <3>1, <3>2, <3>3
  <2> HIDE DEF s
  <2>5. ClockTypeOK'
    <3>1. pings' + Len(pongs') <= MaxInFlight
      BY <1>1, <2>1, <2>2, <2>3, PongsRestamped, MaxInFlightAssumption
    <3> QED
      BY <2>1, <2>2, <2>3, <3>1, PongsRestamped DEF ClockTypeOK
  <2>6. SendingInSend'
    BY <2>1, <2>3, PongsRestamped DEF SendingInSend
  <2>7. LoneNotBefore'
    BY <2>1, <2>3, <2>4, PongsRestamped DEF LoneNotBefore
  <2> QED
    BY <2>3, <2>5, <2>6, <2>7 DEF NewestReadingKept, HandInSubmit, SampleSound
<1> QED
  BY <1>2, <1>3

\* A pong is read, used or not.
LEMMA PongPreserves ==
    ASSUME ClockInv, IgnorePong \/ SlowPong \/ OnBackendPong
    PROVE  ClockInv'
<1> USE DEF ClockInv, sntpVars, pingVars
<1>1. pongs \in Seq(Readings) /\ Len(pongs) \in Nat /\ pings \in Nat
  BY LenProperties DEF ClockTypeOK
<1>2. /\ pongs # <<>> /\ pongs' = Tail(pongs) /\ lc = "uplink"
      /\ outstanding' \in {outstanding, FALSE}
      /\ UNCHANGED <<lc, sntpVars, pingNow, pingDue, overlap, link, pings>>
  BY DEF IgnorePong, SlowPong, OnBackendPong
<1>3. backend' = backend \/ backend' = [reading |-> Head(pongs), overlap |-> overlap]
  BY DEF IgnorePong, SlowPong, OnBackendPong
<1>4. /\ pongs' \in Seq(Readings) /\ Len(pongs') = Len(pongs) - 1
      /\ Head(pongs) \in Readings /\ 1 \in DOMAIN pongs /\ Head(pongs) = pongs[1]
      /\ \A i \in DOMAIN pongs' : i + 1 \in DOMAIN pongs /\ pongs'[i] = pongs[i + 1]
  BY <1>1, <1>2, PongRead
<1>5. ClockTypeOK'
  <2>1. pings' + Len(pongs') <= MaxInFlight
    BY <1>1, <1>2, <1>4, MaxInFlightAssumption DEF ClockTypeOK
  <2>2. backend' \in [reading : Readings, overlap : BOOLEAN] \cup {NoSample}
    BY <1>3, <1>4 DEF ClockTypeOK
  <2>3. outstanding' \in BOOLEAN
    BY <1>2 DEF ClockTypeOK
  <2> QED
    BY <1>2, <1>4, <2>1, <2>2, <2>3 DEF ClockTypeOK
<1>6. SendingInSend' /\ LoneNotBefore'
  BY <1>2, <1>4 DEF SendingInSend, LoneNotBefore
<1>7. SampleSound'
  BY <1>2, <1>3, <1>4 DEF SampleSound, SendingInSend, LoneNotBefore, Readings
<1> QED
  BY <1>2, <1>5, <1>6, <1>7 DEF NewestReadingKept, HandInSubmit

\* The Backend answers, or the connection closes.
LEMMA NetworkPreserves ==
    ASSUME ClockInv, BackendAnswers \/ Disconnect
    PROVE  ClockInv'
<1> USE DEF ClockInv, sntpVars, pingVars
<1>1. pongs \in Seq(Readings) /\ Len(pongs) \in Nat /\ pings \in Nat
  BY LenProperties DEF ClockTypeOK
<1>2. CASE BackendAnswers
  <2> DEFINE p == IF lc = "send" THEN "sending" ELSE "after"
  <2>1. /\ pongs' = Append(pongs, p) /\ pings > 0 /\ pings' = pings - 1
        /\ UNCHANGED <<lc, sntpVars, pingVars, link, backend>>
    BY <1>2 DEF BackendAnswers
  <2>2. /\ pongs' \in Seq(Readings) /\ Len(pongs') = Len(pongs) + 1
        /\ \A i \in DOMAIN pongs' :
              (i \in DOMAIN pongs /\ pongs'[i] = pongs[i]) \/ pongs'[i] = p
    BY <1>1, <2>1, PongSent DEF Readings
  <2>3. ClockTypeOK'
    <3>1. pings' \in Nat /\ pings' + Len(pongs') = pings + Len(pongs)
      BY <1>1, <2>1, <2>2
    <3> QED
      BY <2>1, <2>2, <3>1 DEF ClockTypeOK
  <2>4. SendingInSend' /\ LoneNotBefore'
    BY <2>1, <2>2 DEF SendingInSend, LoneNotBefore
  <2> QED
    BY <2>1, <2>3, <2>4 DEF NewestReadingKept, HandInSubmit, SampleSound
<1>3. CASE Disconnect
  <2>1. /\ pongs' = <<>> /\ pings' = 0 /\ link' = FALSE
        /\ UNCHANGED <<lc, sntpVars, pingVars, backend>>
    BY <1>3 DEF Disconnect
  <2>2. pongs' \in Seq(Readings) /\ Len(pongs') = 0 /\ DOMAIN pongs' = {}
    BY <2>1, EmptySeq
  <2>3. ClockTypeOK'
    <3>1. pings' + Len(pongs') <= MaxInFlight /\ pings' \in Nat
      BY <2>1, <2>2, MaxInFlightAssumption
    <3>2. link' \in BOOLEAN
      BY <2>1
    <3> QED
      BY <2>1, <2>2, <3>1, <3>2 DEF ClockTypeOK
  <2> QED
    BY <2>1, <2>2, <2>3
       DEF NewestReadingKept, HandInSubmit, SampleSound, SendingInSend, LoneNotBefore
<1> QED
  BY <1>2, <1>3

LEMMA ClockInvStep == ClockInv /\ [ClockNext]_clockVars => ClockInv'
<1> SUFFICES ASSUME ClockInv, [ClockNext]_clockVars PROVE ClockInv'
  OBVIOUS
<1>1. \/ QuietStep
      \/ SendFails \/ \E answered \in BOOLEAN : SendPing(answered)
      \/ IgnorePong \/ SlowPong \/ OnBackendPong
      \/ BackendAnswers \/ Disconnect
  BY DEF ClockNext, LoopTask, Environment, QuietStep
<1> QED
  BY <1>1, QuietPreserves, SendPreserves, PongPreserves, NetworkPreserves

LEMMA ClockInvHolds == ClockSpec => []ClockInv
BY ClockInvInit, ClockInvStep, PTL DEF ClockSpec

-----------------------------------------------------------------------------
(***************************************************************************)
(* The theorems.                                                           *)
(***************************************************************************)
\* However the tcpip task and the loop task interleave, HubClock's variables keep their
\* types, and the mailbox flag is never up for a reading service() has taken already.
THEOREM ClockTyped == ClockSpec => []ClockTypeOK
BY ClockInvHolds, PTL DEF ClockInv

\* The unlocked test of sntpPending_ and the locked copy never lose the newest reading.
THEOREM ReadingKept == ClockSpec => []NewestReadingKept
BY ClockInvHolds, PTL DEF ClockInv

\* Whatever is lost, late, or answered while sendTXT() still blocks: the sample made of
\* the pong of a ping that was alone on its connection holds what it claims.
THEOREM LoneSampleSound == ClockSpec => []SampleSound
BY ClockInvHolds, PTL DEF ClockInv
============================================================================
