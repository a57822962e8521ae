-------------------------- MODULE HubStartupProofs --------------------------
(***************************************************************************)
(* Theorems about HubStartup and the PowerManager it starts with, for any  *)
(* list of charger registers, any networks and any quick-boot threshold.   *)
(***************************************************************************)
EXTENDS HubStartup, SequenceTheorems, TLAPS

-----------------------------------------------------------------------------
(***************************************************************************)
(* The inductive invariant.  Its core says how far the row of NVS writes   *)
(* in progress has come: what is still to be written is the rest of one of *)
(* the code's rows, and NVS already holds what came before.                *)
(***************************************************************************)
\* The writes the code does: a value of its key's type for a key.
Writes ==
    ({"ssid", "pass"} \X (Networks \cup {""})) \cup ({"id", "url", "token"} \X BOOLEAN)
        \cup ({"mode"} \X (Modes \cup {""})) \cup ({"channel"} \X Channels)
        \cup ({"count"} \X (0 .. Threshold - 1))

\* What is left to write is the end of the row ws, and NVS holds what came before it.
Planned(ws) ==
    /\ Len(todo) \in 1 .. Len(ws)
    /\ \A i \in 1 .. Len(todo) : todo[i] = ws[Len(ws) - Len(todo) + i]
    /\ \A j \in 1 .. Len(ws) - Len(todo) : nvs[ws[j][1]] = ws[j][2]

QuickReset == << <<"count", 0>> >> \o FactoryReset

CountRow(n) == << <<"count", n>> >>
WifiRow(network) == << <<"ssid", network>>, <<"pass", network>> >>
ChannelRow(channel) == << <<"channel", channel>> >>

\* What set_config writes: the form without its Wi-Fi.
ApplyRow(form) == ApplyWrites(form.mode, form.url, form.token)

PlanInv ==
    /\ todo \in Seq(Writes)
    /\ job = "quick_reset" => Planned(QuickReset) /\ quick = Threshold
    /\ job = "reset" => Planned(FactoryReset)
    /\ job = "count" => \E n \in 1 .. Threshold - 1 : n <= quick /\ Planned(CountRow(n))
    /\ job = "clear" => Planned(CountRow(0))
    /\ job = "config" =>
          \E form \in Forms :
             /\ Applicable(form.mode, form.url)
             /\ \/ Planned(CommitWrites(form))
                \/ nvs.ssid # "" /\ Planned(ApplyRow(form))
    /\ job = "wifi" => nvs.id /\ \E network \in Networks : Planned(WifiRow(network))
    /\ job = "channel" => nvs.ssid # "" /\ \E channel \in Channels : Planned(ChannelRow(channel))

\* Where the loop task is, by what it writes.
JobPlace ==
    /\ job \in {"count", "quick_reset"} => pc = "load"
    /\ job = "clear" => pc = "serve"
    /\ job = "channel" => pc = "loop"
    /\ job \in {"config", "reset", "wifi"} => pc = "restart"

\* A Hub that has joined a network, or tries to, has its credentials.
Joining == setupAp \/ wifi \/ pc \in {"connect", "update"}
JoinedHasWifi == Joining /\ pc # "restart" => nvs.ssid # ""

BootingAlone ==
    /\ pc \in {"power", "load", "connect"} => ~wifi /\ ~setupAp /\ ~cleared
    /\ pc = "power" => ~portalMode

PortalAlone == portalMode => ~Joining

\* The setup page is open because there are no credentials.
PortalEmpty ==
    portalMode /\ job \notin Settings /\ pc \in {"load", "loop", "serve"} => nvs.ssid = ""

\* Unless a write of settings was cut short, no credentials means no settings.
FreshSettings ==
    /\ nvs.ssid = "" /\ nvs.pass = "" /\ ~nvs.id /\ nvs.mode = ""
    /\ ~nvs.url /\ ~nvs.token /\ nvs.channel = "stable"

EmptyIsFresh == ~torn /\ job \notin Settings /\ nvs.ssid = "" => FreshSettings

TargetStored == ~torn /\ job \notin Settings /\ nvs.mode = "manual" => nvs.url

FormApplicable == page # NoForm => page \in Forms /\ Applicable(page.mode, page.url)

\* The counter in NVS never runs ahead of the quick boots that happened.
CountBehind == nvs.count <= quick /\ (pc = "power" => nvs.count < quick)

ClearedCount ==
    /\ cleared => nvs.count = 0 \/ job = "clear"
    /\ pc = "serve" /\ graceOver => cleared

\* What speaks of NVS, and what does not.
StoredInv ==
    /\ PlanInv
    /\ JoinedHasWifi /\ PortalEmpty
    /\ EmptyIsFresh /\ TargetStored /\ WifiImpliesIdentity
    /\ CountBehind /\ ClearedCount

PlaceInv == JobPlace /\ BootingAlone /\ PortalAlone /\ FormApplicable

SettingsInv == StartupTypeOK /\ StoredInv /\ PlaceInv

\* The charger: what was read back holds, and a profile counts as configured only
\* when all of it was.
ReadBackHolds ==
    charger.step = "verify" => \A i \in 1 .. charger.next - 1 : chip[Registers[i]]

ConfiguredAtEnd == charger.configured => charger.step \in {"poll", "up"}

PowerInv == PowerTypeOK /\ ConfiguredAtEnd /\ ReadBackHolds /\ ConfiguredIsVerified

-----------------------------------------------------------------------------
(***************************************************************************)
(* Rows of writes.                                                         *)
(***************************************************************************)
\* A row writes each key once.
Row(ws) ==
    /\ ws \in Seq(Writes)
    /\ ws # <<>>
    /\ \A i, j \in 1 .. Len(ws) : ws[i][1] = ws[j][1] => i = j

LEMMA ThresholdNat == Threshold \in Nat \ {0}
  BY StartupConstants DEF StartupConstants

LEMMA Pieces ==
    ASSUME NEW s \in Seq(Writes), s # <<>>
    PROVE  /\ Len(s) \in Nat \ {0}
           /\ Head(s) = s[1]
           /\ Tail(s) \in Seq(Writes)
           /\ Len(Tail(s)) = Len(s) - 1
           /\ \A i \in 1 .. Len(s) - 1 : Tail(s)[i] = s[i + 1]
           /\ \A i \in 1 .. Len(s) : s[i] \in Writes
<1>1. Len(s) \in Nat \ {0}
  BY EmptySeq
<1>2. Head(s) = s[1]
  OBVIOUS
<1>3. /\ Tail(s) \in Seq(Writes)
      /\ Len(Tail(s)) = Len(s) - 1
      /\ \A i \in 1 .. Len(Tail(s)) : Tail(s)[i] = s[i + 1]
  BY HeadTailProperties
<1>4. \A i \in 1 .. Len(s) : s[i] \in Writes
  OBVIOUS
<1>. QED  BY <1>1, <1>2, <1>3, <1>4

LEMMA NotEmpty ==
    ASSUME NEW s, Len(s) # 0
    PROVE  s # <<>>
  OBVIOUS

LEMMA TwoWrites ==
    ASSUME NEW a \in Writes, NEW b \in Writes
    PROVE  /\ <<a, b>> \in Seq(Writes) /\ Len(<<a, b>>) = 2
           /\ <<a, b>>[1] = a /\ <<a, b>>[2] = b
  OBVIOUS

LEMMA SevenWrites ==
    ASSUME NEW a \in Writes, NEW b \in Writes, NEW c \in Writes, NEW d \in Writes,
           NEW e \in Writes, NEW f \in Writes, NEW g \in Writes
    PROVE  <<a, b, c, d, e, f, g>> \in Seq(Writes)
  OBVIOUS

\* The key of a write is one of NVS's, and it keeps NVS well typed and its other keys.
LEMMA WriteKept ==
    ASSUME NEW w \in Writes, nvs \in NvsStates, nvs' = [nvs EXCEPT ![w[1]] = w[2]]
    PROVE  /\ w[1] \in DOMAIN nvs
           /\ nvs' \in NvsStates
           /\ nvs'[w[1]] = w[2]
           /\ \A key \in DOMAIN nvs : key # w[1] => nvs'[key] = nvs[key]
<1>1. nvs' \in NvsStates
  BY DEF Writes, NvsStates
<1>2. w[1] \in DOMAIN nvs
  BY DEF Writes, NvsStates
<1>3. nvs'[w[1]] = w[2] /\ \A key \in DOMAIN nvs : key # w[1] => nvs'[key] = nvs[key]
  BY <1>2
<1>. QED  BY <1>1, <1>2, <1>3

\* What a row is when the code begins to write it.
LEMMA RowBegins ==
    ASSUME NEW ws, Row(ws), todo' = ws
    PROVE  Planned(ws)' /\ todo' \in Seq(Writes) /\ todo' # <<>>
<1>1. Len(ws) \in Nat \ {0}
  BY Pieces DEF Row
<1>. QED  BY <1>1 DEF Row, Planned

\* One write of a row: the k-th.
LEMMA WriteStep ==
    ASSUME NEW ws, Row(ws), Planned(ws), nvs \in NvsStates, todo \in Seq(Writes),
           torn \in BOOLEAN, WriteNext
    PROVE  /\ todo' \in Seq(Writes)
           /\ nvs' \in NvsStates
           /\ \E k \in 1 .. Len(ws) :
                /\ nvs' = [nvs EXCEPT ![ws[k][1]] = ws[k][2]]
                /\ \A j \in 1 .. k - 1 : nvs[ws[j][1]] = ws[j][2]
                /\ \A j \in 1 .. k : nvs'[ws[j][1]] = ws[j][2]
                /\ k < Len(ws) => Planned(ws)' /\ todo' # <<>> /\ job' = job /\ torn' = torn
                /\ k = Len(ws) => /\ todo' = <<>> /\ job' = "none"
                                  /\ job \in Settings => ~torn'
                                  /\ job \notin Settings => torn' = torn
<1> DEFINE k == Len(ws) - Len(todo) + 1
<1>1. /\ todo # <<>>
      /\ nvs' = [nvs EXCEPT ![Head(todo)[1]] = Head(todo)[2]]
      /\ todo' = Tail(todo)
      /\ Len(todo) = 1 => job' = "none" /\ torn' = (torn /\ job \notin Settings)
      /\ Len(todo) # 1 => job' = job /\ torn' = torn
  BY DEF WriteNext, Idle
<1>2. /\ Len(ws) \in Nat \ {0} /\ \A i \in 1 .. Len(ws) : ws[i] \in Writes
      /\ \A i, j \in 1 .. Len(ws) : ws[i][1] = ws[j][1] => i = j
  BY Pieces DEF Row
<1>3. /\ Len(todo) \in 1 .. Len(ws)
      /\ \A i \in 1 .. Len(todo) : todo[i] = ws[Len(ws) - Len(todo) + i]
      /\ \A j \in 1 .. Len(ws) - Len(todo) : nvs[ws[j][1]] = ws[j][2]
  BY DEF Planned
<1>4. /\ Head(todo) = todo[1] /\ todo' \in Seq(Writes) /\ Len(todo') = Len(todo) - 1
      /\ \A i \in 1 .. Len(todo) - 1 : todo'[i] = todo[i + 1]
  BY <1>1, Pieces
<1>5. k \in 1 .. Len(ws) /\ Head(todo) = ws[k] /\ ws[k] \in Writes
  BY <1>2, <1>3, <1>4
<1>6. nvs' = [nvs EXCEPT ![ws[k][1]] = ws[k][2]]
  BY <1>1, <1>5
<1>7. /\ nvs' \in NvsStates /\ nvs'[ws[k][1]] = ws[k][2]
      /\ \A key \in DOMAIN nvs : key # ws[k][1] => nvs'[key] = nvs[key]
  BY <1>5, <1>6, WriteKept
<1>8. \A j \in 1 .. k - 1 : nvs[ws[j][1]] = ws[j][2]
  BY <1>2, <1>3
<1>9. \A j \in 1 .. k : nvs'[ws[j][1]] = ws[j][2]
  <2>1. SUFFICES ASSUME NEW j \in 1 .. k, j # k PROVE nvs'[ws[j][1]] = ws[j][2]
    BY <1>7
  <2>2. j \in 1 .. k - 1 /\ j \in 1 .. Len(ws)
    BY <1>2, <1>5, <2>1
  <2>3. ws[j] \in Writes
    BY <1>2, <2>2, Zenon
  <2>4. ws[j][1] # ws[k][1]
    BY <1>2, <1>5, <2>1, <2>2, Zenon
  <2>5. ws[j][1] \in DOMAIN nvs
    BY <2>3 DEF Writes, NvsStates
  <2>6. nvs'[ws[j][1]] = nvs[ws[j][1]]
    BY <1>7, <2>4, <2>5, Zenon
  <2>. QED  BY <1>8, <2>2, <2>6
<1>10. k < Len(ws) => Planned(ws)' /\ todo' # <<>> /\ job' = job /\ torn' = torn
  <2>1. SUFFICES ASSUME k < Len(ws) PROVE Planned(ws)' /\ todo' # <<>> /\ job' = job /\ torn' = torn
    OBVIOUS
  <2>2. Len(todo) # 1 /\ Len(todo') \in 1 .. Len(ws)
    BY <1>2, <1>3, <1>4, <2>1
  <2>3. \A i \in 1 .. Len(todo') : todo'[i] = ws[Len(ws) - Len(todo') + i]
    <3>1. SUFFICES ASSUME NEW i \in 1 .. Len(todo') PROVE todo'[i] = ws[Len(ws) - Len(todo') + i]
      OBVIOUS
    <3>2. todo'[i] = todo[i + 1] /\ i + 1 \in 1 .. Len(todo)
      BY <1>3, <1>4, <2>2
    <3>3. todo[i + 1] = ws[Len(ws) - Len(todo) + (i + 1)]
      BY <1>3, <3>2
    <3>4. Len(ws) - Len(todo) + (i + 1) = Len(ws) - Len(todo') + i
      BY <1>2, <1>3, <1>4, <2>2
    <3>. QED  BY <3>2, <3>3, <3>4
  <2>4. \A j \in 1 .. Len(ws) - Len(todo') : nvs'[ws[j][1]] = ws[j][2]
    BY <1>2, <1>3, <1>4, <1>9
  <2>5. todo' # <<>>
    BY <2>2
  <2>. QED  BY <1>1, <2>2, <2>3, <2>4, <2>5 DEF Planned
<1>11. k = Len(ws) => /\ todo' = <<>> /\ job' = "none"
                      /\ job \in Settings => ~torn'
                      /\ job \notin Settings => torn' = torn
  <2>1. SUFFICES ASSUME k = Len(ws)
                 PROVE  /\ todo' = <<>> /\ job' = "none"
                        /\ job \in Settings => ~torn'
                        /\ job \notin Settings => torn' = torn
    OBVIOUS
  <2>2. Len(todo) = 1 /\ Len(todo') = 0
    BY <1>2, <1>3, <1>4, <2>1
  <2>3. todo' = <<>>
    BY <1>4, <2>2, EmptySeq
  <2>4. job' = "none" /\ torn' = (torn /\ job \notin Settings)
    BY <1>1, <2>2
  <2>. QED  BY <2>3, <2>4
<1> HIDE DEF k
<1>. QED  BY <1>4, <1>5, <1>6, <1>7, <1>8, <1>9, <1>10, <1>11

\* The code's rows.
LEMMA FactoryResetKeys ==
    /\ FactoryReset[1][1] = "ssid" /\ FactoryReset[2][1] = "pass" /\ FactoryReset[3][1] = "id"
    /\ FactoryReset[4][1] = "mode" /\ FactoryReset[5][1] = "url" /\ FactoryReset[6][1] = "token"
    /\ FactoryReset[7][1] = "channel"
  BY DEF FactoryReset

LEMMA FactoryResetTexts ==
    /\ FactoryReset[1][2] = "" /\ FactoryReset[2][2] = "" /\ FactoryReset[4][2] = ""
    /\ FactoryReset[7][2] = "stable"
  BY DEF FactoryReset

LEMMA FactoryResetFlags ==
    /\ FactoryReset[3][2] = FALSE /\ FactoryReset[5][2] = FALSE /\ FactoryReset[6][2] = FALSE
  BY DEF FactoryReset

LEMMA FactoryResetRow ==
    /\ Row(FactoryReset) /\ Len(FactoryReset) = 7
    /\ FactoryReset[1] = <<"ssid", "">> /\ FactoryReset[2] = <<"pass", "">>
    /\ FactoryReset[3] = <<"id", FALSE>> /\ FactoryReset[4] = <<"mode", "">>
    /\ FactoryReset[5] = <<"url", FALSE>> /\ FactoryReset[6] = <<"token", FALSE>>
    /\ FactoryReset[7] = <<"channel", "stable">>
<1>1. FactoryReset[1] = <<"ssid", "">> /\ FactoryReset[2] = <<"pass", "">>
  BY DEF FactoryReset
<1>2. FactoryReset[3] = <<"id", FALSE>> /\ FactoryReset[4] = <<"mode", "">>
  BY DEF FactoryReset
<1>3. FactoryReset[5] = <<"url", FALSE>> /\ FactoryReset[6] = <<"token", FALSE>>
  BY DEF FactoryReset
<1>4. FactoryReset[7] = <<"channel", "stable">> /\ Len(FactoryReset) = 7
  BY DEF FactoryReset
<1>5. FactoryReset \in Seq(Writes)
  <2>1. <<"ssid", "">> \in Writes /\ <<"pass", "">> \in Writes
    BY DEF Writes
  <2>2. <<"id", FALSE>> \in Writes /\ <<"url", FALSE>> \in Writes /\ <<"token", FALSE>> \in Writes
    BY DEF Writes
  <2>3. <<"mode", "">> \in Writes /\ <<"channel", "stable">> \in Writes
    BY DEF Writes, Channels
  <2>. QED  BY <2>1, <2>2, <2>3, SevenWrites DEF FactoryReset
<1>6. \A i, j \in 1 .. Len(FactoryReset) : FactoryReset[i][1] = FactoryReset[j][1] => i = j
  BY <1>4, FactoryResetKeys
<1>7. FactoryReset # <<>>
  BY <1>4, NotEmpty
<1>. QED  BY <1>1, <1>2, <1>3, <1>4, <1>5, <1>6, <1>7 DEF Row

\* Settings in which every write of a factory reset has been made.
LEMMA ResetTexts ==
    ASSUME NEW s, \A j \in 1 .. 7 : s[FactoryReset[j][1]] = FactoryReset[j][2]
    PROVE  s["ssid"] = "" /\ s["pass"] = "" /\ s["mode"] = "" /\ s["channel"] = "stable"
<1>1. /\ s[FactoryReset[1][1]] = FactoryReset[1][2] /\ s[FactoryReset[2][1]] = FactoryReset[2][2]
      /\ s[FactoryReset[4][1]] = FactoryReset[4][2] /\ s[FactoryReset[7][1]] = FactoryReset[7][2]
  OBVIOUS
<1>. QED  BY <1>1, FactoryResetKeys, FactoryResetTexts, Zenon

LEMMA ResetFlags ==
    ASSUME NEW s, \A j \in 1 .. 7 : s[FactoryReset[j][1]] = FactoryReset[j][2]
    PROVE  s["id"] = FALSE /\ s["url"] = FALSE /\ s["token"] = FALSE
<1>1. /\ s[FactoryReset[3][1]] = FactoryReset[3][2] /\ s[FactoryReset[5][1]] = FactoryReset[5][2]
      /\ s[FactoryReset[6][1]] = FactoryReset[6][2]
  OBVIOUS
<1>. QED  BY <1>1, FactoryResetKeys, FactoryResetFlags, Zenon

LEMMA OneWrite ==
    ASSUME NEW w \in Writes
    PROVE  Row(<<w>>) /\ Len(<<w>>) = 1 /\ <<w>>[1] = w
  BY DEF Row

LEMMA QuickResetRow ==
    /\ Row(QuickReset) /\ Len(QuickReset) = 8
    /\ QuickReset[1][1] = "count" /\ QuickReset[1][2] = 0
    /\ QuickReset[2] = FactoryReset[1] /\ QuickReset[3] = FactoryReset[2]
    /\ QuickReset[4] = FactoryReset[3] /\ QuickReset[5] = FactoryReset[4]
    /\ QuickReset[6] = FactoryReset[5] /\ QuickReset[7] = FactoryReset[6]
    /\ QuickReset[8] = FactoryReset[7]
<1> DEFINE c == << <<"count", 0>> >>
<1>1. c \in Seq(Writes) /\ Len(c) = 1 /\ c[1] = <<"count", 0>>
  <2>1. 0 \in 0 .. Threshold - 1
    BY ThresholdNat
  <2>2. <<"count", 0>> \in Writes
    BY <2>1 DEF Writes
  <2>3. c \in Seq(Writes)
    BY <2>2
  <2>4. Len(c) = 1 /\ c[1] = <<"count", 0>>
    OBVIOUS
  <2>. QED  BY <2>3, <2>4
<1>2. FactoryReset \in Seq(Writes) /\ Len(FactoryReset) = 7
  BY FactoryResetRow DEF Row
<1> HIDE DEF c
<1>3. /\ c \o FactoryReset \in Seq(Writes) /\ Len(c \o FactoryReset) = 8
      /\ (c \o FactoryReset)[1] = c[1]
      /\ \A i \in 1 .. 7 : (c \o FactoryReset)[i + 1] = FactoryReset[i]
  <2>1. /\ c \o FactoryReset \in Seq(Writes)
        /\ Len(c \o FactoryReset) = Len(c) + Len(FactoryReset)
        /\ \A i \in 1 .. Len(c) + Len(FactoryReset) :
              (c \o FactoryReset)[i] = IF i <= Len(c) THEN c[i] ELSE FactoryReset[i - Len(c)]
    BY <1>1, <1>2, ConcatProperties
  <2>2. ASSUME NEW i \in 1 .. 7 PROVE (c \o FactoryReset)[i + 1] = FactoryReset[i]
    <3>1. i + 1 \in 1 .. Len(c) + Len(FactoryReset) /\ ~(i + 1 <= Len(c)) /\ (i + 1) - Len(c) = i
      BY <1>1, <1>2
    <3>. QED  BY <2>1, <3>1
  <2>3. (c \o FactoryReset)[1] = c[1]
    <3>1. 1 \in 1 .. Len(c) + Len(FactoryReset) /\ 1 <= Len(c)
      BY <1>1, <1>2
    <3>. QED  BY <2>1, <3>1
  <2>4. Len(c \o FactoryReset) = 8
    BY <1>1, <1>2, <2>1
  <2>5. \A i \in 1 .. 7 : (c \o FactoryReset)[i + 1] = FactoryReset[i]
    BY <2>2
  <2>6. c \o FactoryReset \in Seq(Writes)
    BY <2>1, Zenon
  <2>. QED  BY <2>3, <2>4, <2>5, <2>6, Zenon
<1>4. QuickReset = c \o FactoryReset
  BY DEF QuickReset, c
<1>5. /\ QuickReset \in Seq(Writes) /\ Len(QuickReset) = 8 /\ QuickReset[1] = <<"count", 0>>
      /\ \A i \in 1 .. 7 : QuickReset[i + 1] = FactoryReset[i]
  BY <1>1, <1>3, <1>4
<1>6. /\ QuickReset[2] = FactoryReset[1] /\ QuickReset[3] = FactoryReset[2]
      /\ QuickReset[4] = FactoryReset[3] /\ QuickReset[5] = FactoryReset[4]
      /\ QuickReset[6] = FactoryReset[5] /\ QuickReset[7] = FactoryReset[6]
      /\ QuickReset[8] = FactoryReset[7]
  BY <1>5
<1>7. QuickReset[1][1] = "count" /\ QuickReset[1][2] = 0
  <2>1. QuickReset[1] = <<"count", 0>>
    BY <1>5
  <2>. QED  BY <2>1
<1>8. \A i, j \in 1 .. Len(QuickReset) : QuickReset[i][1] = QuickReset[j][1] => i = j
  <2>1. /\ QuickReset[2][1] = "ssid" /\ QuickReset[3][1] = "pass" /\ QuickReset[4][1] = "id"
        /\ QuickReset[5][1] = "mode" /\ QuickReset[6][1] = "url"
        /\ QuickReset[7][1] = "token" /\ QuickReset[8][1] = "channel"
    BY <1>6, FactoryResetKeys
  <2>2. Len(QuickReset) = 8
    BY <1>5
  <2>. QED  BY <1>7, <2>1, <2>2
<1>9. QuickReset # <<>>
  BY <1>5, NotEmpty
<1>10. Row(QuickReset)
  BY <1>5, <1>8, <1>9 DEF Row
<1>. QED  BY <1>5, <1>6, <1>7, <1>10

LEMMA CountRowRow ==
    ASSUME NEW n \in 0 .. Threshold - 1
    PROVE  Row(CountRow(n)) /\ Len(CountRow(n)) = 1 /\ CountRow(n)[1] = <<"count", n>>
<1>1. <<"count", n>> \in Writes
  BY DEF Writes
<1>. QED  BY <1>1, OneWrite DEF CountRow

LEMMA ChannelRowRow ==
    ASSUME NEW channel \in Channels
    PROVE  /\ Row(ChannelRow(channel)) /\ Len(ChannelRow(channel)) = 1
           /\ ChannelRow(channel)[1] = <<"channel", channel>>
<1>1. <<"channel", channel>> \in Writes
  BY DEF Writes
<1>. QED  BY <1>1, OneWrite DEF ChannelRow

LEMMA WifiRowRow ==
    ASSUME NEW network \in Networks
    PROVE  /\ Row(WifiRow(network)) /\ Len(WifiRow(network)) = 2
           /\ WifiRow(network)[1] = <<"ssid", network>>
           /\ WifiRow(network)[2] = <<"pass", network>>
<1> DEFINE ws == WifiRow(network)
<1>1. <<"ssid", network>> \in Writes /\ <<"pass", network>> \in Writes
  BY DEF Writes
<1>2. /\ ws \in Seq(Writes) /\ Len(ws) = 2
      /\ ws[1] = <<"ssid", network>> /\ ws[2] = <<"pass", network>>
  BY <1>1, TwoWrites DEF WifiRow
<1> HIDE DEF ws
<1>3. ws[1][1] = "ssid" /\ ws[2][1] = "pass"
  BY <1>2
<1>4. \A i, j \in 1 .. Len(ws) : ws[i][1] = ws[j][1] => i = j
  BY <1>2, <1>3
<1>5. ws # <<>>
  BY <1>2, NotEmpty
<1>. QED  BY <1>2, <1>4, <1>5 DEF Row, ws

LEMMA ApplyRowRow ==
    ASSUME NEW form \in Forms, NEW ws, ws = ApplyRow(form)
    PROVE  /\ Row(ws) /\ Len(ws) = 4
           /\ ws[1] = <<"id", TRUE>> /\ ws[2] = <<"mode", form.mode>>
           /\ ws[3] = <<"url", form.url>> /\ ws[4] = <<"token", form.token>>
<1> DEFINE mode == form.mode
           url == form.url
           token == form.token
<1>1. ws = ApplyWrites(mode, url, token)
  BY DEF ApplyRow
<1>2. mode \in Modes /\ url \in BOOLEAN /\ token \in BOOLEAN
  BY DEF Forms
<1> HIDE DEF mode, url, token
<1>3. ws[1] = <<"id", TRUE>>
  BY DEF ApplyRow, ApplyWrites
<1>4. ws[2] = <<"mode", mode>>
  BY <1>1 DEF ApplyWrites
<1>5. ws[3] = <<"url", url>> /\ ws[4] = <<"token", token>> /\ Len(ws) = 4
  BY <1>1 DEF ApplyWrites
<1>6. ws \in Seq(Writes)
  <2>1. <<"id", TRUE>> \in Writes /\ <<"url", url>> \in Writes /\ <<"token", token>> \in Writes
    BY <1>2 DEF Writes
  <2>2. <<"mode", mode>> \in Writes
    BY <1>2 DEF Writes
  <2>. QED  BY <1>1, <2>1, <2>2 DEF ApplyWrites
<1>7. ws[1][1] = "id" /\ ws[2][1] = "mode" /\ ws[3][1] = "url" /\ ws[4][1] = "token"
  BY <1>4, <1>5, <1>3
<1>8. \A i, j \in 1 .. Len(ws) : ws[i][1] = ws[j][1] => i = j
  BY <1>5, <1>7
<1>9. ws # <<>>
  BY <1>5, NotEmpty
<1>10. Row(ws)
  BY <1>6, <1>8, <1>9 DEF Row
<1>. QED  BY <1>4, <1>5, <1>10, <1>3 DEF mode, url, token

LEMMA CommitRow ==
    ASSUME NEW form \in Forms, NEW ws, ws = CommitWrites(form)
    PROVE  /\ Row(ws) /\ Len(ws) = 6
           /\ ws[1] = <<"id", TRUE>> /\ ws[2] = <<"mode", form.mode>>
           /\ ws[3] = <<"url", form.url>> /\ ws[4] = <<"token", form.token>>
           /\ ws[5] = <<"ssid", form.ssid>> /\ ws[6] = <<"pass", form.ssid>>
<1> DEFINE a == ApplyRow(form)
           b == << <<"ssid", form.ssid>>, <<"pass", form.ssid>> >>
<1>1. /\ form.mode \in Modes /\ form.url \in BOOLEAN /\ form.token \in BOOLEAN
      /\ form.ssid \in Networks
  BY DEF Forms
<1>2. /\ a \in Seq(Writes) /\ Len(a) = 4
      /\ a[1] = <<"id", TRUE>> /\ a[2] = <<"mode", form.mode>>
      /\ a[3] = <<"url", form.url>> /\ a[4] = <<"token", form.token>>
  <2>1. Row(a)
    BY ApplyRowRow
  <2>2. a[1] = <<"id", TRUE>> /\ a[2] = <<"mode", form.mode>>
    BY ApplyRowRow
  <2>3. a[3] = <<"url", form.url>> /\ a[4] = <<"token", form.token>> /\ Len(a) = 4
    BY ApplyRowRow
  <2>. QED  BY <2>1, <2>2, <2>3 DEF Row
<1>3. /\ b \in Seq(Writes) /\ Len(b) = 2
      /\ b[1] = <<"ssid", form.ssid>> /\ b[2] = <<"pass", form.ssid>>
  <2>1. <<"ssid", form.ssid>> \in Writes /\ <<"pass", form.ssid>> \in Writes
    BY <1>1 DEF Writes
  <2>. QED  BY <2>1, TwoWrites
<1>4. ws = a \o b
  BY DEF CommitWrites, ApplyRow
<1> HIDE DEF a, b
<1>5. /\ ws \in Seq(Writes) /\ Len(ws) = 6
      /\ \A i \in 1 .. 6 : ws[i] = IF i <= 4 THEN a[i] ELSE b[i - 4]
  <2>1. /\ a \o b \in Seq(Writes) /\ Len(a \o b) = Len(a) + Len(b)
        /\ \A i \in 1 .. Len(a) + Len(b) :
              (a \o b)[i] = IF i <= Len(a) THEN a[i] ELSE b[i - Len(a)]
    BY <1>2, <1>3, ConcatProperties
  <2>. QED  BY <1>2, <1>3, <1>4, <2>1
<1>6. ws[1] = a[1] /\ ws[2] = a[2] /\ ws[3] = a[3] /\ ws[4] = a[4]
  BY <1>5
<1>7. ws[5] = b[1] /\ ws[6] = b[2]
  BY <1>5
<1>8. /\ ws[1] = <<"id", TRUE>> /\ ws[2] = <<"mode", form.mode>>
      /\ ws[3] = <<"url", form.url>> /\ ws[4] = <<"token", form.token>>
      /\ ws[5] = <<"ssid", form.ssid>> /\ ws[6] = <<"pass", form.ssid>>
  BY <1>2, <1>3, <1>6, <1>7
<1>9. /\ ws[1][1] = "id" /\ ws[2][1] = "mode" /\ ws[3][1] = "url" /\ ws[4][1] = "token"
      /\ ws[5][1] = "ssid" /\ ws[6][1] = "pass"
  BY <1>8
<1>10. \A i, j \in 1 .. Len(ws) : ws[i][1] = ws[j][1] => i = j
  BY <1>5, <1>9
<1>11. Len(ws) # 0
  BY <1>5
<1>12. ws # <<>>
  BY <1>11, NotEmpty
<1>. QED  BY <1>5, <1>8, <1>10, <1>12 DEF Row

-----------------------------------------------------------------------------
(***************************************************************************)
(* What one write does to NVS, by the row it is from.                      *)
(***************************************************************************)
LEMMA ResetWrite ==
    ASSUME StartupTypeOK, PlanInv, job = "reset", WriteNext
    PROVE  /\ todo' \in Seq(Writes) /\ nvs' \in NvsStates
           /\ nvs'.count = nvs.count
           /\ nvs'.ssid = ""
           /\ \/ job' = job /\ todo' # <<>> /\ torn' = torn /\ Planned(FactoryReset)'
              \/ job' = "none" /\ todo' = <<>> /\ ~torn' /\ FreshSettings'
<1>1. Row(FactoryReset) /\ Planned(FactoryReset) /\ todo \in Seq(Writes) /\ nvs \in NvsStates
  BY FactoryResetRow DEF PlanInv, StartupTypeOK
<1>. torn \in BOOLEAN
  BY DEF StartupTypeOK
<1>2. PICK k \in 1 .. Len(FactoryReset) :
        /\ nvs' = [nvs EXCEPT ![FactoryReset[k][1]] = FactoryReset[k][2]]
        /\ \A j \in 1 .. k : nvs'[FactoryReset[j][1]] = FactoryReset[j][2]
        /\ k < Len(FactoryReset) => Planned(FactoryReset)' /\ todo' # <<>> /\ job' = job /\ torn' = torn
        /\ k = Len(FactoryReset) =>
              /\ todo' = <<>> /\ job' = "none"
              /\ job \in Settings => ~torn'
              /\ job \notin Settings => torn' = torn
  BY <1>1, WriteStep
<1>3. todo' \in Seq(Writes) /\ nvs' \in NvsStates
  BY <1>1, WriteStep
<1>4. Len(FactoryReset) = 7
  BY FactoryResetRow
<1>5. nvs'[FactoryReset[1][1]] = FactoryReset[1][2]
  BY <1>2, <1>4
<1>6. k = 7 => \A j \in 1 .. 7 : nvs'[FactoryReset[j][1]] = FactoryReset[j][2]
  BY <1>2
<1>7. nvs'["ssid"] = ""
  BY <1>5, FactoryResetKeys, FactoryResetTexts
<1>8. nvs'["count"] = nvs["count"]
  <2>1. FactoryReset[k][1] # "count"
    BY <1>4, FactoryResetKeys
  <2>. QED  BY <1>1, <1>2, <2>1 DEF NvsStates
<1>9. CASE k < Len(FactoryReset)
  BY <1>2, <1>3, <1>7, <1>8, <1>9
<1>10. CASE k = Len(FactoryReset)
  <2>1. nvs'["pass"] = "" /\ nvs'["mode"] = "" /\ nvs'["channel"] = "stable"
    BY <1>4, <1>6, <1>10, ResetTexts
  <2>2. nvs'["id"] = FALSE /\ nvs'["url"] = FALSE /\ nvs'["token"] = FALSE
    BY <1>4, <1>6, <1>10, ResetFlags
  <2>3. FreshSettings'
    BY <1>3, <1>7, <2>1, <2>2 DEF FreshSettings
  <2>4. todo' = <<>> /\ job' = "none" /\ ~torn'
    BY <1>2, <1>10 DEF Settings
  <2>. QED  BY <1>3, <1>7, <1>8, <2>3, <2>4
<1>11. k < Len(FactoryReset) \/ k = Len(FactoryReset)
  BY <1>4
<1>. QED  BY <1>9, <1>10, <1>11, Zenon

LEMMA QuickResetWrite ==
    ASSUME StartupTypeOK, PlanInv, job = "quick_reset", WriteNext
    PROVE  /\ todo' \in Seq(Writes) /\ nvs' \in NvsStates
           /\ nvs'.count = 0
           /\ nvs'.ssid = "" \/ (nvs'.ssid = nvs.ssid /\ nvs'.id = nvs.id)
           /\ \/ job' = job /\ todo' # <<>> /\ torn' = torn /\ Planned(QuickReset)'
              \/ job' = "none" /\ todo' = <<>> /\ ~torn' /\ FreshSettings'
<1>1. Row(QuickReset) /\ Planned(QuickReset) /\ todo \in Seq(Writes) /\ nvs \in NvsStates
  BY QuickResetRow DEF PlanInv, StartupTypeOK
<1>. torn \in BOOLEAN
  BY DEF StartupTypeOK
<1>2. PICK k \in 1 .. Len(QuickReset) :
        /\ nvs' = [nvs EXCEPT ![QuickReset[k][1]] = QuickReset[k][2]]
        /\ \A j \in 1 .. k : nvs'[QuickReset[j][1]] = QuickReset[j][2]
        /\ k < Len(QuickReset) => Planned(QuickReset)' /\ todo' # <<>> /\ job' = job /\ torn' = torn
        /\ k = Len(QuickReset) =>
              /\ todo' = <<>> /\ job' = "none"
              /\ job \in Settings => ~torn'
              /\ job \notin Settings => torn' = torn
  BY <1>1, WriteStep
<1>3. todo' \in Seq(Writes) /\ nvs' \in NvsStates
  BY <1>1, WriteStep
<1>4. Len(QuickReset) = 8
  BY QuickResetRow
<1>5. /\ QuickReset[2] = FactoryReset[1] /\ QuickReset[3] = FactoryReset[2] /\ QuickReset[4] = FactoryReset[3]
      /\ QuickReset[5] = FactoryReset[4] /\ QuickReset[6] = FactoryReset[5] /\ QuickReset[7] = FactoryReset[6]
      /\ QuickReset[8] = FactoryReset[7]
  BY QuickResetRow
<1>6. QuickReset[1][1] = "count" /\ QuickReset[1][2] = 0
  BY QuickResetRow
<1>7. nvs'[QuickReset[1][1]] = QuickReset[1][2]
  BY <1>2, <1>4
<1>8. k # 1 => nvs'["ssid"] = ""
  <2>1. SUFFICES ASSUME k # 1 PROVE nvs'["ssid"] = ""
    OBVIOUS
  <2>2. nvs'[QuickReset[2][1]] = QuickReset[2][2]
    <3>1. 2 \in 1 .. k
      BY <1>4, <2>1
    <3>. QED  BY <1>2, <3>1
  <2>. QED  BY <1>5, <2>2, FactoryResetKeys, FactoryResetTexts, Zenon
<1>9. k = 8 => \A j \in 1 .. 7 : nvs'[FactoryReset[j][1]] = FactoryReset[j][2]
  <2>1. SUFFICES ASSUME k = 8, NEW j \in 1 .. 7
                 PROVE  nvs'[FactoryReset[j][1]] = FactoryReset[j][2]
    OBVIOUS
  <2>2. QuickReset[j + 1] = FactoryReset[j] /\ j + 1 \in 1 .. k
    BY <1>5, <2>1
  <2>3. nvs'[QuickReset[j + 1][1]] = QuickReset[j + 1][2]
    BY <1>2, <2>2, Zenon
  <2>. QED  BY <2>2, <2>3, Zenon
<1>10. nvs'["count"] = 0
  BY <1>6, <1>7
<1>11. nvs'.ssid = "" \/ (nvs'.ssid = nvs.ssid /\ nvs'.id = nvs.id)
  <2>1. CASE k = 1
    <3>1. nvs' = [nvs EXCEPT !["count"] = 0]
      BY <1>2, <1>6, <2>1
    <3>. QED  BY <1>1, <3>1 DEF NvsStates
  <2>2. CASE k # 1
    <3>1. nvs'["ssid"] = ""
      BY <1>8, <2>2
    <3>. QED  BY <3>1
  <2>. QED  BY <2>1, <2>2
<1>12. CASE k < Len(QuickReset)
  BY <1>2, <1>3, <1>10, <1>11, <1>12
<1>13. CASE k = Len(QuickReset)
  <2>1. nvs'["ssid"] = ""
    <3>1. k # 1
      BY <1>13, <1>4
    <3>. QED  BY <1>8, <3>1
  <2>2. nvs'["pass"] = "" /\ nvs'["mode"] = "" /\ nvs'["channel"] = "stable"
    BY <1>4, <1>9, <1>13, ResetTexts
  <2>3. nvs'["id"] = FALSE /\ nvs'["url"] = FALSE /\ nvs'["token"] = FALSE
    BY <1>4, <1>9, <1>13, ResetFlags
  <2>4. FreshSettings'
    BY <1>3, <2>2, <2>3, <2>1 DEF FreshSettings
  <2>5. todo' = <<>> /\ job' = "none" /\ ~torn'
    BY <1>2, <1>13 DEF Settings
  <2>. QED  BY <1>3, <1>10, <1>11, <2>4, <2>5
<1>14. k < Len(QuickReset) \/ k = Len(QuickReset)
  BY <1>4
<1>. QED  BY <1>12, <1>13, <1>14, Zenon

LEMMA CountWrite ==
    ASSUME StartupTypeOK, todo \in Seq(Writes), WriteNext, job \in {"count", "clear"},
           NEW n \in 0 .. Threshold - 1, Planned(CountRow(n))
    PROVE  /\ nvs' = [nvs EXCEPT !["count"] = n]
           /\ nvs' \in NvsStates
           /\ todo' = <<>> /\ job' = "none" /\ torn' = torn
<1> DEFINE ws == CountRow(n)
<1>1. Row(ws) /\ Len(ws) = 1 /\ ws[1] = <<"count", n>>
  BY CountRowRow
<1>. torn \in BOOLEAN
  BY DEF StartupTypeOK
<1> HIDE DEF ws
<1>2. PICK k \in 1 .. Len(ws) :
        /\ nvs' = [nvs EXCEPT ![ws[k][1]] = ws[k][2]]
        /\ k = Len(ws) => /\ todo' = <<>> /\ job' = "none"
                          /\ job \in Settings => ~torn'
                          /\ job \notin Settings => torn' = torn
  BY <1>1, WriteStep DEF StartupTypeOK, ws
<1>3. nvs' \in NvsStates
  BY <1>1, WriteStep DEF StartupTypeOK, ws
<1>4. k = 1 /\ k = Len(ws)
  BY <1>1
<1>5. todo' = <<>> /\ job' = "none" /\ torn' = torn
  <2>1. job \notin Settings
    BY DEF Settings
  <2>. QED  BY <1>2, <1>4, <2>1
<1>6. nvs' = [nvs EXCEPT !["count"] = n]
  <2>1. ws[1] = <<"count", n>>
    BY <1>1
  <2>2. ws[1][1] = "count" /\ ws[1][2] = n
    BY <2>1
  <2>3. nvs' = [nvs EXCEPT ![ws[1][1]] = ws[1][2]]
    BY <1>2, <1>4
  <2>. QED  BY <2>2, <2>3
<1>. QED  BY <1>3, <1>5, <1>6

LEMMA ChannelWrite ==
    ASSUME StartupTypeOK, todo \in Seq(Writes), WriteNext, job = "channel",
           NEW channel \in Channels, Planned(ChannelRow(channel))
    PROVE  /\ nvs' = [nvs EXCEPT !["channel"] = channel]
           /\ nvs' \in NvsStates
           /\ todo' = <<>> /\ job' = "none" /\ torn' = torn
<1> DEFINE ws == ChannelRow(channel)
<1>1. Row(ws) /\ Len(ws) = 1 /\ ws[1] = <<"channel", channel>>
  BY ChannelRowRow
<1>. torn \in BOOLEAN
  BY DEF StartupTypeOK
<1> HIDE DEF ws
<1>2. PICK k \in 1 .. Len(ws) :
        /\ nvs' = [nvs EXCEPT ![ws[k][1]] = ws[k][2]]
        /\ k = Len(ws) => /\ todo' = <<>> /\ job' = "none"
                          /\ job \in Settings => ~torn'
                          /\ job \notin Settings => torn' = torn
  BY <1>1, WriteStep DEF StartupTypeOK, ws
<1>3. nvs' \in NvsStates
  BY <1>1, WriteStep DEF StartupTypeOK, ws
<1>4. k = 1 /\ k = Len(ws)
  BY <1>1
<1>5. todo' = <<>> /\ job' = "none" /\ torn' = torn
  <2>1. job \notin Settings
    BY DEF Settings
  <2>. QED  BY <1>2, <1>4, <2>1
<1>6. nvs' = [nvs EXCEPT !["channel"] = channel]
  <2>1. ws[1] = <<"channel", channel>>
    BY <1>1
  <2>2. ws[1][1] = "channel" /\ ws[1][2] = channel
    BY <2>1
  <2>3. nvs' = [nvs EXCEPT ![ws[1][1]] = ws[1][2]]
    BY <1>2, <1>4
  <2>. QED  BY <2>2, <2>3
<1>. QED  BY <1>3, <1>5, <1>6

LEMMA WifiWrite ==
    ASSUME StartupTypeOK, todo \in Seq(Writes), WriteNext, job = "wifi",
           NEW network \in Networks, Planned(WifiRow(network))
    PROVE  /\ todo' \in Seq(Writes) /\ nvs' \in NvsStates
           /\ nvs'.ssid # "" /\ nvs'.id = nvs.id
           /\ nvs'.mode = nvs.mode /\ nvs'.url = nvs.url /\ nvs'.count = nvs.count
           /\ torn' = torn
           /\ \/ job' = job /\ todo' # <<>> /\ Planned(WifiRow(network))'
              \/ job' = "none" /\ todo' = <<>>
<1> DEFINE ws == WifiRow(network)
<1>1. /\ Row(ws) /\ Len(ws) = 2
      /\ ws[1] = <<"ssid", network>> /\ ws[2] = <<"pass", network>>
  BY WifiRowRow
<1>. torn \in BOOLEAN
  BY DEF StartupTypeOK
<1> HIDE DEF ws
<1>2. PICK k \in 1 .. Len(ws) :
        /\ nvs' = [nvs EXCEPT ![ws[k][1]] = ws[k][2]]
        /\ \A j \in 1 .. k : nvs'[ws[j][1]] = ws[j][2]
        /\ k < Len(ws) => Planned(ws)' /\ todo' # <<>> /\ job' = job /\ torn' = torn
        /\ k = Len(ws) => /\ todo' = <<>> /\ job' = "none"
                          /\ job \in Settings => ~torn'
                          /\ job \notin Settings => torn' = torn
  BY <1>1, WriteStep DEF StartupTypeOK, ws
<1>3. todo' \in Seq(Writes) /\ nvs' \in NvsStates
  BY <1>1, WriteStep DEF StartupTypeOK, ws
<1>4. ws[1][1] = "ssid" /\ ws[1][2] = network /\ ws[2][1] = "pass"
  BY <1>1
<1>5. nvs'["ssid"] # ""
  <2>1. nvs'["ssid"] = network
    BY <1>2, <1>4
  <2>. QED  BY <2>1, StartupConstants DEF StartupConstants
<1>6. /\ nvs'["id"] = nvs["id"] /\ nvs'["mode"] = nvs["mode"] /\ nvs'["url"] = nvs["url"]
      /\ nvs'["count"] = nvs["count"]
  <2>1. ws[k][1] \in {"ssid", "pass"}
    BY <1>1, <1>4
  <2>. QED  BY <1>2, <2>1 DEF StartupTypeOK, NvsStates
<1>7. k < Len(ws) \/ k = Len(ws)
  BY <1>1
<1>8. job \notin Settings
  BY DEF Settings
<1>9. /\ torn' = torn
      /\ \/ job' = job /\ todo' # <<>> /\ Planned(ws)'
         \/ job' = "none" /\ todo' = <<>>
  BY <1>2, <1>7, <1>8
<1>. QED  BY <1>3, <1>5, <1>6, <1>9 DEF ws

LEMMA CommitWrite ==
    ASSUME StartupTypeOK, todo \in Seq(Writes), WriteNext, job = "config",
           NEW form \in Forms, Applicable(form.mode, form.url), Planned(CommitWrites(form))
    PROVE  /\ todo' \in Seq(Writes) /\ nvs' \in NvsStates
           /\ nvs'.id /\ nvs'.count = nvs.count
           /\ \/ job' = job /\ todo' # <<>> /\ torn' = torn /\ Planned(CommitWrites(form))'
              \/ /\ job' = "none" /\ todo' = <<>> /\ ~torn'
                 /\ nvs'.ssid # ""
                 /\ nvs'.mode = "manual" => nvs'.url
<1> DEFINE ws == CommitWrites(form)
<1>1. Row(ws) /\ Len(ws) = 6
  BY CommitRow
<1>2. /\ ws[1] = <<"id", TRUE>> /\ ws[2] = <<"mode", form.mode>>
      /\ ws[3] = <<"url", form.url>> /\ ws[4] = <<"token", form.token>>
      /\ ws[5] = <<"ssid", form.ssid>> /\ ws[6] = <<"pass", form.ssid>>
  BY CommitRow
<1>. torn \in BOOLEAN /\ nvs \in NvsStates
  BY DEF StartupTypeOK
<1> HIDE DEF ws
<1>3. PICK k \in 1 .. Len(ws) :
        /\ nvs' = [nvs EXCEPT ![ws[k][1]] = ws[k][2]]
        /\ \A j \in 1 .. k : nvs'[ws[j][1]] = ws[j][2]
        /\ k < Len(ws) => Planned(ws)' /\ todo' # <<>> /\ job' = job /\ torn' = torn
        /\ k = Len(ws) =>
              /\ todo' = <<>> /\ job' = "none"
              /\ job \in Settings => ~torn'
              /\ job \notin Settings => torn' = torn
  BY <1>1, WriteStep DEF ws
<1>4. todo' \in Seq(Writes) /\ nvs' \in NvsStates
  BY <1>1, WriteStep DEF ws
<1>5. /\ ws[1][1] = "id" /\ ws[2][1] = "mode" /\ ws[3][1] = "url" /\ ws[4][1] = "token"
      /\ ws[5][1] = "ssid" /\ ws[6][1] = "pass"
  BY <1>2
<1>6. ws[1][2] = TRUE /\ ws[3][2] = form.url
  BY <1>2
<1>7. ws[2][2] = form.mode /\ ws[5][2] = form.ssid
  BY <1>2
<1>8. nvs'["id"] = TRUE
  <2>1. nvs'[ws[1][1]] = ws[1][2]
    BY <1>1, <1>3
  <2>. QED  BY <1>5, <1>6, <2>1
<1>9. nvs'["count"] = nvs["count"]
  <2>1. ws[k][1] # "count"
    BY <1>1, <1>5
  <2>. QED  BY <1>3, <2>1 DEF NvsStates
<1>10. k = Len(ws) => /\ job' = "none" /\ todo' = <<>> /\ ~torn'
                      /\ nvs'.ssid # ""
                      /\ nvs'.mode = "manual" => nvs'.url
  <2>1. SUFFICES ASSUME k = Len(ws)
                 PROVE  /\ job' = "none" /\ todo' = <<>> /\ ~torn'
                        /\ nvs'.ssid # ""
                        /\ nvs'.mode = "manual" => nvs'.url
    OBVIOUS
  <2>2. job' = "none" /\ todo' = <<>> /\ ~torn'
    BY <1>3, <2>1 DEF Settings
  <2>3. /\ nvs'[ws[2][1]] = ws[2][2] /\ nvs'[ws[3][1]] = ws[3][2]
        /\ nvs'[ws[5][1]] = ws[5][2]
    BY <1>1, <1>3, <2>1
  <2>4. nvs'["ssid"] = form.ssid /\ nvs'["mode"] = form.mode
    BY <1>5, <1>7, <2>3
  <2>5. nvs'["url"] = form.url
    BY <1>5, <1>6, <2>3
  <2>6. form.ssid # ""
    BY StartupConstants DEF StartupConstants, Forms
  <2>7. form.mode = "manual" => form.url
    BY DEF Applicable
  <2>8. nvs'.mode = "manual" => nvs'.url
    BY <2>4, <2>5, <2>7
  <2>. QED  BY <2>2, <2>4, <2>6, <2>8
<1>11. k < Len(ws) \/ k = Len(ws)
  BY <1>1
<1>12. nvs'.id /\ nvs'.count = nvs.count
  BY <1>8, <1>9
<1>13. k < Len(ws) => Planned(ws)' /\ todo' # <<>> /\ job' = job /\ torn' = torn
  BY <1>3
<1>. QED  BY <1>4, <1>10, <1>11, <1>12, <1>13 DEF ws

LEMMA ApplyWrite ==
    ASSUME StartupTypeOK, todo \in Seq(Writes), WriteNext, job = "config",
           NEW form \in Forms, Applicable(form.mode, form.url), Planned(ApplyRow(form))
    PROVE  /\ todo' \in Seq(Writes) /\ nvs' \in NvsStates
           /\ nvs'.id /\ nvs'.count = nvs.count /\ nvs'.ssid = nvs.ssid
           /\ \/ /\ job' = job /\ todo' # <<>> /\ torn' = torn
                 /\ Planned(ApplyRow(form))'
              \/ /\ job' = "none" /\ todo' = <<>> /\ ~torn'
                 /\ nvs'.mode = "manual" => nvs'.url
<1> DEFINE ws == ApplyRow(form)
<1>1. Row(ws) /\ Len(ws) = 4
  BY ApplyRowRow
<1>2. /\ ws[1] = <<"id", TRUE>> /\ ws[2] = <<"mode", form.mode>>
      /\ ws[3] = <<"url", form.url>> /\ ws[4] = <<"token", form.token>>
  BY ApplyRowRow
<1>. torn \in BOOLEAN /\ nvs \in NvsStates
  BY DEF StartupTypeOK
<1> HIDE DEF ws
<1>3. PICK k \in 1 .. Len(ws) :
        /\ nvs' = [nvs EXCEPT ![ws[k][1]] = ws[k][2]]
        /\ \A j \in 1 .. k : nvs'[ws[j][1]] = ws[j][2]
        /\ k < Len(ws) => Planned(ws)' /\ todo' # <<>> /\ job' = job /\ torn' = torn
        /\ k = Len(ws) =>
              /\ todo' = <<>> /\ job' = "none"
              /\ job \in Settings => ~torn'
              /\ job \notin Settings => torn' = torn
  BY <1>1, WriteStep DEF ws
<1>4. todo' \in Seq(Writes) /\ nvs' \in NvsStates
  BY <1>1, WriteStep DEF ws
<1>5. ws[1][1] = "id" /\ ws[2][1] = "mode" /\ ws[3][1] = "url" /\ ws[4][1] = "token"
  BY <1>2
<1>6. ws[1][2] = TRUE /\ ws[3][2] = form.url
  BY <1>2
<1>7. ws[2][2] = form.mode
  BY <1>2
<1>8. nvs'["id"] = TRUE
  <2>1. nvs'[ws[1][1]] = ws[1][2]
    BY <1>1, <1>3
  <2>. QED  BY <1>5, <1>6, <2>1
<1>9. nvs'["count"] = nvs["count"] /\ nvs'["ssid"] = nvs["ssid"]
  <2>1. ws[k][1] # "count" /\ ws[k][1] # "ssid"
    BY <1>1, <1>5
  <2>. QED  BY <1>3, <2>1 DEF NvsStates
<1>10. k = Len(ws) => /\ job' = "none" /\ todo' = <<>> /\ ~torn'
                      /\ nvs'.mode = "manual" => nvs'.url
  <2>1. SUFFICES ASSUME k = Len(ws)
                 PROVE  /\ job' = "none" /\ todo' = <<>> /\ ~torn'
                        /\ nvs'.mode = "manual" => nvs'.url
    OBVIOUS
  <2>2. job' = "none" /\ todo' = <<>> /\ ~torn'
    BY <1>3, <2>1 DEF Settings
  <2>3. nvs'[ws[2][1]] = ws[2][2] /\ nvs'[ws[3][1]] = ws[3][2]
    BY <1>1, <1>3, <2>1
  <2>4. nvs'["mode"] = form.mode
    BY <1>5, <1>7, <2>3
  <2>5. nvs'["url"] = form.url
    BY <1>5, <1>6, <2>3
  <2>6. form.mode = "manual" => form.url
    BY DEF Applicable
  <2>7. nvs'.mode = "manual" => nvs'.url
    BY <2>4, <2>5, <2>6
  <2>. QED  BY <2>2, <2>7
<1>11. k < Len(ws) \/ k = Len(ws)
  BY <1>1
<1>12. nvs'.id /\ nvs'.count = nvs.count /\ nvs'.ssid = nvs.ssid
  BY <1>8, <1>9
<1>13. k < Len(ws) => Planned(ws)' /\ todo' # <<>> /\ job' = job /\ torn' = torn
  BY <1>3
<1>. QED  BY <1>4, <1>10, <1>11, <1>12, <1>13 DEF ws

-----------------------------------------------------------------------------
(***************************************************************************)
(* A write keeps the invariant, whatever it is for.                        *)
(***************************************************************************)
LEMMA WriteFrame ==
    ASSUME WriteNext
    PROVE  /\ pc' = pc /\ portalMode' = portalMode /\ cfg' = cfg /\ wifi' = wifi
           /\ setupAp' = setupAp /\ uplink' = uplink /\ page' = page
           /\ graceOver' = graceOver /\ cleared' = cleared /\ quick' = quick
           /\ UNCHANGED powerVars
           /\ todo # <<>>
  BY DEF WriteNext, ramVars, bootVars, Idle

LEMMA ResetKeeps ==
    ASSUME SettingsInv, WriteNext, job = "reset"
    PROVE  StoredInv'
<1>1. /\ nvs'.count = nvs.count /\ nvs'.ssid = "" /\ nvs' \in NvsStates
      /\ todo' \in Seq(Writes)
      /\ \/ job' = job /\ todo' # <<>> /\ torn' = torn /\ Planned(FactoryReset)'
         \/ job' = "none" /\ todo' = <<>> /\ ~torn' /\ FreshSettings'
  BY ResetWrite DEF SettingsInv, StoredInv
<1>2. pc = "restart"
  BY DEF SettingsInv, PlaceInv, JobPlace
<1>3. PlanInv'
  BY <1>1 DEF PlanInv
<1>4. JoinedHasWifi' /\ PortalEmpty'
  BY <1>2, WriteFrame DEF JoinedHasWifi, PortalEmpty
<1>5. EmptyIsFresh'
  BY <1>1 DEF EmptyIsFresh, Settings
<1>6. TargetStored'
  BY <1>1 DEF TargetStored, FreshSettings, Settings
<1>7. WifiImpliesIdentity'
  BY <1>1 DEF WifiImpliesIdentity
<1>8. CountBehind'
  BY <1>1, <1>2, WriteFrame DEF SettingsInv, StoredInv, CountBehind
<1>9. ClearedCount'
  <2>1. cleared => nvs.count = 0
    BY DEF ClearedCount, SettingsInv, StoredInv
  <2>2. (cleared' = cleared) /\ (pc' = "restart")
    BY <1>2, WriteFrame
  <2>3. nvs'.count = nvs.count
    BY <1>1
  <2>. QED  BY <2>1, <2>2, <2>3 DEF ClearedCount
<1>. QED  BY <1>3, <1>4, <1>5, <1>6, <1>7, <1>8, <1>9 DEF StoredInv

LEMMA QuickResetKeeps ==
    ASSUME SettingsInv, WriteNext, job = "quick_reset"
    PROVE  StoredInv'
<1>1. /\ nvs'.count = 0 /\ nvs' \in NvsStates /\ todo' \in Seq(Writes)
      /\ nvs'.ssid = "" \/ (nvs'.ssid = nvs.ssid /\ nvs'.id = nvs.id)
      /\ \/ job' = job /\ todo' # <<>> /\ torn' = torn /\ Planned(QuickReset)'
         \/ job' = "none" /\ todo' = <<>> /\ ~torn' /\ FreshSettings'
  BY QuickResetWrite DEF SettingsInv, StoredInv
<1>2. /\ pc = "load" /\ ~wifi /\ ~setupAp /\ ~cleared
      /\ quick = Threshold
  BY DEF SettingsInv, StoredInv, PlanInv, PlaceInv, JobPlace, BootingAlone
<1>3. PlanInv'
  BY <1>1, <1>2, WriteFrame DEF PlanInv
<1>4. JoinedHasWifi'
  BY <1>2, WriteFrame DEF JoinedHasWifi, Joining
<1>5. PortalEmpty' /\ EmptyIsFresh'
  BY <1>1 DEF PortalEmpty, EmptyIsFresh, FreshSettings, Settings
<1>6. TargetStored'
  BY <1>1 DEF TargetStored, FreshSettings, Settings
<1>7. WifiImpliesIdentity'
  BY <1>1 DEF WifiImpliesIdentity, SettingsInv, StoredInv
<1>8. CountBehind'
  <2>1. pc' = "load" /\ quick' = Threshold
    BY <1>2, WriteFrame
  <2>2. 0 <= Threshold
    BY ThresholdNat
  <2>. QED  BY <1>1, <2>1, <2>2 DEF CountBehind
<1>9. ClearedCount'
  BY <1>1, <1>2, WriteFrame DEF ClearedCount
<1>. QED  BY <1>3, <1>4, <1>5, <1>6, <1>7, <1>8, <1>9 DEF StoredInv

LEMMA CountRowOf ==
    ASSUME SettingsInv, job \in {"count", "clear"}
    PROVE  \E n \in 0 .. Threshold - 1 :
               n <= quick /\ Planned(CountRow(n)) /\ (job = "clear" => n = 0)
<1>1. quick \in 0 .. Threshold
  BY DEF SettingsInv, StartupTypeOK
<1>2. CASE job = "count"
  BY <1>2, ThresholdNat DEF SettingsInv, StoredInv, PlanInv
<1>3. CASE job = "clear"
  BY <1>1, <1>3, ThresholdNat DEF SettingsInv, StoredInv, PlanInv
<1>. QED  BY <1>2, <1>3

LEMMA CountKeeps ==
    ASSUME SettingsInv, WriteNext, job \in {"count", "clear"}
    PROVE  StoredInv' /\ nvs' \in NvsStates /\ todo' = <<>> /\ job' = "none"
<1>1. PICK n \in 0 .. Threshold - 1 :
        n <= quick /\ Planned(CountRow(n)) /\ (job = "clear" => n = 0)
  BY CountRowOf
<1>2. /\ nvs' = [nvs EXCEPT !["count"] = n] /\ nvs' \in NvsStates
      /\ todo' = <<>> /\ job' = "none" /\ torn' = torn
  <2>1. StartupTypeOK /\ todo \in Seq(Writes)
    BY DEF SettingsInv, StoredInv, PlanInv
  <2>. QED  BY <1>1, <2>1, CountWrite
<1>3. /\ nvs'.count = n /\ nvs'.ssid = nvs.ssid /\ nvs'.pass = nvs.pass /\ nvs'.mode = nvs.mode
      /\ nvs'.channel = nvs.channel
  BY <1>2 DEF SettingsInv, StartupTypeOK, NvsStates
<1>4. nvs'.id = nvs.id /\ nvs'.url = nvs.url /\ nvs'.token = nvs.token
  BY <1>2 DEF SettingsInv, StartupTypeOK, NvsStates
<1>5. pc \in {"load", "serve"} /\ (job = "count" => ~cleared /\ pc = "load")
  BY DEF SettingsInv, PlaceInv, JobPlace, BootingAlone
<1>6. PlanInv'
  BY <1>2, EmptySeq DEF PlanInv
<1>7. JoinedHasWifi'
  BY <1>3, WriteFrame DEF JoinedHasWifi, Joining, SettingsInv, StoredInv
<1>8. PortalEmpty'
  BY <1>3, WriteFrame DEF PortalEmpty, SettingsInv, StoredInv, Settings
<1>9. EmptyIsFresh'
  BY <1>2, <1>3, <1>4 DEF EmptyIsFresh, FreshSettings, SettingsInv, StoredInv, Settings
<1>10. TargetStored'
  BY <1>2, <1>3, <1>4 DEF TargetStored, SettingsInv, StoredInv, Settings
<1>11. WifiImpliesIdentity'
  BY <1>3, <1>4 DEF WifiImpliesIdentity, SettingsInv, StoredInv
<1>12. CountBehind'
  BY <1>1, <1>3, <1>5, WriteFrame DEF CountBehind
<1>13. ClearedCount'
  BY <1>1, <1>2, <1>3, <1>5, WriteFrame DEF ClearedCount, SettingsInv, StoredInv
<1>. QED  BY <1>2, <1>6, <1>7, <1>8, <1>9, <1>10, <1>11, <1>12, <1>13 DEF StoredInv

LEMMA ChannelKeeps ==
    ASSUME SettingsInv, WriteNext, job = "channel"
    PROVE  StoredInv' /\ nvs' \in NvsStates /\ todo' = <<>> /\ job' = "none"
<1>1. PICK channel \in Channels : Planned(ChannelRow(channel))
  BY DEF SettingsInv, StoredInv, PlanInv
<1>2. /\ nvs' = [nvs EXCEPT !["channel"] = channel] /\ nvs' \in NvsStates
      /\ todo' = <<>> /\ job' = "none" /\ torn' = torn
  <2>1. StartupTypeOK /\ todo \in Seq(Writes)
    BY DEF SettingsInv, StoredInv, PlanInv
  <2>. QED  BY <1>1, <2>1, ChannelWrite
<1>3. nvs'.count = nvs.count /\ nvs'.ssid = nvs.ssid /\ nvs'.mode = nvs.mode
  BY <1>2 DEF SettingsInv, StartupTypeOK, NvsStates
<1>4. nvs'.id = nvs.id /\ nvs'.url = nvs.url
  BY <1>2 DEF SettingsInv, StartupTypeOK, NvsStates
<1>5. nvs.ssid # ""
  BY DEF SettingsInv, StoredInv, PlanInv
<1>6. PlanInv'
  BY <1>2, EmptySeq DEF PlanInv
<1>7. JoinedHasWifi' /\ EmptyIsFresh'
  BY <1>3, <1>5 DEF JoinedHasWifi, EmptyIsFresh
<1>8. PortalEmpty'
  BY <1>3, WriteFrame DEF PortalEmpty, SettingsInv, StoredInv, PlaceInv, JobPlace, Settings
<1>9. TargetStored'
  BY <1>2, <1>3, <1>4 DEF TargetStored, SettingsInv, StoredInv, Settings
<1>10. WifiImpliesIdentity'
  BY <1>3, <1>4 DEF WifiImpliesIdentity, SettingsInv, StoredInv
<1>11. CountBehind' /\ ClearedCount'
  BY <1>3, WriteFrame DEF CountBehind, ClearedCount, SettingsInv, StoredInv
<1>. QED  BY <1>2, <1>6, <1>7, <1>8, <1>9, <1>10, <1>11 DEF StoredInv

LEMMA WifiKeeps ==
    ASSUME SettingsInv, WriteNext, job = "wifi"
    PROVE  /\ StoredInv' /\ nvs' \in NvsStates
           /\ \/ job' = job /\ todo' # <<>>
              \/ job' = "none" /\ todo' = <<>>
<1>1. PICK network \in Networks : Planned(WifiRow(network))
  BY DEF SettingsInv, StoredInv, PlanInv
<1>2. /\ todo' \in Seq(Writes) /\ nvs' \in NvsStates
      /\ nvs'.ssid # "" /\ nvs'.id = nvs.id
      /\ nvs'.mode = nvs.mode /\ nvs'.url = nvs.url /\ nvs'.count = nvs.count
      /\ torn' = torn
      /\ \/ job' = job /\ todo' # <<>> /\ Planned(WifiRow(network))'
         \/ job' = "none" /\ todo' = <<>>
  <2>1. StartupTypeOK /\ todo \in Seq(Writes)
    BY DEF SettingsInv, StoredInv, PlanInv
  <2>. QED  BY <1>1, <2>1, WifiWrite
<1>3. nvs.id /\ pc = "restart"
  BY DEF SettingsInv, StoredInv, PlanInv, PlaceInv, JobPlace
<1>4. PlanInv'
  BY <1>2, <1>3 DEF PlanInv
<1>5. JoinedHasWifi' /\ EmptyIsFresh'
  BY <1>2 DEF JoinedHasWifi, EmptyIsFresh
<1>6. PortalEmpty'
  BY <1>3, WriteFrame DEF PortalEmpty
<1>7. TargetStored'
  BY <1>2 DEF TargetStored, SettingsInv, StoredInv, Settings
<1>8. WifiImpliesIdentity'
  BY <1>2, <1>3 DEF WifiImpliesIdentity
<1>9. CountBehind'
  BY <1>2, <1>3, WriteFrame DEF CountBehind, SettingsInv, StoredInv
<1>10. ClearedCount'
  <2>1. cleared => nvs.count = 0
    BY DEF ClearedCount, SettingsInv, StoredInv
  <2>2. (cleared' = cleared) /\ (pc' = "restart")
    BY <1>3, WriteFrame
  <2>3. nvs'.count = nvs.count
    BY <1>2
  <2>. QED  BY <2>1, <2>2, <2>3 DEF ClearedCount
<1>11. StoredInv'
  BY <1>4, <1>5, <1>6, <1>7, <1>8, <1>9, <1>10 DEF StoredInv
<1>. QED  BY <1>2, <1>11

LEMMA ConfigKeeps ==
    ASSUME SettingsInv, WriteNext, job = "config"
    PROVE  /\ StoredInv' /\ nvs' \in NvsStates
           /\ \/ job' = job /\ todo' # <<>>
              \/ job' = "none" /\ todo' = <<>>
<1>1. PICK form \in Forms :
        /\ Applicable(form.mode, form.url)
        /\ Planned(CommitWrites(form)) \/ (nvs.ssid # "" /\ Planned(ApplyRow(form)))
  BY DEF SettingsInv, StoredInv, PlanInv
<1>2. pc = "restart"
  BY DEF SettingsInv, PlaceInv, JobPlace
<1>3. StartupTypeOK /\ todo \in Seq(Writes)
  BY DEF SettingsInv, StoredInv, PlanInv
<1>4. /\ todo' \in Seq(Writes) /\ nvs' \in NvsStates
      /\ nvs'.id /\ nvs'.count = nvs.count
      /\ \/ job' = job /\ todo' # <<>> /\ PlanInv'
         \/ /\ job' = "none" /\ todo' = <<>>
            /\ nvs'.ssid # ""
            /\ nvs'.mode = "manual" => nvs'.url
  <2>1. CASE Planned(CommitWrites(form))
    <3>1. /\ todo' \in Seq(Writes) /\ nvs' \in NvsStates
          /\ nvs'.id /\ nvs'.count = nvs.count
          /\ \/ job' = job /\ todo' # <<>> /\ torn' = torn /\ Planned(CommitWrites(form))'
             \/ /\ job' = "none" /\ todo' = <<>> /\ ~torn'
                /\ nvs'.ssid # ""
                /\ nvs'.mode = "manual" => nvs'.url
      BY <1>1, <1>3, <2>1, CommitWrite
    <3>2. job' = job /\ Planned(CommitWrites(form))' => PlanInv'
      BY <1>1, <3>1 DEF PlanInv
    <3>. QED  BY <3>1, <3>2
  <2>2. CASE nvs.ssid # "" /\ Planned(ApplyRow(form))
    <3>1. /\ todo' \in Seq(Writes) /\ nvs' \in NvsStates
          /\ nvs'.id /\ nvs'.count = nvs.count /\ nvs'.ssid = nvs.ssid
          /\ \/ job' = job /\ todo' # <<>> /\ torn' = torn /\ Planned(ApplyRow(form))'
             \/ /\ job' = "none" /\ todo' = <<>> /\ ~torn'
                /\ nvs'.mode = "manual" => nvs'.url
      BY <1>1, <1>3, <2>2, ApplyWrite
    <3>2. nvs'.ssid # ""
      BY <2>2, <3>1
    <3>3. job' = job /\ Planned(ApplyRow(form))' => PlanInv'
      BY <1>1, <3>1, <3>2 DEF PlanInv
    <3>. QED  BY <3>1, <3>2, <3>3
  <2>. QED  BY <1>1, <2>1, <2>2
<1>5. PlanInv'
  BY <1>4 DEF PlanInv
<1>6. JoinedHasWifi' /\ PortalEmpty'
  BY <1>2, WriteFrame DEF JoinedHasWifi, PortalEmpty
<1>7. EmptyIsFresh'
  BY <1>4 DEF EmptyIsFresh, Settings
<1>8. TargetStored'
  BY <1>4 DEF TargetStored, Settings
<1>9. WifiImpliesIdentity'
  BY <1>4 DEF WifiImpliesIdentity
<1>10. CountBehind'
  BY <1>2, <1>4, WriteFrame DEF CountBehind, SettingsInv, StoredInv
<1>11. ClearedCount'
  <2>1. cleared => nvs.count = 0
    BY DEF ClearedCount, SettingsInv, StoredInv
  <2>2. (cleared' = cleared) /\ (pc' = "restart")
    BY <1>2, WriteFrame
  <2>3. nvs'.count = nvs.count
    BY <1>4
  <2>. QED  BY <2>1, <2>2, <2>3 DEF ClearedCount
<1>12. StoredInv'
  BY <1>5, <1>6, <1>7, <1>8, <1>9, <1>10, <1>11 DEF StoredInv
<1>. QED  BY <1>4, <1>12

-----------------------------------------------------------------------------
(***************************************************************************)
(* The charger.                                                            *)
(***************************************************************************)
Steps == {"begin", "write", "verify", "poll", "up"}

LEMMA RegistersDomain ==
    /\ Len(Registers) \in Nat \ {0}
    /\ DOMAIN Registers = 1 .. Len(Registers)
    /\ 1 \in DOMAIN Registers
<1>1. Registers \in Seq(STRING) /\ Registers # <<>>
  BY RegistersAssumption DEF RegistersAssumption
<1>2. Len(Registers) \in Nat \ {0}
  BY <1>1, EmptySeq
<1>3. DOMAIN Registers = 1 .. Len(Registers)
  BY <1>1
<1>. QED  BY <1>2, <1>3

LEMMA ChargerParts ==
    PowerTypeOK =>
        /\ chip \in [AllRegisters -> BOOLEAN]
        /\ charger.step \in Steps /\ charger.next \in 1 .. Len(Registers)
        /\ charger.configured \in BOOLEAN
  BY RegistersDomain DEF PowerTypeOK, Steps

\* The charger starts over, and its chip with it or not.
LEMMA PowerBoots ==
    ASSUME chip \in [AllRegisters -> BOOLEAN], charger' = ChargerAtBoot,
           chip' \in {chip, ChipAtPowerUp}
    PROVE  PowerInv'
<1>1. chip' \in [AllRegisters -> BOOLEAN]
  BY DEF ChipAtPowerUp
<1>2. charger'.step = "begin" /\ charger'.configured = FALSE
  BY DEF ChargerAtBoot
<1>3. charger' \in [step : Steps, next : DOMAIN Registers, configured : BOOLEAN]
  BY RegistersDomain DEF ChargerAtBoot, Steps
<1>4. PowerTypeOK'
  BY <1>1, <1>3 DEF PowerTypeOK, Steps
<1>5. ConfiguredAtEnd' /\ ReadBackHolds' /\ ConfiguredIsVerified'
  BY <1>2 DEF ConfiguredAtEnd, ReadBackHolds, ConfiguredIsVerified
<1>. QED  BY <1>4, <1>5 DEF PowerInv

LEMMA FailProfileKeeps ==
    ASSUME PowerInv, FailProfile, UNCHANGED chip
    PROVE  PowerInv'
<1>1. charger'.step = "poll" /\ charger'.configured = FALSE
  BY DEF PowerInv, PowerTypeOK, FailProfile
<1>2. charger' \in [step : Steps, next : DOMAIN Registers, configured : BOOLEAN]
  BY DEF PowerInv, PowerTypeOK, FailProfile, Steps
<1>3. PowerTypeOK'
  BY <1>2 DEF PowerInv, PowerTypeOK, Steps
<1>4. ConfiguredAtEnd' /\ ReadBackHolds' /\ ConfiguredIsVerified'
  BY <1>1 DEF ConfiguredAtEnd, ReadBackHolds, ConfiguredIsVerified
<1>. QED  BY <1>3, <1>4 DEF PowerInv

LEMMA PowerBeginKeeps ==
    ASSUME PowerInv, PowerBegin
    PROVE  PowerInv'
<1>1. CASE FailProfile
  BY <1>1, FailProfileKeeps DEF PowerBegin
<1>2. CASE charger' = [ChargerAtBoot EXCEPT !.step = "write"]
  <2>1. charger' = [step |-> "write", next |-> 1, configured |-> FALSE]
    BY <1>2 DEF ChargerAtBoot
  <2>2. chip' = chip
    BY DEF PowerBegin
  <2>3. PowerTypeOK'
    BY <2>1, <2>2, RegistersDomain DEF PowerInv, PowerTypeOK
  <2>4. ConfiguredAtEnd' /\ ReadBackHolds' /\ ConfiguredIsVerified'
    BY <2>1 DEF ConfiguredAtEnd, ReadBackHolds, ConfiguredIsVerified
  <2>. QED  BY <2>3, <2>4 DEF PowerInv
<1>. QED  BY <1>1, <1>2 DEF PowerBegin

LEMMA WriteRegisterKeeps ==
    ASSUME PowerInv, WriteRegister
    PROVE  PowerInv'
<1>1. charger.step = "write" /\ ~charger.configured
  BY DEF WriteRegister, PowerInv, ConfiguredAtEnd
<1>2. /\ chip \in [AllRegisters -> BOOLEAN]
      /\ charger.next \in 1 .. Len(Registers) /\ charger.configured \in BOOLEAN
  BY ChargerParts DEF PowerInv
<1>3. CASE FailProfile /\ UNCHANGED chip
  BY <1>3, FailProfileKeeps
<1>4. CASE charger' = NextRegister("write", "verify")
  <2>1. chip' \in [AllRegisters -> BOOLEAN]
    BY <1>1, <1>2, <1>4 DEF WriteRegister, FailProfile
  <2>2. /\ charger'.step \in {"write", "verify"} /\ ~charger'.configured
        /\ charger'.next \in 1 .. Len(Registers)
        /\ charger'.step = "verify" => charger'.next = 1
        /\ charger' \in [step : Steps, next : DOMAIN Registers, configured : BOOLEAN]
    <3>1. CASE charger.next < Len(Registers)
      <4>1. charger' = [charger EXCEPT !.next = charger.next + 1]
        BY <1>4, <3>1 DEF NextRegister
      <4>2. /\ charger'.step = "write" /\ charger'.configured = charger.configured
            /\ charger'.next = charger.next + 1
        BY <1>1, <4>1 DEF PowerInv, PowerTypeOK
      <4>3. charger' \in [step : Steps, next : DOMAIN Registers, configured : BOOLEAN]
        BY <1>2, <3>1, <4>1, RegistersDomain DEF PowerInv, PowerTypeOK, Steps
      <4>. QED  BY <1>1, <1>2, <3>1, <4>2, <4>3, RegistersDomain
    <3>2. CASE ~(charger.next < Len(Registers))
      <4>1. charger' = [charger EXCEPT !.step = "verify", !.next = 1]
        BY <1>4, <3>2 DEF NextRegister
      <4>2. /\ charger'.step = "verify" /\ charger'.configured = charger.configured
            /\ charger'.next = 1
        BY <1>1, <4>1 DEF PowerInv, PowerTypeOK
      <4>3. charger' \in [step : Steps, next : DOMAIN Registers, configured : BOOLEAN]
        BY <4>1, RegistersDomain DEF PowerInv, PowerTypeOK, Steps
      <4>. QED  BY <1>1, <4>2, <4>3, RegistersDomain
    <3>. QED  BY <3>1, <3>2
  <2>3. PowerTypeOK'
    BY <2>1, <2>2 DEF PowerTypeOK, Steps
  <2>4. ConfiguredAtEnd' /\ ReadBackHolds' /\ ConfiguredIsVerified'
    BY <2>2 DEF ConfiguredAtEnd, ReadBackHolds, ConfiguredIsVerified
  <2>. QED  BY <2>3, <2>4 DEF PowerInv
<1>. QED  BY <1>3, <1>4 DEF WriteRegister

LEMMA VerifyRegisterKeeps ==
    ASSUME PowerInv, VerifyRegister
    PROVE  PowerInv'
<1> DEFINE c == NextRegister("verify", "poll")
<1>1. charger.step = "verify" /\ ~charger.configured /\ chip' = chip
  BY DEF VerifyRegister, PowerInv, ConfiguredAtEnd
<1>2. /\ chip \in [AllRegisters -> BOOLEAN]
      /\ charger.next \in 1 .. Len(Registers) /\ charger.configured \in BOOLEAN
  BY ChargerParts DEF PowerInv
<1>3. CASE FailProfile
  BY <1>1, <1>3, FailProfileKeeps
<1>4. CASE /\ chip[Registers[charger.next]]
           /\ charger' = [c EXCEPT !.configured = (c.step = "poll")]
  <2>1. \A i \in 1 .. charger.next : chip[Registers[i]]
    BY <1>1, <1>2, <1>4 DEF PowerInv, ReadBackHolds
  <2>2. CASE charger.next < Len(Registers)
    <3>1. c = [charger EXCEPT !.next = charger.next + 1]
      BY <2>2 DEF NextRegister
    <3>2. c.step = "verify" /\ c.next = charger.next + 1
      BY <1>1, <3>1 DEF PowerInv, PowerTypeOK
    <3>3. c \in [step : Steps, next : DOMAIN Registers, configured : BOOLEAN]
      BY <1>2, <2>2, <3>1, RegistersDomain DEF PowerInv, PowerTypeOK, Steps
    <3> HIDE DEF c
    <3>4. /\ charger'.step = "verify" /\ charger'.next = charger.next + 1
          /\ charger'.configured = FALSE
      BY <1>4, <3>2, <3>3
    <3>5. charger' \in [step : Steps, next : DOMAIN Registers, configured : BOOLEAN]
      BY <1>4, <3>3
    <3>6. PowerTypeOK'
      BY <1>1, <3>5 DEF PowerInv, PowerTypeOK, Steps
    <3>7. ReadBackHolds'
      BY <1>1, <1>2, <2>1, <3>4 DEF ReadBackHolds
    <3>8. ConfiguredAtEnd' /\ ConfiguredIsVerified'
      BY <3>4 DEF ConfiguredAtEnd, ConfiguredIsVerified
    <3>. QED  BY <3>6, <3>7, <3>8 DEF PowerInv
  <2>3. CASE ~(charger.next < Len(Registers))
    <3>1. c = [charger EXCEPT !.step = "poll", !.next = 1]
      BY <2>3 DEF NextRegister
    <3>2. c.step = "poll"
      BY <3>1 DEF PowerInv, PowerTypeOK
    <3>3. c \in [step : Steps, next : DOMAIN Registers, configured : BOOLEAN]
      BY <3>1, RegistersDomain DEF PowerInv, PowerTypeOK, Steps
    <3> HIDE DEF c
    <3>4. charger'.step = "poll"
      BY <1>4, <3>2, <3>3
    <3>5. charger' \in [step : Steps, next : DOMAIN Registers, configured : BOOLEAN]
      BY <1>4, <3>3
    <3>6. PowerTypeOK'
      BY <1>1, <3>5 DEF PowerInv, PowerTypeOK, Steps
    <3>7. \A r \in AllRegisters : chip'[r]
      <4>1. charger.next = Len(Registers)
        BY <1>2, <2>3, RegistersDomain
      <4>2. \A i \in DOMAIN Registers : chip[Registers[i]]
        BY <2>1, <4>1, RegistersDomain
      <4>. QED  BY <1>1, <4>2 DEF AllRegisters
    <3>8. ConfiguredAtEnd' /\ ReadBackHolds' /\ ConfiguredIsVerified'
      BY <3>4, <3>7 DEF ConfiguredAtEnd, ReadBackHolds, ConfiguredIsVerified
    <3>. QED  BY <3>6, <3>8 DEF PowerInv
  <2>. QED  BY <2>2, <2>3
<1>. QED  BY <1>3, <1>4 DEF VerifyRegister

LEMMA PowerPollKeeps ==
    ASSUME PowerInv, PowerPoll
    PROVE  PowerInv'
<1>1. /\ charger' = [charger EXCEPT !.step = "up"] /\ chip' = chip
  BY DEF PowerPoll
<1>2. charger'.step = "up" /\ charger'.configured = charger.configured
  BY <1>1 DEF PowerInv, PowerTypeOK
<1>3. PowerTypeOK'
  BY <1>1 DEF PowerInv, PowerTypeOK
<1>4. ConfiguredAtEnd' /\ ReadBackHolds'
  BY <1>2 DEF ConfiguredAtEnd, ReadBackHolds
<1>5. ConfiguredIsVerified'
  BY <1>1, <1>2 DEF ConfiguredIsVerified, PowerInv, AllRegisters
<1>. QED  BY <1>3, <1>4, <1>5 DEF PowerInv

LEMMA PowerStepKeeps ==
    ASSUME PowerInv, PowerStep
    PROVE  PowerInv'
  BY PowerBeginKeeps, WriteRegisterKeeps, VerifyRegisterKeeps, PowerPollKeeps DEF PowerStep

LEMMA PowerStays ==
    ASSUME PowerInv, UNCHANGED powerVars
    PROVE  PowerInv'
  BY DEF powerVars, PowerInv, PowerTypeOK, ConfiguredAtEnd, ReadBackHolds,
         ConfiguredIsVerified, AllRegisters

\* What any step of the Hub does to the charger.
LEMMA PowerNext ==
    ASSUME PowerInv, [StartupNext]_startupVars
    PROVE  PowerInv'
<1>1. CASE Boot /\ chip' \in {chip, ChipAtPowerUp}
  BY <1>1, PowerBoots DEF Boot, PowerInv, PowerTypeOK
<1>2. CASE PowerUp
  BY <1>2, PowerStepKeeps DEF PowerUp
<1>3. CASE UNCHANGED powerVars
  BY <1>3, PowerStays
<1>4. UNCHANGED powerVars \/ PowerUp \/ (Boot /\ chip' \in {chip, ChipAtPowerUp})
  <2>1. CASE WriteNext
    BY <2>1 DEF WriteNext
  <2>2. CASE Restart
    BY <2>2 DEF Restart
  <2>3. CASE CountBoot \/ Load \/ Connect \/ BootUpdate \/ LoopBegins \/ LoopEnds \/ ServeWifi
    BY <2>3 DEF CountBoot, Load, Connect, BootUpdate, LoopBegins, LoopEnds, ServeWifi
  <2>4. CASE \E form \in Forms : Save(form)
    BY <2>4 DEF Save
  <2>5. CASE TestFails \/ Commit \/ ResetAsked
    BY <2>5 DEF TestFails, Commit, ResetAsked
  <2>6. CASE \E network \in Networks : SaveWifi(network)
    BY <2>6 DEF SaveWifi
  <2>7. CASE \E mode \in Modes, url, token \in BOOLEAN : SetConfig(mode, url, token)
    BY <2>7 DEF SetConfig
  <2>8. CASE \E channel \in Channels : SetChannel(channel)
    BY <2>8 DEF SetChannel
  <2>9. CASE GraceEnds
    BY <2>9 DEF GraceEnds
  <2>10. CASE PowerCut
    BY <2>10 DEF PowerCut
  <2>11. CASE UNCHANGED startupVars
    BY <2>11 DEF startupVars
  <2>. QED  BY <2>1, <2>2, <2>3, <2>4, <2>5, <2>6, <2>7, <2>8, <2>9, <2>10, <2>11
            DEF StartupNext, Hub
<1>. QED  BY <1>1, <1>2, <1>3, <1>4

-----------------------------------------------------------------------------
(***************************************************************************)
(* The settings: the steps that write nothing, and those that begin to.    *)
(***************************************************************************)
Jobs == Settings \cup {"none", "count", "clear", "wifi", "channel"}
Places == {"power", "load", "connect", "update", "loop", "serve", "restart"}

OtherTypes ==
    /\ pc \in Places
    /\ portalMode \in BOOLEAN /\ wifi \in BOOLEAN /\ setupAp \in BOOLEAN /\ uplink \in BOOLEAN
    /\ graceOver \in BOOLEAN /\ cleared \in BOOLEAN /\ torn \in BOOLEAN
    /\ cfg \in [id : BOOLEAN, mode : Modes, url : BOOLEAN]
    /\ page \in Forms \cup {NoForm}
    /\ quick \in 0 .. Threshold

WritesTyped ==
    /\ nvs \in NvsStates
    /\ todo \in Seq(Writes)
    /\ job \in Jobs
    /\ job = "none" <=> todo = <<>>

LEMMA KnownTypes ==
    ASSUME SettingsInv
    PROVE  OtherTypes /\ WritesTyped /\ PowerTypeOK
<1>1. OtherTypes /\ PowerTypeOK
  BY DEF SettingsInv, StartupTypeOK, OtherTypes, Places
<1>2. nvs \in NvsStates /\ job \in Jobs /\ (job = "none" <=> todo = <<>>)
  BY DEF SettingsInv, StartupTypeOK, Jobs, Idle
<1>3. todo \in Seq(Writes)
  BY DEF SettingsInv, StoredInv, PlanInv
<1>. QED  BY <1>1, <1>2, <1>3 DEF WritesTyped

LEMMA TypesMake ==
    ASSUME OtherTypes', WritesTyped', PowerTypeOK'
    PROVE  StartupTypeOK'
<1>1. \A i \in DOMAIN todo' : todo'[i][1] \in DOMAIN nvs'
  <2>1. SUFFICES ASSUME NEW i \in DOMAIN todo' PROVE todo'[i][1] \in DOMAIN nvs'
    OBVIOUS
  <2>2. todo'[i] \in Writes
    BY DEF WritesTyped
  <2>3. nvs' \in NvsStates
    BY DEF WritesTyped
  <2>. QED  BY <2>2, <2>3 DEF Writes, NvsStates
<1>2. job' \in Jobs /\ ((job' = "none") = (todo' = <<>>)) /\ nvs' \in NvsStates
  BY DEF WritesTyped
<1>3. {portalMode', wifi', setupAp', uplink', graceOver', cleared', torn'} \subseteq BOOLEAN
  BY DEF OtherTypes
<1>4. /\ pc' \in Places /\ cfg' \in [id : BOOLEAN, mode : Modes, url : BOOLEAN]
      /\ page' \in Forms \cup {NoForm} /\ quick' \in 0 .. Threshold
  BY DEF OtherTypes
<1>. QED  BY <1>1, <1>2, <1>3, <1>4 DEF StartupTypeOK, Jobs, Places, Idle

LEMMA IdleHere ==
    ASSUME SettingsInv, Idle \/ pc \in {"power", "connect", "update"}
    PROVE  job = "none" /\ todo = <<>>
<1>1. job \in Jobs /\ (job = "none" <=> todo = <<>>)
  BY KnownTypes DEF WritesTyped
<1>2. CASE Idle
  BY <1>1, <1>2 DEF Idle
<1>3. CASE pc \in {"power", "connect", "update"}
  BY <1>1, <1>3 DEF SettingsInv, PlaceInv, JobPlace, Jobs, Settings
<1>. QED  BY <1>2, <1>3

\* What a step that writes nothing itself leaves to be shown.
LEMMA NvsStays ==
    ASSUME SettingsInv, job = "none", nvs' = nvs, torn' = torn,
           OtherTypes', PowerTypeOK', job' \in Jobs, job' = "none" <=> todo' = <<>>,
           PlanInv', JoinedHasWifi', PortalEmpty', CountBehind', ClearedCount', PlaceInv'
    PROVE  SettingsInv'
<1>1. StartupTypeOK'
  <2>1. nvs' \in NvsStates
    BY KnownTypes DEF WritesTyped
  <2>2. todo' \in Seq(Writes)
    BY DEF PlanInv
  <2>3. WritesTyped'
    BY <2>1, <2>2 DEF WritesTyped
  <2>. QED  BY <2>3, TypesMake
<1>2. job \notin Settings
  BY DEF Settings
<1>3. EmptyIsFresh'
  BY <1>2 DEF EmptyIsFresh, FreshSettings, SettingsInv, StoredInv
<1>4. TargetStored'
  BY <1>2 DEF TargetStored, SettingsInv, StoredInv
<1>5. WifiImpliesIdentity'
  BY DEF WifiImpliesIdentity, SettingsInv, StoredInv
<1>6. StoredInv'
  BY <1>3, <1>4, <1>5 DEF StoredInv
<1>. QED  BY <1>1, <1>6 DEF SettingsInv

LEMMA NothingPlanned ==
    ASSUME todo' = <<>>, job' = "none"
    PROVE  PlanInv' /\ job' \in Jobs /\ (job' = "none" <=> todo' = <<>>)
  BY EmptySeq DEF PlanInv, Jobs

LEMMA WriteNextKeeps ==
    ASSUME SettingsInv, WriteNext
    PROVE  SettingsInv'
<1>1. job \in Jobs /\ job # "none" /\ torn \in BOOLEAN
  BY KnownTypes, WriteFrame DEF WritesTyped, OtherTypes
<1>2. StoredInv' /\ nvs' \in NvsStates /\ (\/ job' = job /\ todo' # <<>>
                                           \/ job' = "none" /\ todo' = <<>>)
  <2>1. StartupTypeOK /\ PlanInv
    BY DEF SettingsInv, StoredInv
  <2>2. CASE job = "reset"
    BY <2>1, <2>2, ResetKeeps, ResetWrite
  <2>3. CASE job = "quick_reset"
    BY <2>1, <2>3, QuickResetKeeps, QuickResetWrite
  <2>4. CASE job \in {"count", "clear"}
    BY <2>4, CountKeeps
  <2>5. CASE job = "channel"
    BY <2>5, ChannelKeeps
  <2>6. CASE job = "wifi"
    BY <2>6, WifiKeeps
  <2>7. CASE job = "config"
    BY <2>7, ConfigKeeps
  <2>. QED  BY <1>1, <2>2, <2>3, <2>4, <2>5, <2>6, <2>7 DEF Jobs, Settings
<1>3. WritesTyped'
  <2>1. todo' \in Seq(Writes)
    BY <1>2 DEF StoredInv, PlanInv
  <2>2. job' \in Jobs
    BY <1>1, <1>2 DEF Jobs
  <2>3. job' = "none" <=> todo' = <<>>
    BY <1>1, <1>2
  <2>. QED  BY <1>2, <2>1, <2>2, <2>3 DEF WritesTyped
<1>4. torn' \in BOOLEAN
  BY <1>1 DEF WriteNext
<1>5. OtherTypes'
  BY <1>4, KnownTypes, WriteFrame DEF OtherTypes
<1>6. PowerTypeOK'
  BY KnownTypes, WriteFrame DEF powerVars, PowerTypeOK
<1>7. JobPlace'
  BY <1>2, WriteFrame DEF SettingsInv, PlaceInv, JobPlace
<1>8. BootingAlone' /\ FormApplicable'
  BY WriteFrame DEF SettingsInv, PlaceInv, BootingAlone, FormApplicable
<1>9. PortalAlone'
  BY WriteFrame DEF SettingsInv, PlaceInv, PortalAlone, Joining
<1>10. StartupTypeOK'
  BY <1>3, <1>5, <1>6, TypesMake
<1>. QED  BY <1>2, <1>7, <1>8, <1>9, <1>10 DEF SettingsInv, PlaceInv

LEMMA PowerUpKeeps ==
    ASSUME SettingsInv, PowerTypeOK', PowerUp
    PROVE  SettingsInv'
<1>1. job = "none" /\ todo = <<>> /\ OtherTypes /\ nvs \in NvsStates
  BY IdleHere, KnownTypes DEF PowerUp, WritesTyped
<1>2. UNCHANGED <<nvs, todo, job, pc, portalMode, ramVars, bootVars, quick, torn>>
  BY DEF PowerUp
<1>3. OtherTypes'
  BY <1>1, <1>2 DEF OtherTypes, ramVars, bootVars
<1>4. JoinedHasWifi' /\ PortalEmpty'
  BY <1>2 DEF SettingsInv, StoredInv, JoinedHasWifi, Joining, PortalEmpty, ramVars
<1>5. CountBehind' /\ ClearedCount'
  BY <1>2 DEF SettingsInv, StoredInv, CountBehind, ClearedCount, bootVars
<1>6. PlaceInv'
  BY <1>2 DEF SettingsInv, PlaceInv, JobPlace, BootingAlone, PortalAlone, Joining,
              FormApplicable, ramVars, bootVars
<1>. QED  BY <1>1, <1>2, <1>3, <1>4, <1>5, <1>6, NvsStays, NothingPlanned

LEMMA CountBootKeeps ==
    ASSUME SettingsInv, PowerTypeOK', CountBoot
    PROVE  SettingsInv'
<1>1. job = "none" /\ todo = <<>> /\ OtherTypes /\ nvs \in NvsStates
  BY IdleHere, KnownTypes DEF CountBoot, WritesTyped
<1>2. /\ pc = "power" /\ pc' = "load"
      /\ nvs' = nvs /\ wifi' = wifi /\ setupAp' = setupAp /\ graceOver' = graceOver
      /\ cleared' = cleared /\ quick' = quick /\ torn' = torn /\ cfg' = cfg /\ uplink' = uplink
      /\ page' = page
  BY DEF CountBoot, Write, ramVars, bootVars
<1>3. /\ ~wifi /\ ~setupAp /\ ~cleared /\ ~portalMode
      /\ nvs.count < quick /\ nvs.count \in 0 .. Threshold - 1 /\ quick \in 0 .. Threshold
  BY <1>1, <1>2 DEF SettingsInv, StoredInv, PlaceInv, BootingAlone, CountBehind, OtherTypes,
                    NvsStates
<1>4. \/ /\ Triggers(nvs.count) /\ portalMode' /\ job' = "quick_reset"
         /\ todo' = QuickReset
      \/ /\ ~Triggers(nvs.count) /\ portalMode' = portalMode /\ job' = "count"
         /\ todo' = CountRow(nvs.count + 1)
  BY DEF CountBoot, Write, QuickReset, CountRow
<1>5. portalMode' \in BOOLEAN
  BY <1>1 DEF CountBoot, OtherTypes
<1>6. OtherTypes'
  BY <1>1, <1>2, <1>5 DEF OtherTypes, Places
<1>7. PlanInv' /\ todo' # <<>>
  <2>1. CASE Triggers(nvs.count)
    <3>1. quick' = Threshold
      BY <1>2, <1>3, <2>1, ThresholdNat DEF Triggers
    <3>2. todo' = QuickReset /\ job' = "quick_reset"
      BY <1>4, <2>1
    <3>3. Planned(QuickReset)' /\ todo' \in Seq(Writes) /\ todo' # <<>>
      BY <3>2, QuickResetRow, RowBegins
    <3>. QED  BY <3>1, <3>2, <3>3 DEF PlanInv
  <2>2. CASE ~Triggers(nvs.count)
    <3>1. PICK n \in 1 .. Threshold - 1 : n = nvs.count + 1
      BY <1>3, <2>2, ThresholdNat DEF Triggers
    <3>2. n <= quick /\ n \in 0 .. Threshold - 1
      BY <1>3, <3>1
    <3>3. todo' = CountRow(n) /\ job' = "count"
      BY <1>4, <2>2, <3>1
    <3>4. Planned(CountRow(n))' /\ todo' \in Seq(Writes) /\ todo' # <<>>
      BY <3>2, <3>3, CountRowRow, RowBegins
    <3>. QED  BY <1>2, <3>1, <3>2, <3>3, <3>4 DEF PlanInv
  <2>. QED  BY <2>1, <2>2
<1>8. JoinedHasWifi'
  BY <1>2, <1>3 DEF JoinedHasWifi, Joining
<1>9. PortalEmpty'
  BY <1>3, <1>4 DEF PortalEmpty, Settings
<1>10. CountBehind'
  BY <1>2, <1>3 DEF CountBehind, SettingsInv, StoredInv
<1>11. ClearedCount'
  BY <1>2, <1>3 DEF ClearedCount
<1>12. PlaceInv'
  <2>1. JobPlace'
    BY <1>2, <1>4 DEF JobPlace
  <2>2. BootingAlone' /\ PortalAlone'
    BY <1>2, <1>3 DEF BootingAlone, PortalAlone, Joining
  <2>3. FormApplicable'
    BY <1>2 DEF FormApplicable, SettingsInv, PlaceInv
  <2>. QED  BY <2>1, <2>2, <2>3 DEF PlaceInv
<1>13. job' \in Jobs /\ (job' = "none" <=> todo' = <<>>)
  BY <1>4, <1>7 DEF Jobs, Settings
<1>. QED  BY <1>1, <1>2, <1>6, <1>7, <1>8, <1>9, <1>10, <1>11, <1>12, <1>13, NvsStays

LEMMA LoadKeeps ==
    ASSUME SettingsInv, PowerTypeOK', Load
    PROVE  SettingsInv'
<1>1. job = "none" /\ todo = <<>> /\ OtherTypes /\ nvs \in NvsStates
  BY IdleHere, KnownTypes DEF Load, WritesTyped
<1>2. /\ pc = "load" /\ pc' = (IF portalMode' THEN "loop" ELSE "connect")
      /\ portalMode' = (portalMode \/ NoCredentials)
      /\ todo' = <<>> /\ job' = "none"
      /\ nvs' = nvs /\ wifi' = wifi /\ setupAp' = setupAp /\ graceOver' = graceOver
      /\ cleared' = cleared /\ quick' = quick /\ torn' = torn /\ uplink' = uplink /\ page' = page
  BY DEF Load, NothingToWrite, Write, bootVars
<1>3. ~wifi /\ ~setupAp /\ ~cleared /\ portalMode' \in BOOLEAN
  BY <1>2 DEF SettingsInv, PlaceInv, BootingAlone
<1>4. cfg' \in [id : BOOLEAN, mode : Modes, url : BOOLEAN]
  BY <1>1 DEF Load, NvsStates, Modes
<1>5. OtherTypes'
  BY <1>1, <1>2, <1>3, <1>4 DEF OtherTypes, Places
<1>6. JoinedHasWifi'
  BY <1>2, <1>3 DEF JoinedHasWifi, Joining, NoCredentials
<1>7. PortalEmpty'
  BY <1>1, <1>2 DEF SettingsInv, StoredInv, PortalEmpty, NoCredentials, Settings
<1>8. CountBehind'
  BY <1>2 DEF SettingsInv, StoredInv, CountBehind
<1>9. ClearedCount'
  BY <1>2, <1>3 DEF ClearedCount
<1>10. PlaceInv'
  <2>1. JobPlace'
    BY <1>2 DEF JobPlace
  <2>2. BootingAlone' /\ PortalAlone'
    BY <1>2, <1>3 DEF BootingAlone, PortalAlone, Joining
  <2>3. FormApplicable'
    BY <1>2 DEF FormApplicable, SettingsInv, PlaceInv
  <2>. QED  BY <2>1, <2>2, <2>3 DEF PlaceInv
<1>. QED  BY <1>1, <1>2, <1>5, <1>6, <1>7, <1>8, <1>9, <1>10, NvsStays, NothingPlanned

LEMMA ConnectKeeps ==
    ASSUME SettingsInv, PowerTypeOK', Connect
    PROVE  SettingsInv'
<1>1. job = "none" /\ todo = <<>> /\ OtherTypes /\ nvs \in NvsStates
  BY IdleHere, KnownTypes DEF Connect, WritesTyped
<1>2. /\ pc = "connect" /\ pc' \in {"update", "loop"}
      /\ todo' = <<>> /\ job' = "none"
      /\ nvs' = nvs /\ portalMode' = portalMode /\ graceOver' = graceOver
      /\ cleared' = cleared /\ quick' = quick /\ torn' = torn /\ uplink' = uplink /\ page' = page
      /\ cfg' = cfg
  BY DEF Connect, NothingToWrite, Write, bootVars
<1>3. wifi' \in BOOLEAN /\ setupAp' \in BOOLEAN
  BY <1>1 DEF Connect, OtherTypes
<1>4. nvs.ssid # "" /\ ~portalMode /\ ~cleared
  BY <1>2 DEF SettingsInv, StoredInv, PlaceInv, JoinedHasWifi, PortalAlone, Joining, BootingAlone
<1>5. OtherTypes'
  BY <1>1, <1>2, <1>3 DEF OtherTypes, Places
<1>6. JoinedHasWifi' /\ PortalEmpty'
  BY <1>2, <1>4 DEF JoinedHasWifi, PortalEmpty
<1>7. CountBehind'
  BY <1>2 DEF SettingsInv, StoredInv, CountBehind
<1>8. ClearedCount'
  BY <1>2, <1>4 DEF ClearedCount
<1>9. PlaceInv'
  <2>1. JobPlace' /\ BootingAlone' /\ PortalAlone'
    BY <1>2, <1>4 DEF JobPlace, BootingAlone, PortalAlone
  <2>2. FormApplicable'
    BY <1>2 DEF FormApplicable, SettingsInv, PlaceInv
  <2>. QED  BY <2>1, <2>2 DEF PlaceInv
<1>. QED  BY <1>1, <1>2, <1>5, <1>6, <1>7, <1>8, <1>9, NvsStays, NothingPlanned

LEMMA BootUpdateKeeps ==
    ASSUME SettingsInv, PowerTypeOK', BootUpdate
    PROVE  SettingsInv'
<1>1. job = "none" /\ todo = <<>> /\ OtherTypes /\ nvs \in NvsStates
  BY IdleHere, KnownTypes DEF BootUpdate, WritesTyped
<1>2. /\ pc = "update" /\ pc' \in {"loop", "restart"}
      /\ todo' = <<>> /\ job' = "none"
      /\ nvs' = nvs /\ portalMode' = portalMode /\ wifi' = wifi /\ setupAp' = setupAp
      /\ graceOver' = graceOver /\ cleared' = cleared /\ quick' = quick /\ torn' = torn
      /\ uplink' = uplink /\ page' = page /\ cfg' = cfg
  BY DEF BootUpdate, NothingToWrite, Write, bootVars, ramVars
<1>3. nvs.ssid # "" /\ ~portalMode
  BY <1>2 DEF SettingsInv, StoredInv, PlaceInv, JoinedHasWifi, PortalAlone, Joining
<1>4. OtherTypes'
  BY <1>1, <1>2 DEF OtherTypes, Places
<1>5. JoinedHasWifi' /\ PortalEmpty'
  BY <1>2, <1>3 DEF JoinedHasWifi, PortalEmpty
<1>6. CountBehind'
  BY <1>2 DEF SettingsInv, StoredInv, CountBehind
<1>7. ClearedCount'
  BY <1>1, <1>2 DEF SettingsInv, StoredInv, ClearedCount
<1>8. PlaceInv'
  <2>1. JobPlace' /\ BootingAlone' /\ PortalAlone'
    BY <1>2, <1>3 DEF JobPlace, BootingAlone, PortalAlone
  <2>2. FormApplicable'
    BY <1>2 DEF FormApplicable, SettingsInv, PlaceInv
  <2>. QED  BY <2>1, <2>2 DEF PlaceInv
<1>. QED  BY <1>1, <1>2, <1>4, <1>5, <1>6, <1>7, <1>8, NvsStays, NothingPlanned

LEMMA LoopBeginsKeeps ==
    ASSUME SettingsInv, PowerTypeOK', LoopBegins
    PROVE  SettingsInv'
<1>1. job = "none" /\ todo = <<>> /\ OtherTypes /\ nvs \in NvsStates
  BY IdleHere, KnownTypes DEF LoopBegins, WritesTyped
<1>2. /\ pc = "loop" /\ pc' = "serve"
      /\ nvs' = nvs /\ portalMode' = portalMode /\ wifi' = wifi /\ setupAp' = setupAp
      /\ graceOver' = graceOver /\ quick' = quick /\ torn' = torn
      /\ uplink' = uplink /\ page' = page /\ cfg' = cfg
  BY DEF LoopBegins, NothingToWrite, Write, ramVars
<1>3. \/ /\ todo' = CountRow(0) /\ job' = "clear" /\ cleared'
      \/ /\ todo' = <<>> /\ job' = "none" /\ cleared' = cleared /\ (graceOver => cleared)
  BY DEF LoopBegins, NothingToWrite, Write, CountRow, ClearDue
<1>4. cleared' \in BOOLEAN
  BY <1>1 DEF LoopBegins, OtherTypes
<1>5. PlanInv' /\ job' \in Jobs /\ (job' = "none" <=> todo' = <<>>)
  <2>1. CASE todo' = CountRow(0) /\ job' = "clear"
    <3>1. Row(CountRow(0))
      BY CountRowRow, ThresholdNat
    <3>2. Planned(CountRow(0))' /\ todo' \in Seq(Writes) /\ todo' # <<>>
      BY <2>1, <3>1, RowBegins
    <3>. QED  BY <2>1, <3>2 DEF PlanInv, Jobs
  <2>2. CASE todo' = <<>> /\ job' = "none"
    BY <2>2, NothingPlanned
  <2>. QED  BY <1>3, <2>1, <2>2
<1>6. OtherTypes'
  BY <1>1, <1>2, <1>4 DEF OtherTypes, Places
<1>7. JoinedHasWifi'
  BY <1>2 DEF SettingsInv, StoredInv, JoinedHasWifi, Joining
<1>8. PortalEmpty'
  BY <1>1, <1>2 DEF SettingsInv, StoredInv, PortalEmpty, Settings
<1>9. CountBehind'
  BY <1>2 DEF SettingsInv, StoredInv, CountBehind
<1>10. ClearedCount'
  BY <1>1, <1>2, <1>3 DEF SettingsInv, StoredInv, ClearedCount
<1>11. PlaceInv'
  <2>1. JobPlace' /\ BootingAlone'
    BY <1>2, <1>3 DEF JobPlace, BootingAlone
  <2>2. FormApplicable' /\ PortalAlone'
    BY <1>2 DEF FormApplicable, PortalAlone, Joining, SettingsInv, PlaceInv
  <2>. QED  BY <2>1, <2>2 DEF PlaceInv
<1>. QED  BY <1>1, <1>2, <1>5, <1>6, <1>7, <1>8, <1>9, <1>10, <1>11, NvsStays

LEMMA ServingFacts ==
    ASSUME SettingsInv, Serving, Survived
    PROVE  /\ job = "none" /\ todo = <<>> /\ OtherTypes /\ nvs \in NvsStates
           /\ pc = "serve"
           /\ quick' \in 0 .. Threshold /\ nvs.count <= quick'
           /\ cleared => nvs.count = 0
<1>1. job = "none" /\ todo = <<>> /\ OtherTypes /\ nvs \in NvsStates
  BY IdleHere, KnownTypes DEF Serving, WritesTyped
<1>2. pc = "serve"
  BY DEF Serving
<1>3. (graceOver => cleared) /\ (cleared => nvs.count = 0)
  BY <1>1, <1>2 DEF SettingsInv, StoredInv, ClearedCount
<1>4. quick \in 0 .. Threshold /\ nvs.count <= quick
  BY <1>1 DEF SettingsInv, StoredInv, CountBehind, OtherTypes
<1>5. quick' \in 0 .. Threshold /\ nvs.count <= quick'
  <2>1. CASE graceOver
    BY <1>3, <2>1, ThresholdNat DEF Survived
  <2>2. CASE ~graceOver
    BY <1>4, <2>2 DEF Survived
  <2>. QED  BY <2>1, <2>2
<1>. QED  BY <1>1, <1>2, <1>3, <1>5

\* One iteration of loop() that writes nothing.
LEMMA ServedQuietly ==
    ASSUME SettingsInv, PowerTypeOK', Serving, Survived, NothingToWrite("loop"),
           nvs' = nvs, torn' = torn, portalMode' = portalMode, cfg' = cfg, UNCHANGED bootVars,
           wifi' \in BOOLEAN, setupAp' \in BOOLEAN, uplink' \in BOOLEAN,
           page' \in Forms \cup {NoForm}, FormApplicable',
           wifi' \/ setupAp' => nvs.ssid # "" /\ ~portalMode
    PROVE  SettingsInv'
<1>1. /\ job = "none" /\ todo = <<>> /\ OtherTypes /\ nvs \in NvsStates
      /\ pc = "serve"
      /\ quick' \in 0 .. Threshold /\ nvs.count <= quick'
      /\ cleared => nvs.count = 0
  BY ServingFacts
<1>2. /\ todo' = <<>> /\ job' = "none" /\ pc' = "loop"
      /\ graceOver' = graceOver /\ cleared' = cleared
  BY DEF NothingToWrite, Write, bootVars
<1>3. OtherTypes'
  BY <1>1, <1>2 DEF OtherTypes, Places
<1>4. JoinedHasWifi'
  BY <1>2 DEF JoinedHasWifi, Joining
<1>5. PortalEmpty'
  BY <1>1, <1>2 DEF SettingsInv, StoredInv, PortalEmpty, Settings
<1>6. CountBehind'
  BY <1>1, <1>2 DEF CountBehind
<1>7. ClearedCount'
  BY <1>1, <1>2 DEF ClearedCount
<1>8. PlaceInv'
  <2>1. JobPlace' /\ BootingAlone'
    BY <1>2 DEF JobPlace, BootingAlone
  <2>2. PortalAlone'
    BY <1>2 DEF PortalAlone, Joining
  <2>. QED  BY <2>1, <2>2 DEF PlaceInv
<1>. QED  BY <1>1, <1>2, <1>3, <1>4, <1>5, <1>6, <1>7, <1>8, NvsStays, NothingPlanned

\* One that begins to write a row.
LEMMA ServedWriting ==
    ASSUME SettingsInv, PowerTypeOK', Serving, Survived,
           nvs' = nvs, torn' = torn, portalMode' = portalMode, UNCHANGED ramVars,
           UNCHANGED bootVars,
           PlanInv', JobPlace', todo' # <<>>, job' \in Jobs \ {"none"},
           \/ pc' = "restart"
           \/ pc' = "loop" /\ nvs.ssid # "" /\ ~portalMode
    PROVE  SettingsInv'
<1>1. /\ job = "none" /\ todo = <<>> /\ OtherTypes /\ nvs \in NvsStates
      /\ pc = "serve"
      /\ quick' \in 0 .. Threshold /\ nvs.count <= quick'
      /\ cleared => nvs.count = 0
  BY ServingFacts
<1>2. /\ graceOver' = graceOver /\ cleared' = cleared /\ wifi' = wifi /\ setupAp' = setupAp
      /\ uplink' = uplink /\ page' = page /\ cfg' = cfg
  BY DEF ramVars, bootVars
<1>3. OtherTypes'
  BY <1>1, <1>2 DEF OtherTypes, Places
<1>4. JoinedHasWifi'
  BY DEF JoinedHasWifi
<1>5. PortalEmpty'
  BY DEF PortalEmpty
<1>6. CountBehind'
  BY <1>1 DEF CountBehind
<1>7. ClearedCount'
  BY <1>1, <1>2 DEF ClearedCount
<1>8. PlaceInv'
  <2>1. BootingAlone'
    BY DEF BootingAlone
  <2>2. PortalAlone'
    BY <1>1, <1>2 DEF PortalAlone, Joining, SettingsInv, PlaceInv
  <2>3. FormApplicable'
    BY <1>2 DEF FormApplicable, SettingsInv, PlaceInv
  <2>. QED  BY <2>1, <2>2, <2>3 DEF PlaceInv
<1>9. job' \in Jobs /\ (job' = "none" <=> todo' = <<>>)
  OBVIOUS
<1>. QED  BY <1>1, <1>3, <1>4, <1>5, <1>6, <1>7, <1>8, <1>9, NvsStays

\* At Serving, with a network joined or the Wi-Fi page open.
LEMMA JoinedAtServing ==
    ASSUME SettingsInv, Serving, wifi \/ setupAp
    PROVE  nvs.ssid # "" /\ ~portalMode
  BY DEF SettingsInv, StoredInv, PlaceInv, JoinedHasWifi, PortalAlone, Joining, Serving

LEMMA LoopEndsKeeps ==
    ASSUME SettingsInv, PowerTypeOK', LoopEnds
    PROVE  SettingsInv'
<1>1. /\ Serving /\ Survived /\ NothingToWrite("loop") /\ nvs' = nvs /\ torn' = torn
      /\ portalMode' = portalMode /\ UNCHANGED ramVars /\ UNCHANGED bootVars
  BY DEF LoopEnds
<1>2. wifi' = wifi /\ setupAp' = setupAp /\ uplink' = uplink /\ page' = page /\ cfg' = cfg
  BY <1>1 DEF ramVars
<1>3. /\ wifi' \in BOOLEAN /\ setupAp' \in BOOLEAN /\ uplink' \in BOOLEAN
      /\ page' \in Forms \cup {NoForm}
  BY <1>2, KnownTypes DEF OtherTypes
<1>4. wifi' \/ setupAp' => nvs.ssid # "" /\ ~portalMode
  BY <1>1, <1>2, JoinedAtServing
<1>5. FormApplicable'
  BY <1>2 DEF FormApplicable, SettingsInv, PlaceInv
<1>. QED  BY <1>1, <1>2, <1>3, <1>4, <1>5, ServedQuietly

LEMMA ServeWifiKeeps ==
    ASSUME SettingsInv, PowerTypeOK', ServeWifi
    PROVE  SettingsInv'
<1>1. /\ Serving /\ Survived /\ NothingToWrite("loop") /\ nvs' = nvs /\ torn' = torn
      /\ portalMode' = portalMode /\ cfg' = cfg /\ setupAp' = setupAp /\ page' = page
      /\ UNCHANGED bootVars /\ ~portalMode
      /\ wifi' \in (IF setupAp THEN {FALSE} ELSE {FALSE, CanConnect})
      /\ uplink' = (uplink \/ (wifi' /\ cfg.id))
  BY DEF ServeWifi
<1>2. OtherTypes
  BY KnownTypes
<1>3. wifi' \in BOOLEAN
  BY <1>1 DEF CanConnect
<1>4. setupAp' \in BOOLEAN /\ page' \in Forms \cup {NoForm}
  BY <1>1, <1>2 DEF OtherTypes
<1>5. uplink' \in BOOLEAN
  BY <1>1
<1>6. wifi' => CanConnect
  BY <1>1
<1>7. setupAp' => nvs.ssid # ""
  BY <1>1, JoinedAtServing
<1>8. wifi' \/ setupAp' => nvs.ssid # "" /\ ~portalMode
  BY <1>1, <1>6, <1>7 DEF CanConnect
<1>9. FormApplicable'
  BY <1>1 DEF FormApplicable, SettingsInv, PlaceInv
<1>. QED  BY <1>1, <1>3, <1>4, <1>5, <1>8, <1>9, ServedQuietly

LEMMA SaveKeeps ==
    ASSUME SettingsInv, PowerTypeOK', NEW form \in Forms, Save(form)
    PROVE  SettingsInv'
<1>1. /\ Serving /\ Survived /\ NothingToWrite("loop") /\ nvs' = nvs /\ torn' = torn
      /\ portalMode' = portalMode /\ cfg' = cfg /\ setupAp' = setupAp /\ wifi' = wifi
      /\ uplink' = uplink /\ UNCHANGED bootVars
      /\ Applicable(form.mode, form.url)
      /\ page' = [form EXCEPT !.token = form.token \/ nvs.token]
  BY DEF Save
<1>2. wifi' \in BOOLEAN /\ setupAp' \in BOOLEAN /\ uplink' \in BOOLEAN
  BY <1>1, KnownTypes DEF OtherTypes
<1>3. page' \in Forms /\ page'.mode = form.mode /\ page'.url = form.url
  BY <1>1 DEF Forms
<1>4. wifi' \/ setupAp' => nvs.ssid # "" /\ ~portalMode
  BY <1>1, JoinedAtServing
<1>5. FormApplicable'
  BY <1>1, <1>3 DEF FormApplicable
<1>. QED  BY <1>1, <1>2, <1>3, <1>4, <1>5, ServedQuietly

LEMMA TestFailsKeeps ==
    ASSUME SettingsInv, PowerTypeOK', TestFails
    PROVE  SettingsInv'
<1>1. /\ Serving /\ Survived /\ NothingToWrite("loop") /\ nvs' = nvs /\ torn' = torn
      /\ portalMode' = portalMode /\ cfg' = cfg /\ setupAp' = setupAp /\ wifi' = wifi
      /\ uplink' = uplink /\ UNCHANGED bootVars /\ page' = NoForm
  BY DEF TestFails
<1>2. /\ wifi' \in BOOLEAN /\ setupAp' \in BOOLEAN /\ uplink' \in BOOLEAN
      /\ page' \in Forms \cup {NoForm}
  BY <1>1, KnownTypes DEF OtherTypes
<1>3. wifi' \/ setupAp' => nvs.ssid # "" /\ ~portalMode
  BY <1>1, JoinedAtServing
<1>4. FormApplicable'
  BY <1>1 DEF FormApplicable
<1>. QED  BY <1>1, <1>2, <1>3, <1>4, ServedQuietly

LEMMA CommitKeeps ==
    ASSUME SettingsInv, PowerTypeOK', Commit
    PROVE  SettingsInv'
<1>1. /\ Serving /\ Survived /\ nvs' = nvs /\ torn' = torn /\ portalMode' = portalMode
      /\ UNCHANGED ramVars /\ UNCHANGED bootVars
      /\ todo' = CommitWrites(page) /\ job' = "config" /\ pc' = "restart"
      /\ page # NoForm
  BY DEF Commit, Write
<1>2. PICK form \in Forms : form = page /\ Applicable(form.mode, form.url)
  BY <1>1 DEF SettingsInv, PlaceInv, FormApplicable
<1>3. Planned(CommitWrites(form))' /\ todo' \in Seq(Writes) /\ todo' # <<>>
  <2>1. Row(CommitWrites(form))
    BY CommitRow
  <2>2. todo' = CommitWrites(form)
    BY <1>1, <1>2
  <2>. QED  BY <2>1, <2>2, RowBegins
<1>4. PlanInv'
  BY <1>1, <1>2, <1>3 DEF PlanInv
<1>5. JobPlace' /\ job' \in Jobs \ {"none"}
  BY <1>1 DEF JobPlace, Jobs, Settings
<1>. QED  BY <1>1, <1>3, <1>4, <1>5, ServedWriting

LEMMA SaveWifiKeeps ==
    ASSUME SettingsInv, PowerTypeOK', NEW network \in Networks, SaveWifi(network)
    PROVE  SettingsInv'
<1>1. /\ Serving /\ Survived /\ nvs' = nvs /\ torn' = torn /\ portalMode' = portalMode
      /\ UNCHANGED ramVars /\ UNCHANGED bootVars
      /\ todo' = WifiRow(network) /\ job' = "wifi" /\ pc' = "restart"
      /\ setupAp
  BY DEF SaveWifi, Write, WifiRow
<1>2. nvs'.id
  BY <1>1, JoinedAtServing DEF SettingsInv, StoredInv, WifiImpliesIdentity
<1>3. Planned(WifiRow(network))' /\ todo' \in Seq(Writes) /\ todo' # <<>>
  BY <1>1, WifiRowRow, RowBegins
<1>4. PlanInv'
  BY <1>1, <1>2, <1>3 DEF PlanInv
<1>5. JobPlace' /\ job' \in Jobs \ {"none"}
  BY <1>1 DEF JobPlace, Jobs, Settings
<1>. QED  BY <1>1, <1>3, <1>4, <1>5, ServedWriting

LEMMA ResetAskedKeeps ==
    ASSUME SettingsInv, PowerTypeOK', ResetAsked
    PROVE  SettingsInv'
<1>1. /\ Serving /\ Survived /\ nvs' = nvs /\ torn' = torn /\ portalMode' = portalMode
      /\ UNCHANGED ramVars /\ UNCHANGED bootVars
      /\ todo' = FactoryReset /\ job' = "reset" /\ pc' = "restart"
  BY DEF ResetAsked, Write
<1>2. Planned(FactoryReset)' /\ todo' \in Seq(Writes) /\ todo' # <<>>
  BY <1>1, FactoryResetRow, RowBegins
<1>3. PlanInv'
  BY <1>1, <1>2 DEF PlanInv
<1>4. JobPlace' /\ job' \in Jobs \ {"none"}
  BY <1>1 DEF JobPlace, Jobs, Settings
<1>. QED  BY <1>1, <1>2, <1>3, <1>4, ServedWriting

LEMMA SetConfigKeeps ==
    ASSUME SettingsInv, PowerTypeOK',
           \E mode \in Modes, url, token \in BOOLEAN : SetConfig(mode, url, token)
    PROVE  SettingsInv'
<1>1. PICK mode \in Modes, url \in BOOLEAN, token \in BOOLEAN : SetConfig(mode, url, token)
  OBVIOUS
<1>2. /\ Serving /\ Survived /\ nvs' = nvs /\ torn' = torn /\ portalMode' = portalMode
      /\ UNCHANGED ramVars /\ UNCHANGED bootVars /\ job' = "config" /\ pc' = "restart"
      /\ Online /\ Applicable(mode, url)
  BY <1>1 DEF SetConfig, Write
<1>3. todo' = ApplyWrites(mode, url, token)
  BY <1>1 DEF SetConfig, Write
<1>4. nvs.ssid # ""
  BY <1>2, JoinedAtServing DEF Online
<1>5. PICK network \in Networks : network = nvs.ssid
  BY <1>4, KnownTypes DEF WritesTyped, NvsStates
<1>6. PICK form \in Forms : form.mode = mode /\ form.url = url /\ form.token = token
  <2>1. [ssid |-> network, mode |-> mode, url |-> url, token |-> token] \in Forms
    BY DEF Forms
  <2>. QED  BY <2>1
<1>7. Planned(ApplyRow(form))' /\ todo' \in Seq(Writes) /\ todo' # <<>>
  <2>1. todo' = ApplyRow(form)
    BY <1>3, <1>6 DEF ApplyRow
  <2>2. Row(ApplyRow(form))
    BY ApplyRowRow
  <2>. QED  BY <2>1, <2>2, RowBegins
<1>8. Applicable(form.mode, form.url)
  BY <1>2, <1>6
<1>9. PlanInv'
  BY <1>2, <1>4, <1>7, <1>8 DEF PlanInv
<1>10. JobPlace' /\ job' \in Jobs \ {"none"}
  BY <1>2 DEF JobPlace, Jobs, Settings
<1>. QED  BY <1>2, <1>7, <1>9, <1>10, ServedWriting

LEMMA SetChannelKeeps ==
    ASSUME SettingsInv, PowerTypeOK', NEW channel \in Channels, SetChannel(channel)
    PROVE  SettingsInv'
<1>1. /\ Serving /\ Survived /\ nvs' = nvs /\ torn' = torn /\ portalMode' = portalMode
      /\ UNCHANGED ramVars /\ UNCHANGED bootVars
      /\ todo' = ChannelRow(channel) /\ job' = "channel" /\ pc' = "loop"
      /\ Online
  BY DEF SetChannel, Write, ChannelRow
<1>2. nvs.ssid # "" /\ ~portalMode
  BY <1>1, JoinedAtServing DEF Online
<1>3. Planned(ChannelRow(channel))' /\ todo' \in Seq(Writes) /\ todo' # <<>>
  BY <1>1, ChannelRowRow, RowBegins
<1>4. PlanInv'
  BY <1>1, <1>2, <1>3 DEF PlanInv
<1>5. JobPlace' /\ job' \in Jobs \ {"none"}
  BY <1>1 DEF JobPlace, Jobs, Settings
<1>. QED  BY <1>1, <1>2, <1>3, <1>4, <1>5, ServedWriting

LEMMA GraceEndsKeeps ==
    ASSUME SettingsInv, PowerTypeOK', GraceEnds
    PROVE  SettingsInv'
<1>1. /\ nvs' = nvs /\ todo' = todo /\ job' = job /\ pc' = pc /\ portalMode' = portalMode
      /\ UNCHANGED ramVars /\ cleared' = cleared /\ quick' = quick /\ torn' = torn
      /\ graceOver' = TRUE /\ pc # "serve"
  BY DEF GraceEnds
<1>2. wifi' = wifi /\ setupAp' = setupAp /\ uplink' = uplink /\ page' = page /\ cfg' = cfg
  BY <1>1 DEF ramVars
<1>3. OtherTypes' /\ WritesTyped'
  BY <1>1, <1>2, KnownTypes DEF OtherTypes, WritesTyped
<1>4. StartupTypeOK'
  BY <1>3, TypesMake
<1>5. PlanInv'
  <2>1. ASSUME NEW ws PROVE Planned(ws)' <=> Planned(ws)
    BY <1>1 DEF Planned
  <2>2. PlanInv
    BY DEF SettingsInv, StoredInv
  <2>. QED  BY <1>1, <2>1, <2>2 DEF PlanInv
<1>6. JoinedHasWifi' /\ PortalEmpty'
  BY <1>1, <1>2 DEF SettingsInv, StoredInv, JoinedHasWifi, Joining, PortalEmpty
<1>7. EmptyIsFresh' /\ TargetStored' /\ WifiImpliesIdentity'
  BY <1>1 DEF SettingsInv, StoredInv, EmptyIsFresh, FreshSettings, TargetStored,
              WifiImpliesIdentity
<1>8. CountBehind' /\ ClearedCount'
  BY <1>1 DEF SettingsInv, StoredInv, CountBehind, ClearedCount
<1>9. PlaceInv'
  BY <1>1, <1>2 DEF SettingsInv, PlaceInv, JobPlace, BootingAlone, PortalAlone, Joining,
                    FormApplicable
<1>. QED  BY <1>4, <1>5, <1>6, <1>7, <1>8, <1>9 DEF SettingsInv, StoredInv

\* A boot, after a power cut at any point or asked for.
LEMMA BootKeeps ==
    ASSUME SettingsInv, PowerTypeOK', Boot,
           \/ torn' = (torn \/ job \in Settings)
           \/ torn' = torn /\ job = "none"
    PROVE  SettingsInv'
<1>1. OtherTypes /\ WritesTyped
  BY KnownTypes
<1>2. /\ todo' = <<>> /\ job' = "none" /\ pc' = "power"
      /\ portalMode' = FALSE /\ cfg' = NoConfig /\ wifi' = FALSE /\ setupAp' = FALSE
      /\ uplink' = FALSE /\ page' = NoForm /\ graceOver' = FALSE /\ cleared' = FALSE
      /\ nvs' = nvs
  BY DEF Boot, NothingToWrite, Write
<1>3. quick' \in 0 .. Threshold /\ nvs.count < quick'
  <2>1. quick \in 0 .. Threshold /\ nvs.count <= quick /\ nvs.count \in 0 .. Threshold - 1
    BY <1>1 DEF OtherTypes, WritesTyped, NvsStates, SettingsInv, StoredInv, CountBehind
  <2>2. quick' = IF quick < Threshold THEN quick + 1 ELSE quick
    BY DEF Boot
  <2>. QED  BY <2>1, <2>2, ThresholdNat
<1>4. torn' \in BOOLEAN
  BY <1>1 DEF OtherTypes
<1>5. OtherTypes'
  BY <1>2, <1>3, <1>4 DEF OtherTypes, Places, NoConfig, Modes
<1>6. PlanInv' /\ WritesTyped'
  BY <1>1, <1>2, NothingPlanned DEF WritesTyped, PlanInv
<1>7. StartupTypeOK'
  BY <1>5, <1>6, TypesMake
<1>8. JoinedHasWifi' /\ PortalEmpty'
  BY <1>2 DEF JoinedHasWifi, Joining, PortalEmpty
<1>9. ~torn' => ~torn /\ job \notin Settings
  BY DEF Settings
<1>10. EmptyIsFresh'
  BY <1>2, <1>9 DEF EmptyIsFresh, FreshSettings, SettingsInv, StoredInv
<1>11. TargetStored'
  BY <1>2, <1>9 DEF TargetStored, SettingsInv, StoredInv
<1>12. WifiImpliesIdentity'
  BY <1>2 DEF WifiImpliesIdentity, SettingsInv, StoredInv
<1>13. CountBehind' /\ ClearedCount'
  <2>1. nvs.count \in 0 .. Threshold - 1
    BY <1>1 DEF WritesTyped, NvsStates
  <2>2. nvs'.count <= quick' /\ nvs'.count < quick'
    <3>1. nvs.count \in Int /\ quick' \in Int /\ nvs.count < quick'
      BY <1>3, <2>1, ThresholdNat
    <3>2. nvs.count <= quick'
      BY <3>1
    <3>3. nvs'.count = nvs.count
      BY <1>2
    <3>. QED  BY <3>1, <3>2, <3>3
  <2>3. CountBehind'
    BY <2>2 DEF CountBehind
  <2>4. ClearedCount'
    BY <1>2 DEF ClearedCount
  <2>. QED  BY <2>3, <2>4
<1>14. PlaceInv'
  BY <1>2 DEF PlaceInv, JobPlace, BootingAlone, PortalAlone, Joining, FormApplicable
<1>. QED  BY <1>6, <1>7, <1>8, <1>10, <1>11, <1>12, <1>13, <1>14 DEF SettingsInv, StoredInv

LEMMA SettingsStay ==
    ASSUME SettingsInv, UNCHANGED startupVars
    PROVE  SettingsInv'
<1>1. /\ nvs' = nvs /\ todo' = todo /\ job' = job /\ pc' = pc /\ portalMode' = portalMode
      /\ cleared' = cleared /\ quick' = quick /\ torn' = torn /\ graceOver' = graceOver
      /\ wifi' = wifi /\ setupAp' = setupAp /\ uplink' = uplink /\ page' = page /\ cfg' = cfg
      /\ chip' = chip /\ charger' = charger
  BY DEF startupVars, powerVars, ramVars, bootVars
<1>2. OtherTypes' /\ WritesTyped' /\ PowerTypeOK'
  BY <1>1, KnownTypes DEF OtherTypes, WritesTyped, PowerTypeOK
<1>3. StartupTypeOK'
  BY <1>2, TypesMake
<1>4. PlanInv'
  <2>1. ASSUME NEW ws PROVE Planned(ws)' <=> Planned(ws)
    BY <1>1 DEF Planned
  <2>2. PlanInv
    BY DEF SettingsInv, StoredInv
  <2>. QED  BY <1>1, <2>1, <2>2 DEF PlanInv
<1>5. JoinedHasWifi' /\ PortalEmpty'
  BY <1>1 DEF SettingsInv, StoredInv, JoinedHasWifi, Joining, PortalEmpty
<1>6. EmptyIsFresh' /\ TargetStored' /\ WifiImpliesIdentity'
  BY <1>1 DEF SettingsInv, StoredInv, EmptyIsFresh, FreshSettings, TargetStored,
              WifiImpliesIdentity
<1>7. CountBehind' /\ ClearedCount'
  BY <1>1 DEF SettingsInv, StoredInv, CountBehind, ClearedCount
<1>8. PlaceInv'
  BY <1>1 DEF SettingsInv, PlaceInv, JobPlace, BootingAlone, PortalAlone, Joining,
              FormApplicable
<1>. QED  BY <1>3, <1>4, <1>5, <1>6, <1>7, <1>8 DEF SettingsInv, StoredInv

\* Every step keeps the invariant.
LEMMA SettingsNext ==
    ASSUME SettingsInv, PowerInv, [StartupNext]_startupVars
    PROVE  SettingsInv'
<1>1. PowerTypeOK'
  BY PowerNext DEF PowerInv
<1>2. CASE WriteNext
  BY <1>2, WriteNextKeeps
<1>3. CASE Restart
  <2>1. job = "none"
    BY <1>3, IdleHere DEF Restart
  <2>2. Boot /\ torn' = torn
    BY <1>3 DEF Restart
  <2>. QED  BY <1>1, <2>1, <2>2, BootKeeps
<1>4. CASE PowerUp
  BY <1>1, <1>4, PowerUpKeeps
<1>5. CASE CountBoot
  BY <1>1, <1>5, CountBootKeeps
<1>6. CASE Load
  BY <1>1, <1>6, LoadKeeps
<1>7. CASE Connect
  BY <1>1, <1>7, ConnectKeeps
<1>8. CASE BootUpdate
  BY <1>1, <1>8, BootUpdateKeeps
<1>9. CASE LoopBegins
  BY <1>1, <1>9, LoopBeginsKeeps
<1>10. CASE LoopEnds
  BY <1>1, <1>10, LoopEndsKeeps
<1>11. CASE ServeWifi
  BY <1>1, <1>11, ServeWifiKeeps
<1>12. CASE \E form \in Forms : Save(form)
  BY <1>1, <1>12, SaveKeeps
<1>13. CASE TestFails
  BY <1>1, <1>13, TestFailsKeeps
<1>14. CASE Commit
  BY <1>1, <1>14, CommitKeeps
<1>15. CASE \E network \in Networks : SaveWifi(network)
  BY <1>1, <1>15, SaveWifiKeeps
<1>16. CASE ResetAsked
  BY <1>1, <1>16, ResetAskedKeeps
<1>17. CASE \E mode \in Modes, url, token \in BOOLEAN : SetConfig(mode, url, token)
  BY <1>1, <1>17, SetConfigKeeps
<1>18. CASE \E channel \in Channels : SetChannel(channel)
  BY <1>1, <1>18, SetChannelKeeps
<1>19. CASE GraceEnds
  BY <1>1, <1>19, GraceEndsKeeps
<1>20. CASE PowerCut
  BY <1>1, <1>20, BootKeeps DEF PowerCut
<1>21. CASE UNCHANGED startupVars
  BY <1>21, SettingsStay
<1>. QED  BY <1>2, <1>3, <1>4, <1>5, <1>6, <1>7, <1>8, <1>9, <1>10, <1>11, <1>12, <1>13,
             <1>14, <1>15, <1>16, <1>17, <1>18, <1>19, <1>20, <1>21 DEF StartupNext, Hub

-----------------------------------------------------------------------------
(***************************************************************************)
(* The first boot of a new Hub.                                            *)
(***************************************************************************)
LEMMA PowerInitially == StartupInit => PowerInv
<1> SUFFICES ASSUME StartupInit PROVE PowerInv
  OBVIOUS
<1>1. chip \in [AllRegisters -> BOOLEAN] /\ charger = ChargerAtBoot
  BY DEF StartupInit, ChipAtPowerUp
<1>2. charger.step = "begin" /\ charger.configured = FALSE
  BY <1>1 DEF ChargerAtBoot
<1>3. PowerTypeOK
  BY <1>1, RegistersDomain DEF PowerTypeOK, ChargerAtBoot
<1>4. ConfiguredAtEnd /\ ReadBackHolds /\ ConfiguredIsVerified
  BY <1>2 DEF ConfiguredAtEnd, ReadBackHolds, ConfiguredIsVerified
<1>. QED  BY <1>3, <1>4 DEF PowerInv

LEMMA SettingsInitially == StartupInit => SettingsInv
<1> SUFFICES ASSUME StartupInit PROVE SettingsInv
  OBVIOUS
<1>1. /\ nvs = Fresh /\ todo = <<>> /\ job = "none" /\ pc = "power" /\ portalMode = FALSE
      /\ cfg = NoConfig /\ wifi = FALSE /\ setupAp = FALSE /\ uplink = FALSE /\ page = NoForm
      /\ graceOver = FALSE /\ cleared = FALSE /\ quick = 1 /\ torn = FALSE
  BY DEF StartupInit
<1>2. nvs \in NvsStates
  <2>1. 0 \in 0 .. Threshold - 1
    BY ThresholdNat
  <2>. QED  BY <1>1, <2>1 DEF NvsStates, Fresh, Channels, Modes
<1>3. PowerTypeOK
  BY PowerInitially DEF PowerInv
<1>4. quick \in 0 .. Threshold
  BY <1>1, ThresholdNat
<1>5. StartupTypeOK
  <2>1. cfg \in [id : BOOLEAN, mode : Modes, url : BOOLEAN]
    BY <1>1 DEF NoConfig, Modes
  <2>2. OtherTypes
    BY <1>1, <1>4, <2>1 DEF OtherTypes, Places
  <2>3. {portalMode, wifi, setupAp, uplink, graceOver, cleared, torn} \subseteq BOOLEAN
    BY <1>1
  <2>4. job \in Jobs /\ (job = "none") = Idle /\ \A i \in DOMAIN todo : todo[i][1] \in DOMAIN nvs
    BY <1>1 DEF Idle, Jobs
  <2>. QED  BY <1>2, <1>3, <2>2, <2>3, <2>4 DEF StartupTypeOK, OtherTypes, Places, Jobs
<1>6. PlanInv
  BY <1>1, EmptySeq DEF PlanInv
<1>7. /\ nvs.ssid = "" /\ nvs.pass = "" /\ nvs.mode = "" /\ nvs.channel = "stable"
      /\ nvs.count = 0
  BY <1>1 DEF Fresh
<1>8. nvs.id = FALSE /\ nvs.url = FALSE /\ nvs.token = FALSE
  BY <1>1 DEF Fresh
<1>9. JoinedHasWifi /\ PortalEmpty
  BY <1>1 DEF JoinedHasWifi, Joining, PortalEmpty
<1>10. EmptyIsFresh
  BY <1>7, <1>8 DEF EmptyIsFresh, FreshSettings
<1>11. TargetStored
  BY <1>7 DEF TargetStored
<1>12. WifiImpliesIdentity
  BY <1>7 DEF WifiImpliesIdentity
<1>13. CountBehind
  <2>1. nvs.count = 0 /\ quick = 1
    BY <1>1, <1>7
  <2>. QED  BY <2>1 DEF CountBehind
<1>14. ClearedCount
  BY <1>1 DEF ClearedCount
<1>15. PlaceInv
  BY <1>1 DEF PlaceInv, JobPlace, BootingAlone, PortalAlone, Joining, FormApplicable
<1>. QED  BY <1>5, <1>6, <1>9, <1>10, <1>11, <1>12, <1>13, <1>15, <1>14
         DEF SettingsInv, StoredInv

-----------------------------------------------------------------------------
(***************************************************************************)
(* Theorems.                                                               *)
(***************************************************************************)
\* Both invariants hold throughout, whatever boot, power cut or page comes next.
THEOREM StartupInvariant == StartupSpec => [](SettingsInv /\ PowerInv)
<1>1. StartupInit => SettingsInv /\ PowerInv
  BY SettingsInitially, PowerInitially
<1>2. SettingsInv /\ PowerInv /\ [StartupNext]_startupVars => (SettingsInv /\ PowerInv)'
  BY SettingsNext, PowerNext
<1>. QED  BY <1>1, <1>2, PTL DEF StartupSpec

\* Every state is well typed, and the quick-boot counter in NVS stays below the
\* threshold (consumeQuickBootFactoryResetTrigger()).
THEOREM StartupTyped == StartupSpec => []StartupTypeOK
<1>1. SettingsInv => StartupTypeOK
  BY DEF SettingsInv
<1>. QED  BY <1>1, StartupInvariant, PTL

\* Wherever the power is cut while NVS is written (HubConfigPortal::commit(),
\* performFactoryReset()), it never holds Wi-Fi credentials without a gateway id.
THEOREM WifiNeverAlone == StartupSpec => []WifiImpliesIdentity
<1>1. SettingsInv => WifiImpliesIdentity
  BY DEF SettingsInv, StoredInv
<1>. QED  BY <1>1, StartupInvariant, PTL

\* What HubConfig::apply() stores is a complete target, unless it was cut short.
THEOREM TargetsComplete == StartupSpec => []TargetComplete
<1>1. SettingsInv => TargetComplete
  <2>1. SUFFICES ASSUME SettingsInv, nvs.mode = "manual", Idle, ~torn PROVE nvs.url
    BY DEF TargetComplete
  <2>2. job \notin Settings
    BY <2>1, IdleHere DEF Settings
  <2>. QED  BY <2>1, <2>2 DEF SettingsInv, StoredInv, TargetStored
<1>. QED  BY <1>1, StartupInvariant, PTL

\* The setup page of setup() only opens on a Hub without a single setting left.
THEOREM SetupOnlyWhenFresh == StartupSpec => []SetupMeansFresh
<1>1. SettingsInv => SetupMeansFresh
  <2>1. SUFFICES ASSUME SettingsInv, portalMode, Idle, pc \in {"loop", "serve"}, ~torn
                 PROVE  [nvs EXCEPT !.count = 0] = Fresh
    BY DEF SetupMeansFresh
  <2>2. job \notin Settings
    BY <2>1, IdleHere DEF Settings
  <2>3. nvs.ssid = ""
    BY <2>1, <2>2 DEF SettingsInv, StoredInv, PortalEmpty
  <2>4. FreshSettings
    BY <2>1, <2>2, <2>3 DEF SettingsInv, StoredInv, EmptyIsFresh
  <2>5. nvs \in NvsStates
    BY <2>1, KnownTypes DEF WritesTyped
  <2>6. nvs.id = FALSE /\ nvs.url = FALSE /\ nvs.token = FALSE
    BY <2>4, <2>5 DEF FreshSettings, NvsStates
  <2>7. [nvs EXCEPT !.count = 0] =
            [ssid |-> nvs.ssid, pass |-> nvs.pass, id |-> nvs.id, mode |-> nvs.mode,
             url |-> nvs.url, token |-> nvs.token, channel |-> nvs.channel, count |-> 0]
    <3>1. nvs = [ssid |-> nvs.ssid, pass |-> nvs.pass, id |-> nvs.id, mode |-> nvs.mode,
                 url |-> nvs.url, token |-> nvs.token, channel |-> nvs.channel,
                 count |-> nvs.count]
      BY <2>5 DEF NvsStates
    <3>. QED  BY <3>1
  <2>. QED  BY <2>4, <2>6, <2>7 DEF Fresh, FreshSettings
<1>. QED  BY <1>1, StartupInvariant, PTL

\* PowerManager reports its profile as configured only while every register holds
\* it (applyProfile()), however many registers there are.
THEOREM ConfiguredWasVerified == StartupSpec => []ConfiguredIsVerified
<1>1. PowerInv => ConfiguredIsVerified
  BY DEF PowerInv
<1>. QED  BY <1>1, StartupInvariant, PTL

\* Settings are only erased on request, or by the quick-boot reset after Threshold
\* boots in a row of which none lasted.
THEOREM SettingsNeverLost == StartupSpec => SettingsKept
<1>1. SettingsInv /\ [StartupNext]_startupVars =>
        [nvs.id /\ ~nvs'.id => job = "reset" \/ (job = "quick_reset" /\ quick = Threshold)]_startupVars
  <2>1. SUFFICES ASSUME SettingsInv, StartupNext, nvs.id, ~nvs'.id,
                        job # "reset", job # "quick_reset"
                 PROVE  FALSE
    BY DEF SettingsInv, StoredInv, PlanInv
  <2>2. StartupTypeOK /\ PlanInv /\ todo \in Seq(Writes) /\ job \in Jobs
    BY <2>1, KnownTypes DEF SettingsInv, StoredInv, WritesTyped
  <2>3. WriteNext \/ nvs' = nvs
    BY <2>1 DEF StartupNext, Hub, Restart, PowerUp, CountBoot, Load, Connect, BootUpdate,
                LoopBegins, LoopEnds, ServeWifi, Save, TestFails, Commit, SaveWifi,
                ResetAsked, SetConfig, SetChannel, GraceEnds, PowerCut, Boot
  <2>4. SUFFICES ASSUME WriteNext PROVE FALSE
    BY <2>1, <2>3
  <2>5. CASE job \in {"count", "clear"}
    <3>1. PICK n \in 0 .. Threshold - 1 : Planned(CountRow(n))
      BY <2>1, <2>5, CountRowOf
    <3>2. nvs' = [nvs EXCEPT !["count"] = n]
      BY <2>2, <2>4, <2>5, <3>1, CountWrite
    <3>3. nvs'.id = nvs.id
      BY <3>2, KnownTypes, <2>1 DEF WritesTyped, NvsStates
    <3>. QED  BY <2>1, <3>3
  <2>6. CASE job = "channel"
    <3>1. PICK channel \in Channels : Planned(ChannelRow(channel))
      BY <2>2, <2>6 DEF PlanInv
    <3>2. nvs' = [nvs EXCEPT !["channel"] = channel]
      BY <2>2, <2>4, <2>6, <3>1, ChannelWrite
    <3>3. nvs'.id = nvs.id
      BY <3>2, KnownTypes, <2>1 DEF WritesTyped, NvsStates
    <3>. QED  BY <2>1, <3>3
  <2>7. CASE job = "wifi"
    <3>1. PICK network \in Networks : Planned(WifiRow(network))
      BY <2>2, <2>7 DEF PlanInv
    <3>2. nvs'.id = nvs.id
      BY <2>2, <2>4, <2>7, <3>1, WifiWrite
    <3>. QED  BY <2>1, <3>2
  <2>8. CASE job = "config"
    <3>1. PICK form \in Forms :
            /\ Applicable(form.mode, form.url)
            /\ Planned(CommitWrites(form)) \/ Planned(ApplyRow(form))
      BY <2>2, <2>8 DEF PlanInv
    <3>2. nvs'.id
      BY <2>2, <2>4, <2>8, <3>1, CommitWrite, ApplyWrite
    <3>. QED  BY <2>1, <3>2
  <2>9. job # "none"
    BY <2>1, <2>4, WriteFrame, KnownTypes DEF WritesTyped
  <2>. QED  BY <2>1, <2>2, <2>5, <2>6, <2>7, <2>8, <2>9 DEF Jobs, Settings
<1>. QED  BY <1>1, StartupInvariant, PTL DEF StartupSpec, SettingsKept
=============================================================================
