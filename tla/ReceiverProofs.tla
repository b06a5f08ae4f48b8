---------------------------- MODULE ReceiverProofs ----------------------------
(* Proofs about Receiver, for any number of requests, changes and reports on    *)
(* their way: a radar has one receiver, its table follows its legend, commands  *)
(* reach their range and clients see the value the radar has.                   *)
EXTENDS Receiver, TLAPS

-------------------------------------------------------------------------------
\* The inductive invariant.

Phases == {"absent", "start", "loop", "sleep", "ended", "failed"}
Knowledge == {"model", "capabilities", "awaiting", "features", "sender"}

\* The controls Init chooses from.
CtlsOfKind ==
    {"Gain"}
    \cup (IF kind \in {"NXT", "HALO", "Fantom", "Quantum"} THEN {"Doppler"} ELSE {})
    \cup (IF Mine = Ranges THEN {"ScanSpeed", "Power"} ELSE {})
    \cup (IF Brand = "navico" THEN {"Power", "BearingAlignment", "AntennaForward"} ELSE {})

Subject == kind \in Kinds /\ ctl \in CtlsOfKind

Flags ==
    /\ net \in BOOLEAN /\ shutdown \in BOOLEAN /\ conn \in BOOLEAN
    /\ first_report_received \in BOOLEAN /\ asked \in BOOLEAN
    /\ untold \in BOOLEAN /\ gone \in BOOLEAN

\* One receiver for a radar that is registered.  A Navico receiver that has not
\* been in its loop yet knows nothing.
Life ==
    /\ registry \in {{}, Mine} /\ started \in {0, 1} /\ phase \in Phases
    /\ (registry # {}) = (started = 1)
    /\ (started = 1) = (phase # "absent")
    /\ phase = "ended" => shutdown \/ (Brand = "furuno" /\ gone)
    /\ phase = "failed" => Brand = "navico"
    /\ Brand = "navico" /\ phase \in {"absent", "start", "failed"}
          => known = {} /\ control["A"] = Unset

\* Requests wait for ranges the receiver serves.
Commands == [value : Values, alive : BOOLEAN]
Waiting ==
    /\ queue \in [Ranges -> Seq(Commands)]
    /\ \A r \in Ranges : queue[r] # <<>> => r \in Mine
    /\ dual_range_id \in Mine

\* What the radar may report.
Items == IF Brand = "furuno" THEN {"model"} \cup Reported ELSE Broadcast
Messages ==
    {m \in Reports : m.item \in Items /\ (m.item \in Ranges => m.value \in Values)}
Talking ==
    /\ device \in [Ranges -> Values] /\ control \in [Ranges -> Values \cup {Unset}]
    /\ owed \subseteq Items /\ reports \in Seq(Messages)

\* The picture.  A Furuno starts with the legend it was made with; the legend of
\* a Raymarine has intensities from the first info report on; a HALO whose model
\* is known without its capabilities awaits them.
Legends == [targets : {"Arpa"}, levels : {0, 1, 4, 16}, rain : BOOLEAN, pixels : Nat]
LookupTables == [params : Legends, on : BOOLEAN]
HaloSetup ==
    /\ ("model" \in known /\ "capabilities" \in known) <=> (legend["A"].levels > 0)
    /\ "awaiting" \in known <=> ("model" \in known /\ "capabilities" \notin known)
    /\ control["A"] # Unset => legend["A"].levels > 0
Picture ==
    /\ known \subseteq Knowledge /\ state \in 0 .. 3
    /\ legend \in [Ranges -> Legends] /\ lut \in [Ranges -> LookupTables]
    /\ mode \in [Ranges -> Values]
    /\ \A r \in Ranges :
          /\ \/ lut[r].params = legend[r]
             \/ kind = "NXT" /\ mode[r] = 0 /\ ~lut[r].on /\ lut[r].params = NewLegend
          /\ Brand \in {"furuno", "garmin"} /\ ~(kind = "Fantom" /\ r = "B")
                => (lut[r].on <=> mode[r] # 0)
          /\ Brand = "furuno" /\ "model" \notin known => legend[r] = NewLegend /\ mode[r] = 0
    /\ state # 0 => Brand = "raymarine" /\ "model" \in known
    /\ Brand = "raymarine" /\ "model" \in known => legend["A"].pixels > 0
    /\ kind = "HALO" => HaloSetup

\* The last message about r, if there is one, says v.
LastSays(s, r, v) ==
    \A i \in 1 .. Len(s) :
        s[i].item = r /\ (\A j \in i + 1 .. Len(s) : s[j].item # r) => s[i].value = v

Silent(s, r) == \A i \in 1 .. Len(s) : s[i].item # r

\* What is on its way about r is up to date, and so is the control once nothing
\* is on its way.
Sent(r) == r \in owed \/ LastSays(reports, r, device[r])
Fresh(r) ==
    r \in owed \/ (LastSays(reports, r, device[r])
                     /\ (Silent(reports, r) => control[r] = device[r]))

\* Radars that report all the time.
Broadcasting ==
    Brand # "furuno" /\ registry # {} => \A r \in Reported : Fresh(r)

\* Furuno.  Nothing is owed without a connection, and a session starts with
\* nothing on its way.  Range A is followed from the time it was asked for,
\* Range B while untold does not say otherwise, and both share the power.
Connected ==
    Brand = "furuno" =>
        /\ owed # {} => conn
        /\ conn => phase \in {"loop", "ended"}
        /\ phase \in {"absent", "start", "sleep"} => reports = <<>>
        /\ conn => \A r \in Reported : Sent(r)
        /\ conn /\ asked => HasControl("A") /\ Fresh("A")
        /\ kind = "NXT" /\ ~Shared /\ ~untold => HasControl("B") /\ Fresh("B")
        /\ kind = "NXT" /\ ctl = "Power" => control["A"] = control["B"] /\ device["A"] = device["B"]

IInv ==
    /\ Subject /\ Flags /\ Life /\ Waiting /\ Talking /\ Picture
    /\ Broadcasting /\ Connected

-------------------------------------------------------------------------------
\* Messages on their way.

\* Nothing on its way says nothing.
LEMMA NothingSays ==
    ASSUME NEW r, NEW v
    PROVE  LastSays(<<>>, r, v) /\ Silent(<<>>, r)
  BY DEF LastSays, Silent

\* The message read was the last about its item, or another one is.
LEMMA ReadSays ==
    ASSUME NEW S, NEW s \in Seq(S), s # <<>>, NEW r, NEW v, LastSays(s, r, v)
    PROVE  /\ Tail(s) \in Seq(S) /\ Head(s) \in S
           /\ LastSays(Tail(s), r, v)
           /\ Silent(Tail(s), r) => (Head(s).item = r => Head(s).value = v)
           /\ Silent(Tail(s), r) => (Head(s).item # r => Silent(s, r))
  <1>1. /\ Len(s) \in Nat /\ Len(s) > 0 /\ Len(Tail(s)) = Len(s) - 1
        /\ Head(s) = s[1] /\ Head(s) \in S /\ Tail(s) \in Seq(S)
        /\ \A i \in 1 .. Len(Tail(s)) : Tail(s)[i] = s[i + 1]
    OBVIOUS
  <1>2. LastSays(Tail(s), r, v)
    <2>1. SUFFICES ASSUME NEW i \in 1 .. Len(Tail(s)), Tail(s)[i].item = r,
                          \A j \in i + 1 .. Len(Tail(s)) : Tail(s)[j].item # r
                   PROVE  Tail(s)[i].value = v
      BY DEF LastSays
    <2>2. i + 1 \in 1 .. Len(s) /\ s[i + 1].item = r
      BY <1>1, <2>1
    <2>3. \A j \in (i + 1) + 1 .. Len(s) : s[j].item # r
      <3>1. SUFFICES ASSUME NEW j \in (i + 1) + 1 .. Len(s)
                     PROVE  s[j].item # r
        OBVIOUS
      <3>2. j - 1 \in i + 1 .. Len(Tail(s)) /\ j - 1 \in 1 .. Len(Tail(s)) /\ (j - 1) + 1 = j
        BY <1>1
      <3>3. Tail(s)[j - 1] = s[j]
        BY <1>1, <3>2
      <3> QED
        BY <2>1, <3>2, <3>3, Zenon
    <2> QED
      BY <2>2, <2>3, <1>1 DEF LastSays
  <1>3. ASSUME Silent(Tail(s), r)
        PROVE  \A j \in 2 .. Len(s) : s[j].item # r
    <2>1. SUFFICES ASSUME NEW j \in 2 .. Len(s)
                   PROVE  s[j].item # r
      OBVIOUS
    <2>2. j - 1 \in 1 .. Len(Tail(s)) /\ (j - 1) + 1 = j
      BY <1>1
    <2>3. Tail(s)[j - 1] = s[j]
      BY <1>1, <2>2
    <2> QED
      BY <1>3, <2>2, <2>3, ZenonT(40) DEF Silent
  <1>4. ASSUME Silent(Tail(s), r), Head(s).item = r
        PROVE  Head(s).value = v
    <2>1. 1 \in 1 .. Len(s) /\ 1 + 1 = 2
      BY <1>1
    <2> QED
      BY <1>1, <1>3, <1>4, <2>1 DEF LastSays
  <1>5. ASSUME Silent(Tail(s), r), Head(s).item # r
        PROVE  Silent(s, r)
    <2>1. \A j \in 1 .. Len(s) : j = 1 \/ j \in 2 .. Len(s)
      BY <1>1
    <2> QED
      BY <1>1, <1>3, <1>5, <2>1 DEF Silent
  <1> QED
    BY <1>1, <1>2, <1>4, <1>5

\* A message sent is the last about its item.
LEMMA SendSays ==
    ASSUME NEW S, NEW s \in Seq(S), NEW m \in S, NEW r, NEW v
    PROVE  /\ m.item = r /\ m.value = v => LastSays(Append(s, m), r, v)
           /\ m.item # r /\ LastSays(s, r, v) => LastSays(Append(s, m), r, v)
           /\ Silent(Append(s, m), r) => m.item # r /\ Silent(s, r)
           /\ Append(s, m) \in Seq(S)
  <1> DEFINE t == Append(s, m)
  <1>1. /\ Len(s) \in Nat /\ Len(t) = Len(s) + 1 /\ t \in Seq(S)
        /\ t[Len(t)] = m
        /\ \A i \in 1 .. Len(s) : t[i] = s[i]
    OBVIOUS
  <1> HIDE DEF t
  <1>2. Len(t) \in 1 .. Len(t) /\ \A i \in 1 .. Len(s) : i \in 1 .. Len(t) /\ Len(t) \in i + 1 .. Len(t)
    BY <1>1
  <1>3. \A i \in 1 .. Len(t) : i = Len(t) \/ i \in 1 .. Len(s)
    BY <1>1
  <1>4. ASSUME m.item = r, m.value = v
        PROVE  LastSays(t, r, v)
    BY <1>1, <1>2, <1>3, <1>4 DEF LastSays
  <1>5. ASSUME m.item # r, LastSays(s, r, v)
        PROVE  LastSays(t, r, v)
    <2>1. SUFFICES ASSUME NEW i \in 1 .. Len(t), t[i].item = r,
                          \A j \in i + 1 .. Len(t) : t[j].item # r
                   PROVE  t[i].value = v
      BY DEF LastSays
    <2>2. i \in 1 .. Len(s)
      BY <1>1, <1>3, <1>5, <2>1
    <2>3. \A j \in i + 1 .. Len(s) : j \in i + 1 .. Len(t) /\ j \in 1 .. Len(s)
      BY <1>1, <2>2
    <2> QED
      BY <1>1, <1>5, <2>1, <2>2, <2>3 DEF LastSays
  <1>6. Silent(t, r) => m.item # r /\ Silent(s, r)
    BY <1>1, <1>2 DEF Silent
  <1> QED
    BY <1>1, <1>4, <1>5, <1>6 DEF t

-------------------------------------------------------------------------------
\* The radar of a behaviour stays what it is.

Same == kind' = kind /\ ctl' = ctl

\* What is derived from the kind and the control stays with them.
LEMMA SameRadar ==
    ASSUME Same
    PROVE  /\ Brand' = Brand /\ Mine' = Mine /\ Shared' = Shared
           /\ Reported' = Reported /\ Broadcast' = Broadcast /\ NewLegend' = NewLegend
           /\ Items' = Items /\ Messages' = Messages
           /\ Subject' = Subject
  <1>1. Brand' = Brand /\ Mine' = Mine /\ Shared' = Shared
    BY Zenon DEF Same, Brand, Mine, Shared
  <1>2. Reported' = Reported
    BY <1>1, Zenon DEF Reported
  <1>3. Broadcast' = Broadcast
    BY <1>1, <1>2, Zenon DEF Same, Broadcast
  <1>4. NewLegend' = NewLegend
    BY <1>1, Zenon DEF Same, NewLegend, GarminLegend
  <1>5. Items' = Items
    BY <1>1, <1>2, <1>3, Zenon DEF Items
  <1>6. Messages' = Messages
    BY <1>5, Zenon DEF Messages
  <1>7. Subject' = Subject
    BY <1>1, Zenon DEF Same, Subject, CtlsOfKind
  <1> QED
    BY <1>1, <1>2, <1>3, <1>4, <1>5, <1>6, <1>7, Zenon

\* Each kind is of one brand.
LEMMA Radars ==
    ASSUME Subject
    PROVE  /\ Brand \in {"furuno", "navico", "garmin", "raymarine"}
           /\ (Brand = "furuno") = (kind \in {"NXT", "DRS"})
           /\ (Brand = "navico") = (kind \in {"HALO", "4G"})
           /\ (Brand = "garmin") = (kind \in {"Fantom", "HD"})
           /\ (Brand = "raymarine") = (kind \in {"Quantum", "RD"})
  BY ReceiverAssumption DEF Subject, Brand

\* The ranges served, those reported, and what the radar sends.
LEMMA RangesOfRadar ==
    ASSUME Subject
    PROVE  /\ Mine \subseteq Ranges /\ "A" \in Mine
           /\ Reported \subseteq Mine /\ "A" \in Reported
           /\ "B" \in Mine => kind \in {"NXT", "Fantom"}
           /\ kind \in {"NXT", "Fantom"} => "B" \in Mine
           /\ Shared => Reported = {"A"}
           /\ ~Shared => Reported = Mine
           /\ Brand # "furuno" => Reported \subseteq Broadcast
           /\ Brand = "furuno" => Broadcast = {}
           /\ Broadcast \subseteq Items
           /\ Reported \subseteq Items
           /\ Items \subseteq {"model", "properties", "features", "info", "fixed"} \cup Ranges
           /\ "B" \in Items => kind \in {"NXT", "Fantom"} /\ ~Shared
  <1>1. /\ Mine \subseteq Ranges /\ "A" \in Mine
        /\ Reported \subseteq Mine /\ "A" \in Reported
        /\ "B" \in Mine => kind \in {"NXT", "Fantom"}
        /\ kind \in {"NXT", "Fantom"} => "B" \in Mine
        /\ Shared => Reported = {"A"}
        /\ ~Shared => Reported = Mine
    BY DEF Mine, Reported, Ranges
  <1>2. /\ Brand # "furuno" => Reported \subseteq Broadcast
        /\ Brand = "furuno" => Broadcast = {}
        /\ Broadcast \subseteq {"properties", "features", "info", "fixed"} \cup Ranges
        /\ "B" \in Broadcast => "B" \in Reported
    BY <1>1, Radars, ReceiverAssumption DEF Broadcast, Ranges, Subject
  <1>3. "B" \in Reported => kind \in {"NXT", "Fantom"} /\ ~Shared
    BY <1>1
  <1> QED
    BY <1>1, <1>2, <1>3, Zenon DEF Items

-------------------------------------------------------------------------------
\* What a step has to leave alone for each part of the invariant to stay.

\* One receiver stays one.
LEMMA LifeStays ==
    ASSUME Life, Same, UNCHANGED <<registry, started, phase>>,
           shutdown => shutdown', gone => gone',
           phase \in {"absent", "start", "failed"} => UNCHANGED <<known, control>>
    PROVE  Life'
  <1>1. Brand' = Brand /\ Mine' = Mine
    BY SameRadar
  <1> QED
    BY <1>1, Zenon DEF Life

\* Requests that nobody touches stay where they are.
LEMMA WaitingStays ==
    ASSUME Waiting, Same, UNCHANGED <<queue, dual_range_id>>
    PROVE  Waiting'
  BY SameRadar, Zenon DEF Waiting

\* Types of the dialogue.
LEMMA TalkingStays ==
    ASSUME Talking, Same, UNCHANGED <<device, control>>,
           owed' \subseteq Items, reports' \in Seq(Messages)
    PROVE  Talking'
  BY SameRadar, Zenon DEF Talking

\* The picture is a matter of its own variables, and for HALO of the control.
LEMMA PictureStays ==
    ASSUME Picture, Same, UNCHANGED <<known, state, legend, lut, mode>>,
           kind = "HALO" => UNCHANGED control
    PROVE  Picture'
  <1>1. Brand' = Brand /\ NewLegend' = NewLegend
    BY SameRadar
  <1> QED
    BY <1>1, Zenon DEF Picture, HaloSetup, Same

\* A range stays fresh while its value and control are left alone.
LEMMA FreshStays ==
    ASSUME NEW r, UNCHANGED reports, r \in owed => r \in owed',
           device'[r] = device[r], control'[r] = control[r]
    PROVE  Fresh(r) => Fresh(r)'
  BY Zenon DEF Fresh

\* A report that is read and applied, or skipped to come again.
LEMMA FreshRead ==
    ASSUME NEW r, reports \in Seq(Messages), reports # <<>>, reports' = Tail(reports),
           r \in owed => r \in owed', device'[r] = device[r],
           Head(reports).item = r => control'[r] = Head(reports).value \/ r \in owed',
           Head(reports).item # r => control'[r] = control[r]
    PROVE  /\ Fresh(r) => Fresh(r)'
           /\ Sent(r) => Sent(r)'
           /\ Sent(r) /\ Head(reports).item = r => Fresh(r)'
  <1>1. CASE r \in owed
    BY <1>1, Zenon DEF Fresh, Sent
  <1>2. CASE LastSays(reports, r, device[r])
    <2>1. /\ LastSays(reports', r, device'[r])
          /\ Silent(reports', r) => (Head(reports).item = r => Head(reports).value = device[r])
          /\ Silent(reports', r) => (Head(reports).item # r => Silent(reports, r))
      BY <1>2, ReadSays, Zenon
    <2> QED
      BY <1>2, <2>1, Zenon DEF Fresh, Sent
  <1> QED
    BY <1>1, <1>2, Zenon DEF Fresh, Sent

\* A report that is sent carries the value the radar has.
LEMMA FreshSent ==
    ASSUME NEW r, NEW item, reports \in Seq(Messages),
           NEW m \in Messages, m.item = item, item = r => m.value = device[r],
           reports' = Append(reports, m), owed' = owed \ {item},
           UNCHANGED <<device, control>>
    PROVE  /\ Fresh(r) => Fresh(r)'
           /\ Sent(r) => Sent(r)'
  <1>1. /\ item = r => LastSays(reports', r, device[r])
        /\ item # r /\ LastSays(reports, r, device[r]) => LastSays(reports', r, device[r])
        /\ Silent(reports', r) => item # r /\ Silent(reports, r)
    BY SendSays, Zenon
  <1> QED
    BY <1>1, Zenon DEF Fresh, Sent

\* Owing more leaves every range fresh.
LEMMA BroadcastingStays ==
    ASSUME Broadcasting, Same, UNCHANGED <<registry, device, control, reports>>,
           owed \subseteq owed'
    PROVE  Broadcasting'
  <1>1. SUFFICES ASSUME Brand # "furuno", registry # {}, NEW r \in Reported
                 PROVE  Fresh(r)'
    BY SameRadar, Zenon DEF Broadcasting
  <1>2. Fresh(r)
    BY <1>1, Zenon DEF Broadcasting
  <1> QED
    BY <1>2, FreshStays, Zenon

\* A Furuno's control stays when the model stays known.
LEMMA ControlStays ==
    ASSUME NEW r, Brand = "furuno", Same, UNCHANGED registry, known \subseteq known'
    PROVE  HasControl(r) => HasControl(r)'
  <1>1. Brand' = Brand
    BY SameRadar
  <1>2. SUFFICES ASSUME HasControl(r)
                 PROVE  HasControl(r)'
    OBVIOUS
  <1>3. r \in registry /\ ctl \in FurunoControls \cup (IF "model" \in known THEN FurunoModelControls ELSE {})
    BY <1>2 DEF HasControl
  <1>4. /\ r \in registry'
        /\ ctl' \in FurunoControls \cup (IF "model" \in known' THEN FurunoModelControls ELSE {})
    BY <1>3 DEF Same
  <1> QED
    BY <1>1, <1>4 DEF HasControl, FurunoControls, FurunoModelControls

\* A Furuno whose dialogue is left alone.
LEMMA ConnectedStays ==
    ASSUME Connected, Same,
           UNCHANGED <<registry, phase, conn, asked, untold, device, control, reports, owed>>,
           known \subseteq known'
    PROVE  Connected'
  <1>1. CASE Brand # "furuno"
    BY <1>1, SameRadar, Zenon DEF Connected
  <1>2. CASE Brand = "furuno"
    <2>1. /\ HasControl("A") => HasControl("A")'
          /\ HasControl("B") => HasControl("B")'
      BY <1>2, ControlStays, Zenon
    <2>2. \A r : Fresh(r)' = Fresh(r) /\ Sent(r)' = Sent(r)
      BY Zenon DEF Fresh, Sent
    <2>3. Reported' = Reported /\ Shared' = Shared
      BY SameRadar
    <2> QED
      BY <1>2, <2>1, <2>2, <2>3, Zenon DEF Connected, Same
  <1> QED
    BY <1>1, <1>2

-------------------------------------------------------------------------------
\* Discovery.

\* Registering leaves everything but its own variables alone.
Registered ==
    /\ Same
    /\ Register \/ UNCHANGED <<registry, started, phase, owed>>
    /\ UNCHANGED <<net, shutdown, conn, first_report_received, asked, known, state, legend, lut, mode,
                   queue, dual_range_id, device, control, reports, untold, gone>>

\* Every beacon and packet registers the radar or leaves it as it is.
LEMMA DiscoverRegisters ==
    ASSUME Discover
    PROVE  Registered
  BY Zenon DEF Discover, NavicoBeacon, GarminPacket, process_beacon_56_report, process_beacon_36_report,
       FurunoModelReport, Located, Registered, Same, environment, picture, commands

\* A radar that is registered owes all it sends by itself.
LEMMA DiscoverKeeps ==
    ASSUME IInv, Registered
    PROVE  IInv'
  <1>1. /\ Subject /\ Flags /\ Life /\ Waiting /\ Talking /\ Picture /\ Broadcasting /\ Connected
        /\ Same
    BY DEF IInv, Registered
  <1>2. /\ Brand' = Brand /\ Mine' = Mine /\ Reported' = Reported /\ Subject'
    BY <1>1, SameRadar
  <1>3. Flags' /\ Waiting' /\ Picture'
    BY <1>1, WaitingStays, PictureStays, Zenon DEF Registered, Flags
  <1>4. CASE UNCHANGED <<registry, started, phase, owed>>
    <2>1. Life' /\ Talking' /\ Broadcasting' /\ Connected'
      BY <1>1, <1>4, LifeStays, TalkingStays, BroadcastingStays, ConnectedStays, Zenon
         DEF Registered, Talking
    <2> QED
      BY <1>2, <1>3, <2>1 DEF IInv
  <1>5. CASE Register /\ ~UNCHANGED <<registry, started, phase, owed>>
    <2>1. /\ registry = {} /\ registry' = Mine /\ started' = started + 1
          /\ phase' = "start" /\ owed' = Broadcast
      BY <1>5, Zenon DEF Register
    <2>2. started = 0 /\ phase = "absent"
      BY <1>1, <2>1 DEF Life
    <2>3. started' = 1 /\ Mine # {}
      BY <1>1, <2>1, <2>2, RangesOfRadar
    <2>4. Life'
      BY <1>1, <1>2, <2>1, <2>2, <2>3, Zenon DEF Life, Phases, Registered
    <2>5. Talking'
      BY <1>1, <2>1, RangesOfRadar, TalkingStays, Zenon DEF Registered, Talking
    <2>6. Broadcasting'
      BY <1>1, <1>2, <2>1, RangesOfRadar, Zenon DEF Broadcasting, Fresh
    <2>7. Connected'
      <3>1. CASE Brand # "furuno"
        BY <3>1, <1>2, Zenon DEF Connected
      <3>2. CASE Brand = "furuno"
        <4>0. Broadcast = {}
          BY <1>1, <3>2, RangesOfRadar
        <4>1. ~conn /\ reports = <<>> /\ owed' = {}
          BY <3>2, <1>1, <2>1, <2>2, <4>0, Zenon DEF Connected
        <4>2. ~HasControl("B")
          BY <2>1 DEF HasControl
        <4>3. Shared' = Shared
          BY <1>1, SameRadar
        <4> QED
          BY <3>2, <1>1, <2>1, <4>1, <4>2, <4>3, Zenon DEF Connected, Registered, Same
      <3> QED
        BY <3>1, <3>2
    <2> QED
      BY <1>2, <1>3, <2>4, <2>5, <2>6, <2>7 DEF IInv
  <1> QED
    BY <1>4, <1>5 DEF Registered

-------------------------------------------------------------------------------
\* The session.

\* A session that only goes on to its next phase.
LEMMA GotoKeeps ==
    ASSUME IInv, NEW p \in Phases, Goto(p), phase # "absent", p # "absent",
           p = "ended" => shutdown,
           p = "failed" => Brand = "navico" /\ phase = "start",
           p = "start" => Brand # "navico",
           Brand = "furuno" => p \in {"ended", "start", "sleep"}
                               /\ (p \in {"start", "sleep"} => phase \in {"start", "sleep"})
    PROVE  IInv'
  <1>1. /\ Subject /\ Flags /\ Life /\ Waiting /\ Talking /\ Picture /\ Broadcasting /\ Connected
        /\ Same /\ phase' = p
        /\ UNCHANGED <<net, shutdown, registry, started, conn, first_report_received, asked,
                       known, state, legend, lut, mode, queue, dual_range_id, device, control,
                       owed, reports, untold, gone>>
    BY DEF IInv, Goto, Same, environment, discovery, picture, commands, dialogue
  <1>2. /\ Brand' = Brand /\ Mine' = Mine /\ Reported' = Reported /\ Shared' = Shared /\ Subject'
    BY <1>1, SameRadar
  <1>3. Flags' /\ Waiting' /\ Picture' /\ Talking' /\ Broadcasting'
    BY <1>1, WaitingStays, PictureStays, TalkingStays, BroadcastingStays, Zenon DEF Flags, Talking
  <1>4. Life'
    BY <1>1, <1>2, Zenon DEF Life
  <1>5. Connected'
    <2>1. CASE Brand # "furuno"
      BY <2>1, <1>2, Zenon DEF Connected
    <2>2. CASE Brand = "furuno"
      <3>1. /\ HasControl("A") => HasControl("A")'
            /\ HasControl("B") => HasControl("B")'
        BY <2>2, <1>1, ControlStays, Zenon
      <3>2. \A r : Fresh(r)' = Fresh(r) /\ Sent(r)' = Sent(r)
        BY <1>1, Zenon DEF Fresh, Sent
      <3> QED
        BY <1>1, <2>2, <1>2, <3>1, <3>2, Zenon DEF Connected, Same
    <2> QED
      BY <2>1, <2>2
  <1> QED
    BY <1>2, <1>3, <1>4, <1>5 DEF IInv

\* A new connection starts with nothing on its way.
LEMMA FurunoOpenKeeps ==
    ASSUME IInv, FurunoOpen
    PROVE  IInv'
  <1>1. CASE ~net
    BY <1>1, GotoKeeps, Zenon DEF FurunoOpen, Phases
  <1>2. CASE net
    <2>1. /\ Subject /\ Flags /\ Life /\ Waiting /\ Talking /\ Picture /\ Broadcasting /\ Connected
          /\ Same /\ Brand = "furuno" /\ phase = "start" /\ phase' = "loop" /\ conn' = TRUE
          /\ first_report_received' = FALSE /\ asked' = FALSE
          /\ UNCHANGED <<net, shutdown, registry, started,
                       known, state, legend, lut, mode, queue, dual_range_id, device, control,
                       owed, reports, untold, gone>>
      BY <1>2 DEF IInv, FurunoOpen, Same, environment, discovery, picture, commands, dialogue
    <2>2. /\ Brand' = Brand /\ Mine' = Mine /\ Reported' = Reported /\ Shared' = Shared /\ Subject'
      BY <2>1, SameRadar
    <2>3. Waiting' /\ Picture' /\ Talking' /\ Broadcasting'
      BY <2>1, WaitingStays, PictureStays, TalkingStays, BroadcastingStays, Zenon DEF Talking
    <2>4. Life' /\ Flags'
      BY <2>1, <2>2, Zenon DEF Life, Phases, Flags
    <2>5. Connected'
      <3>1. HasControl("B") => HasControl("B")'
        BY <2>1, ControlStays, Zenon
      <3>2. \A r : (Fresh(r) => Fresh(r)') /\ Sent(r)'
        <4>1. reports' = <<>>
          BY <2>1 DEF Connected
        <4> QED
          BY <2>1, <4>1, NothingSays, Zenon DEF Fresh, Sent
      <3> QED
        BY <2>1, <2>2, <3>1, <3>2, Zenon DEF Connected, Same
    <2> QED
      BY <2>2, <2>3, <2>4, <2>5 DEF IInv
  <1> QED
    BY <1>1, <1>2

\* Opening sockets, for every brand.
LEMMA OpenKeeps ==
    ASSUME IInv, Open
    PROVE  IInv'
  <1>1. CASE FurunoOpen
    BY <1>1, FurunoOpenKeeps
  <1>2. CASE NavicoOpen
    BY <1>2, GotoKeeps, Zenon DEF NavicoOpen, Phases
  <1>3. CASE GarminOpen
    BY <1>3, GotoKeeps, Zenon DEF GarminOpen, Phases
  <1>4. CASE RaymarineOpen
    BY <1>4, GotoKeeps, Zenon DEF RaymarineOpen, Phases
  <1> QED
    BY <1>1, <1>2, <1>3, <1>4 DEF Open

\* Waking: Navico goes back to its loop, the others start again.
LEMMA WakeKeeps ==
    ASSUME IInv, Wake
    PROVE  IInv'
  BY GotoKeeps, Zenon DEF Wake, Phases

\* A receiver that stops was asked to.
LEMMA StopKeeps ==
    ASSUME IInv, Stop
    PROVE  IInv'
  BY GotoKeeps, Zenon DEF Stop, Phases

\* What was on its way when a loop is left.
LEMMA OnTheWay ==
    ASSUME reports \in Seq(Messages)
    PROVE  /\ {reports[i].item : i \in DOMAIN reports} \subseteq Items
           /\ \A r : Silent(reports, r) \/ \E i \in DOMAIN reports : reports[i].item = r
  <1>1. DOMAIN reports = 1 .. Len(reports) /\ \A i \in DOMAIN reports : reports[i] \in Messages
    OBVIOUS
  <1> QED
    BY <1>1, Zenon DEF Silent, Messages

\* A loop that is left: what was on its way comes again, or Range B is untold.
LEMMA LeaveKeeps ==
    ASSUME IInv, Same, NEW p \in {"sleep", "ended"}, phase = "loop", Leave(p), Waiting',
           UNCHANGED <<net, shutdown, registry, started, known, state, legend, lut, mode,
                       device, control>>,
           gone' \in BOOLEAN, gone => gone', p = "ended" => Brand = "furuno" /\ gone'
    PROVE  IInv'
  <1>1. /\ Subject /\ Flags /\ Life /\ Talking /\ Picture /\ Broadcasting /\ Connected
        /\ phase' = p /\ conn' = FALSE /\ UNCHANGED <<first_report_received, asked>>
    BY DEF IInv, Leave
  <1>2. /\ Brand' = Brand /\ Mine' = Mine /\ Reported' = Reported /\ Shared' = Shared /\ Subject'
    BY <1>1, SameRadar
  <1>3. Brand \in {"furuno", "navico", "garmin", "raymarine"}
    BY <1>1, Radars
  <1>4. Picture'
    BY <1>1, PictureStays, Zenon
  <1>5. Life'
    BY <1>1, <1>2, Zenon DEF Life, Phases
  <1>6. reports \in Seq(Messages) /\ owed \subseteq Items
    BY <1>1 DEF Talking
  <1>7. CASE Brand = "furuno"
    <2>1. /\ owed' = {} /\ reports' = <<>>
          /\ untold' = (untold \/ "B" \in owed \/ \E i \in DOMAIN reports : reports[i].item = "B")
      BY <1>7 DEF Leave
    <2>2. <<>> \in Seq(Messages)
      OBVIOUS
    <2>3. Talking' /\ Flags'
      BY <1>1, <2>1, <2>2, TalkingStays, Zenon DEF Flags
    <2>4. Broadcasting'
      BY <1>2, <1>7, Zenon DEF Broadcasting
    <2>5. HasControl("B") => HasControl("B")'
      BY <1>7, ControlStays, Zenon
    <2>6. ~untold' => ~untold /\ (Fresh("B") => Fresh("B")')
      BY <1>6, <2>1, OnTheWay, NothingSays, Zenon DEF Fresh
    <2>7. Connected'
      BY <1>1, <1>2, <1>7, <2>1, <2>5, <2>6, Zenon DEF Connected, Same
    <2> QED
      BY <1>2, <1>4, <1>5, <2>3, <2>4, <2>7 DEF IInv
  <1>8. CASE Brand = "navico"
    <2>1. UNCHANGED <<owed, reports, untold>>
      BY <1>8 DEF Leave
    <2>2. Talking' /\ Flags'
      BY <1>1, <1>6, <2>1, TalkingStays, Zenon DEF Flags
    <2>3. Broadcasting' /\ Connected'
      BY <1>1, <1>2, <1>8, <2>1, BroadcastingStays, Zenon DEF Connected
    <2> QED
      BY <1>2, <1>4, <1>5, <2>2, <2>3 DEF IInv
  <1>9. CASE Brand \in {"garmin", "raymarine"}
    <2>1. /\ owed' = owed \cup {reports[i].item : i \in DOMAIN reports}
          /\ reports' = <<>> /\ UNCHANGED untold
      BY <1>9 DEF Leave
    <2>2. <<>> \in Seq(Messages)
      OBVIOUS
    <2>3. owed' \subseteq Items
      BY <1>6, <2>1, OnTheWay, Zenon
    <2>4. Talking' /\ Flags'
      BY <1>1, <2>1, <2>2, <2>3, TalkingStays, Zenon DEF Flags
    <2>5. \A r : Fresh(r) => Fresh(r)'
      BY <1>6, <2>1, OnTheWay, NothingSays, ZenonT(40) DEF Fresh
    <2>6. Broadcasting' /\ Connected'
      BY <1>1, <1>2, <1>9, <2>5, Zenon DEF Broadcasting, Connected
    <2> QED
      BY <1>2, <1>4, <1>5, <2>4, <2>6 DEF IInv
  <1> QED
    BY <1>3, <1>7, <1>8, <1>9

\* A receive that fails.
LEMMA FailKeeps ==
    ASSUME IInv, Fail
    PROVE  IInv'
  <1>1. /\ phase = "loop" /\ Leave("sleep") /\ Same
        /\ UNCHANGED <<net, shutdown, registry, started, known, state, legend, lut, mode,
                       device, control, queue, dual_range_id, gone>>
    BY DEF Fail, Same, environment, discovery, picture, commands
  <1>2. Waiting' /\ gone' \in BOOLEAN
    BY <1>1, WaitingStays, Zenon DEF IInv, Flags
  <1> QED
    BY <1>1, <1>2, LeaveKeeps, Zenon

\* Asking once more makes Range A fresh, if its control is there.
LEMMA AskNowKeeps ==
    ASSUME Subject, Talking, conn, Brand = "furuno", AskNow
    PROVE  /\ owed' \subseteq Items /\ owed \subseteq owed'
           /\ asked \in BOOLEAN => asked' \in BOOLEAN
           /\ asked' => asked \/ HasControl("A")'
           /\ HasControl("A")' => Fresh("A")'
  <1>1. "model" \in Items /\ "A" \in Items
    BY RangesOfRadar DEF Items
  <1>2. owed' = owed \cup {"model"} \cup (IF HasControl("A")' THEN {"A"} ELSE {})
    BY DEF AskNow
  <1>3. owed' \subseteq Items /\ owed \subseteq owed' /\ (HasControl("A")' => "A" \in owed')
    BY <1>1, <1>2, Zenon DEF Talking
  <1> QED
    BY <1>3, Zenon DEF AskNow, Fresh

\* The report requests of Furuno.
LEMMA TimerKeeps ==
    ASSUME IInv, Timer
    PROVE  IInv'
  <1>1. /\ Subject /\ Flags /\ Life /\ Waiting /\ Talking /\ Picture /\ Broadcasting /\ Connected
        /\ Same /\ phase = "loop" /\ Brand = "furuno" /\ conn /\ AskNow
        /\ UNCHANGED <<net, shutdown, registry, started, phase, conn, first_report_received,
                       known, state, legend, lut, mode, queue, dual_range_id, device, control,
                       reports, untold, gone>>
    BY DEF IInv, Timer, Same, environment, discovery, picture, commands
  <1>2. /\ Brand' = Brand /\ Reported' = Reported /\ Shared' = Shared /\ Subject'
    BY <1>1, SameRadar
  <1>3. /\ owed' \subseteq Items /\ owed \subseteq owed' /\ asked' \in BOOLEAN
        /\ asked' => asked \/ HasControl("A")'
        /\ HasControl("A")' => Fresh("A")'
    BY <1>1, AskNowKeeps, Zenon DEF Flags
  <1>4. Life' /\ Waiting' /\ Picture' /\ Talking' /\ Broadcasting' /\ Flags'
    BY <1>1, <1>3, LifeStays, WaitingStays, PictureStays, TalkingStays, BroadcastingStays, Zenon
       DEF Talking, Flags
  <1>5. Connected'
    <2>1. /\ HasControl("A") => HasControl("A")'
          /\ HasControl("B") => HasControl("B")'
      BY <1>1, ControlStays, Zenon
    <2>2. \A r : (Fresh(r) => Fresh(r)') /\ (Sent(r) => Sent(r)')
      BY <1>1, <1>3, Zenon DEF Fresh, Sent
    <2> QED
      BY <1>1, <1>2, <1>3, <2>1, <2>2, Zenon DEF Connected, Same
  <1> QED
    BY <1>2, <1>4, <1>5 DEF IInv

-------------------------------------------------------------------------------
\* Requests.

\* A client asks for a value.
LEMMA RequestKeeps ==
    ASSUME IInv, NEW r \in Ranges, NEW v \in Wanted, Request(r, v)
    PROVE  IInv'
  <1>1. /\ Subject /\ Flags /\ Life /\ Waiting /\ Talking /\ Picture /\ Broadcasting /\ Connected
        /\ Same /\ r \in registry
        /\ queue' = [queue EXCEPT ![r] = Append(@, [value |-> v, alive |-> TRUE])]
        /\ UNCHANGED <<net, shutdown, registry, started, phase, conn, first_report_received, asked,
                       known, state, legend, lut, mode, dual_range_id, device, control,
                       owed, reports, untold, gone>>
    BY Zenon DEF IInv, Request, HasControl, Same, environment, discovery, session, picture, dialogue
  <1>2. Life' /\ Talking' /\ Picture' /\ Broadcasting' /\ Connected' /\ Flags' /\ Subject'
    BY <1>1, LifeStays, TalkingStays, PictureStays, BroadcastingStays, ConnectedStays, SameRadar, Zenon
       DEF Talking, Flags
  <1>3. Waiting'
    <2> DEFINE c == [value |-> v, alive |-> TRUE]
    <2>1. c \in Commands
      BY ReceiverAssumption, Zenon DEF Commands, Values
    <2> HIDE DEF c
    <2>2. queue[r] \in Seq(Commands) /\ Append(queue[r], c) \in Seq(Commands)
      BY <1>1, <2>1 DEF Waiting
    <2>3. queue' = [queue EXCEPT ![r] = Append(queue[r], c)]
      BY <1>1, Zenon DEF c
    <2>4. queue' \in [Ranges -> Seq(Commands)] /\ \A o \in Ranges : o # r => queue'[o] = queue[o]
      BY <1>1, <2>2, <2>3, Zenon DEF Waiting
    <2>5. r \in Mine /\ Mine' = Mine
      BY <1>1, SameRadar, Zenon DEF Life
    <2> QED
      BY <1>1, <2>4, <2>5, Zenon DEF Waiting
  <1> QED
    BY <1>2, <1>3 DEF IInv

\* A client that waits for an answer goes away.
LEMMA GiveUpKeeps ==
    ASSUME IInv, NEW r \in Ranges, GiveUp(r)
    PROVE  IInv'
  <1>0. PICK i \in DOMAIN queue[r] :
            /\ queue' = [queue EXCEPT ![r][i].alive = FALSE]
            /\ UNCHANGED <<environment, discovery, session, picture, dual_range_id, dialogue, counts>>
    BY Zenon DEF GiveUp
  <1>1. /\ Subject /\ Flags /\ Life /\ Waiting /\ Talking /\ Picture /\ Broadcasting /\ Connected
        /\ Same
        /\ UNCHANGED <<net, shutdown, registry, started, phase, conn, first_report_received, asked,
                       known, state, legend, lut, mode, dual_range_id, device, control,
                       owed, reports, untold, gone>>
    BY <1>0, Zenon DEF IInv, Same, environment, discovery, session, picture, dialogue
  <1>2. Life' /\ Talking' /\ Picture' /\ Broadcasting' /\ Connected' /\ Flags' /\ Subject'
    BY <1>1, LifeStays, TalkingStays, PictureStays, BroadcastingStays, ConnectedStays, SameRadar, Zenon
       DEF Talking, Flags
  <1>3. Waiting'
    <2> DEFINE q == queue[r]
               c == [q[i] EXCEPT !.alive = FALSE]
    <2>1. q \in Seq(Commands) /\ q[i] \in Commands /\ i \in DOMAIN q
      BY <1>1, <1>0 DEF Waiting
    <2>2. c \in Commands
      BY <2>1, Zenon DEF Commands
    <2>3. queue' = [queue EXCEPT ![r] = [q EXCEPT ![i] = c]]
      BY <1>0, Zenon
    <2> HIDE DEF c
    <2>4. [q EXCEPT ![i] = c] \in Seq(Commands)
      BY <2>1, <2>2
    <2>5. q # <<>>
      BY <2>1
    <2> HIDE DEF q
    <2>6. queue' \in [Ranges -> Seq(Commands)] /\ \A o \in Ranges : o # r => queue'[o] = queue[o]
      BY <1>1, <2>3, <2>4, Zenon DEF Waiting
    <2>7. r \in Mine /\ Mine' = Mine
      BY <1>1, <2>5, SameRadar, Zenon DEF Waiting, q
    <2> QED
      BY <1>1, <2>6, <2>7, Zenon DEF Waiting
  <1> QED
    BY <1>2, <1>3 DEF IInv

\* A value that changes is owed, unless it is the other range's.
Owing ==
    /\ device' \in [Ranges -> Values]
    /\ owed \subseteq owed' /\ owed' \subseteq Items
    /\ \A o \in Reported : o \in owed' \/ device'[o] = device[o]
    /\ Shared /\ device["A"] = device["B"] => device'["A"] = device'["B"]

\* A command that is applied is reported.
LEMMA ApplyOwes ==
    ASSUME Subject, Talking, NEW x \in Mine, NEW v \in Values, Apply(x, v)
    PROVE  Owing
  <1>1. /\ device' = [d \in Ranges |-> IF Shared \/ d = x THEN v ELSE device[d]]
        /\ owed' = owed \cup (IF Shared THEN {"A"} ELSE {x})
        /\ device \in [Ranges -> Values] /\ owed \subseteq Items
    BY DEF Apply, Talking
  <1>2. /\ "A" \in Items /\ Reported \subseteq Ranges
        /\ Shared => Reported = {"A"}
        /\ ~Shared => x \in Items
    BY RangesOfRadar
  <1>3. /\ device' \in [Ranges -> Values]
        /\ \A d \in Ranges : device'[d] = IF Shared \/ d = x THEN v ELSE device[d]
    BY <1>1
  <1>4. "A" \in Ranges /\ "B" \in Ranges
    BY DEF Ranges
  <1> QED
    BY <1>1, <1>2, <1>3, <1>4, Zenon DEF Owing

\* A value that changes and is owed leaves every range fresh.
LEMMA OwingKeeps ==
    ASSUME Subject, Talking, Broadcasting, Connected, Same, Owing,
           Brand = "furuno" => conn,
           UNCHANGED <<registry, known, phase, conn, asked, untold, control, reports>>
    PROVE  Talking' /\ Broadcasting' /\ Connected'
  <1>1. /\ Brand' = Brand /\ Reported' = Reported /\ Shared' = Shared /\ Items' = Items
        /\ Messages' = Messages
    BY SameRadar
  <1>2. Talking'
    BY <1>1, Zenon DEF Talking, Owing
  <1>3. \A r \in Reported : (Fresh(r) => Fresh(r)') /\ (Sent(r) => Sent(r)')
    BY Zenon DEF Fresh, Sent, Owing
  <1>4. Broadcasting'
    BY <1>1, <1>3, Zenon DEF Broadcasting
  <1>5. CASE Brand # "furuno"
    BY <1>1, <1>2, <1>4, <1>5, Zenon DEF Connected
  <1>6. CASE Brand = "furuno"
    <2>1. /\ HasControl("A") => HasControl("A")'
          /\ HasControl("B") => HasControl("B")'
      BY <1>6, ControlStays, Zenon
    <2>2. /\ "A" \in Reported /\ (kind = "NXT" /\ ~Shared => "B" \in Reported)
          /\ ctl = "Power" => Shared
      BY RangesOfRadar DEF Shared
    <2>3. Connected'
      BY <1>1, <1>3, <1>6, <2>1, <2>2, Zenon DEF Connected, Same, Owing
    <2> QED
      BY <1>2, <1>4, <2>3
  <1> QED
    BY <1>5, <1>6

\* A request is passed on, dropped, or ends the loop.
LEMMA ControlUpdateKeeps ==
    ASSUME IInv, NEW r \in Ranges, process_control_update(r)
    PROVE  IInv'
  <1> DEFINE request == Head(queue[r])
  <1>1. /\ Subject /\ Flags /\ Life /\ Waiting /\ Talking /\ Picture /\ Broadcasting /\ Connected
        /\ Same /\ phase = "loop" /\ queue[r] # <<>>
        /\ queue' = [queue EXCEPT ![r] = Tail(@)]
        /\ dual_range_id' = ToldRange(r, dual_range_id)
        /\ UNCHANGED <<net, shutdown, registry, started,
                       known, state, legend, lut, mode, control>>
    BY Zenon DEF IInv, process_control_update, Same, environment, discovery, picture
  <1>2. /\ Brand' = Brand /\ Mine' = Mine /\ Subject'
    BY <1>1, SameRadar
  <1>3. r \in Mine /\ dual_range_id' \in Mine /\ (Brand = "furuno" => dual_range_id' = r)
    BY <1>1, Zenon DEF Waiting, ToldRange
  <1>4. request \in Commands /\ Tail(queue[r]) \in Seq(Commands) /\ request.value \in Values
    <2>1. queue[r] \in Seq(Commands)
      BY <1>1, Zenon DEF Waiting
    <2>2. Head(queue[r]) \in Commands /\ Tail(queue[r]) \in Seq(Commands)
      BY <1>1, <2>1
    <2> QED
      BY <2>2, Zenon DEF Commands
  <1>5. Waiting'
    <2>1. queue' \in [Ranges -> Seq(Commands)] /\ \A o \in Ranges : o # r => queue'[o] = queue[o]
      BY <1>1, <1>4, Zenon DEF Waiting
    <2> QED
      BY <1>1, <1>2, <1>3, <2>1, Zenon DEF Waiting
  <1>6. Picture'
    BY <1>1, PictureStays, Zenon
  <1>7. CASE UNCHANGED <<session, device, owed, reports, untold, gone>>
    <2>1. UNCHANGED <<phase, conn, first_report_received, asked, device, owed, reports, untold, gone>>
      BY <1>7 DEF session
    <2>2. Life' /\ Talking' /\ Broadcasting' /\ Connected' /\ Flags'
      BY <1>1, <2>1, LifeStays, TalkingStays, BroadcastingStays, ConnectedStays, Zenon
         DEF Talking, Flags
    <2> QED
      BY <1>2, <1>5, <1>6, <2>2 DEF IInv
  <1>8. CASE /\ Reachable /\ set_control(r, dual_range_id', request.value)
             /\ UNCHANGED <<session, reports, untold, gone>>
    <2>1. UNCHANGED <<phase, conn, first_report_received, asked, reports, untold, gone>>
      BY <1>8 DEF session
    <2>2. Brand \in {"furuno", "navico", "garmin", "raymarine"} /\ "A" \in Mine
      BY <1>1, Radars, RangesOfRadar
    <2>3. \E x \in Mine : Apply(x, request.value)
      <3>1. CASE Brand = "furuno"
        <4>1. Apply(IF ctl = "Doppler" THEN "A" ELSE dual_range_id', request.value)
          BY <1>8, <3>1 DEF set_control, FurunoCommand
        <4> QED
          BY <1>3, <2>2, <4>1, Zenon
      <3>2. CASE Brand = "navico"
        BY <1>8, <3>2, <2>2 DEF set_control, NavicoCommand
      <3>3. CASE Brand = "garmin"
        BY <1>8, <3>3, <1>3 DEF set_control, GarminCommand
      <3>4. CASE Brand = "raymarine"
        BY <1>8, <3>4, <2>2 DEF set_control, QuantumCommand
      <3> QED
        BY <2>2, <3>1, <3>2, <3>3, <3>4
    <2>4. Owing
      BY <1>1, <1>4, <2>3, ApplyOwes, Zenon
    <2>5. Brand = "furuno" => conn
      BY <1>8, Zenon DEF Reachable
    <2>6. Talking' /\ Broadcasting' /\ Connected'
      BY <1>1, <2>1, <2>4, <2>5, OwingKeeps, Zenon
    <2>7. Life' /\ Flags'
      BY <1>1, <2>1, LifeStays, Zenon DEF Flags
    <2> QED
      BY <1>2, <1>5, <1>6, <2>6, <2>7 DEF IInv
  <1>9. CASE EndsLoop(request) /\ Leave("ended") /\ gone' = TRUE /\ UNCHANGED device
    <2>1. Brand = "furuno" /\ gone' \in BOOLEAN /\ gone'
      BY <1>9, Zenon DEF EndsLoop
    <2> QED
      BY <1>1, <1>5, <1>9, <2>1, LeaveKeeps, Zenon
  <1> QED
    BY <1>7, <1>8, <1>9, Zenon DEF process_control_update

-------------------------------------------------------------------------------
\* The radar and the network.

\* The radar sends a report.
LEMMA DeviceReportsKeeps ==
    ASSUME IInv, NEW item, DeviceReports(item)
    PROVE  IInv'
  <1> DEFINE m == [item |-> item, value |-> IF item \in Ranges THEN device[item] ELSE Unset]
  <1>1. /\ Subject /\ Flags /\ Life /\ Waiting /\ Talking /\ Picture /\ Broadcasting /\ Connected
        /\ Same /\ phase = "loop" /\ Reachable /\ item \in owed \cup Broadcast
        /\ reports' = Append(reports, m) /\ owed' = owed \ {item}
        /\ UNCHANGED <<net, shutdown, registry, started, phase, conn, first_report_received, asked,
                       known, state, legend, lut, mode, queue, dual_range_id, device, control,
                       untold, gone>>
    BY Zenon DEF IInv, DeviceReports, Same, environment, discovery, session, picture, commands
  <1>2. /\ Brand' = Brand /\ Reported' = Reported /\ Shared' = Shared /\ Subject'
    BY <1>1, SameRadar
  <1>3. item \in Items /\ Items \subseteq {"model", "properties", "features", "info", "fixed"} \cup Ranges
    BY <1>1, RangesOfRadar, Zenon DEF Talking
  <1>4. /\ m \in Messages /\ m.item = item
        /\ \A r \in Ranges : item = r => m.value = device[r]
    <2>1. item \in Ranges => device[item] \in Values
      BY <1>1, Zenon DEF Talking
    <2>2. m.item = item /\ m.value = (IF item \in Ranges THEN device[item] ELSE Unset)
      BY Zenon
    <2>3. m.value \in Values \cup {Unset}
      BY <2>1, <2>2, Zenon
    <2>4. m \in Reports
      BY <1>3, <2>2, <2>3, Zenon DEF Reports
    <2> HIDE DEF m
    <2> QED
      BY <1>3, <2>1, <2>2, <2>4, Zenon DEF Messages
  <1> HIDE DEF m
  <1>5. reports \in Seq(Messages) /\ reports' \in Seq(Messages) /\ owed' \subseteq Items
    BY <1>1, <1>4 DEF Talking
  <1>6. Life' /\ Waiting' /\ Talking' /\ Picture' /\ Flags'
    BY <1>1, <1>5, LifeStays, WaitingStays, TalkingStays, PictureStays, Zenon DEF Flags
  <1>7. \A r \in Ranges : (Fresh(r) => Fresh(r)') /\ (Sent(r) => Sent(r)')
    <2>1. SUFFICES ASSUME NEW r \in Ranges
                   PROVE  (Fresh(r) => Fresh(r)') /\ (Sent(r) => Sent(r)')
      OBVIOUS
    <2>2. item = r => m.value = device[r]
      BY <1>4
    <2> QED
      BY <1>1, <1>4, <1>5, <2>2, FreshSent, Zenon
  <1>8. Reported \subseteq Ranges /\ "A" \in Ranges /\ "B" \in Ranges
    BY <1>1, RangesOfRadar DEF Ranges
  <1>9. Broadcasting'
    BY <1>1, <1>2, <1>7, <1>8, Zenon DEF Broadcasting
  <1>10. Connected'
    <2>1. CASE Brand # "furuno"
      BY <2>1, <1>2, Zenon DEF Connected
    <2>2. CASE Brand = "furuno"
      <3>1. /\ HasControl("A") => HasControl("A")'
            /\ HasControl("B") => HasControl("B")'
        BY <2>2, <1>1, ControlStays, Zenon
      <3> QED
        BY <1>1, <1>2, <1>7, <1>8, <2>2, <3>1, Zenon DEF Connected, Same, Reachable
    <2> QED
      BY <2>1, <2>2
  <1> QED
    BY <1>2, <1>6, <1>9, <1>10 DEF IInv

\* A value changes at another station, seen or unseen.
LEMMA DeviceChangesKeeps ==
    ASSUME IInv, NEW r \in Ranges, DeviceChanges(r)
    PROVE  IInv'
  <1>1. /\ Subject /\ Flags /\ Life /\ Waiting /\ Talking /\ Picture /\ Broadcasting /\ Connected
        /\ Same /\ r \in Reported
        /\ device' = [d \in Ranges |-> IF Shared \/ d = r THEN 1 - device[d] ELSE device[d]]
        /\ UNCHANGED <<net, shutdown, registry, started, phase, conn, first_report_received, asked,
                       known, state, legend, lut, mode, queue, dual_range_id, control,
                       reports, gone>>
    BY Zenon DEF IInv, DeviceChanges, Same, environment, discovery, session, picture, commands
  <1>2. /\ Brand' = Brand /\ Reported' = Reported /\ Shared' = Shared /\ Items' = Items
        /\ Messages' = Messages /\ Subject'
    BY <1>1, SameRadar
  <1>3. Life' /\ Waiting' /\ Picture'
    BY <1>1, LifeStays, WaitingStays, PictureStays, Zenon
  <1>4. /\ device' \in [Ranges -> Values]
        /\ \A d \in Ranges : device'[d] = IF Shared \/ d = r THEN 1 - device[d] ELSE device[d]
    <2>1. \A d \in Ranges : device[d] \in {0, 1}
      BY <1>1 DEF Talking, Values
    <2>2. \A d \in Ranges : 1 - device[d] \in Values
      BY <2>1 DEF Values
    <2>3. \A d \in Ranges : (IF Shared \/ d = r THEN 1 - device[d] ELSE device[d]) \in Values
      BY <2>1, <2>2, Zenon DEF Values
    <2> QED
      BY <1>1, <2>3, Zenon
  <1>5. /\ "A" \in Ranges /\ "B" \in Ranges /\ Reported \subseteq Ranges /\ Reported \subseteq Items
        /\ Shared => Reported = {"A"}
        /\ ctl = "Power" => Shared
    BY <1>1, RangesOfRadar DEF Ranges, Shared
  <1>6. CASE Reachable \/ Brand # "furuno"
    <2>1. owed' = owed \cup {r} /\ UNCHANGED untold
      BY <1>6, Zenon DEF DeviceChanges
    <2>2. Owing
      BY <1>1, <1>4, <1>5, <2>1, Zenon DEF Owing, Talking
    <2>3. Brand = "furuno" => conn
      BY <1>6, Zenon DEF Reachable
    <2>4. Talking' /\ Broadcasting' /\ Connected' /\ Flags'
      BY <1>1, <2>1, <2>2, <2>3, OwingKeeps, Zenon DEF Flags
    <2> QED
      BY <1>2, <1>3, <2>4 DEF IInv
  <1>7. CASE ~Reachable /\ Brand = "furuno"
    <2>1. untold' = (untold \/ r = "B") /\ UNCHANGED owed /\ ~conn
      BY <1>7, Zenon DEF DeviceChanges, Reachable
    <2>2. Talking' /\ Flags' /\ Broadcasting'
      BY <1>1, <1>2, <1>4, <1>7, <2>1, Zenon DEF Talking, Flags, Broadcasting
    <2>3. ~untold' /\ ~Shared => ~untold /\ (Fresh("B") => Fresh("B")')
      BY <1>1, <1>4, <1>5, <2>1, Zenon DEF Fresh
    <2>4. HasControl("B") => HasControl("B")'
      BY <1>1, <1>7, ControlStays, Zenon
    <2>5. Shared /\ device["A"] = device["B"] => device'["A"] = device'["B"]
      BY <1>4, <1>5, Zenon
    <2>6. Connected'
      BY <1>1, <1>2, <1>5, <1>7, <2>1, <2>3, <2>4, <2>5, Zenon DEF Connected, Same
    <2> QED
      BY <1>2, <1>3, <2>2, <2>6 DEF IInv
  <1> QED
    BY <1>6, <1>7

\* The network fails: what Furuno was owed is lost, and Range B with it untold.
LEMMA NetworkFailsKeeps ==
    ASSUME IInv, NetworkFails
    PROVE  IInv'
  <1>1. /\ Subject /\ Flags /\ Life /\ Waiting /\ Talking /\ Picture /\ Broadcasting /\ Connected
        /\ Same /\ net' = FALSE /\ conn' = FALSE
        /\ IF Brand = "furuno"
           THEN owed' = {} /\ untold' = (untold \/ "B" \in owed) ELSE UNCHANGED <<owed, untold>>
        /\ UNCHANGED <<shutdown, registry, started, phase, first_report_received, asked,
                       known, state, legend, lut, mode, queue, dual_range_id, device, control,
                       reports, gone>>
    BY Zenon DEF IInv, NetworkFails, Same, discovery, picture, commands
  <1>2. /\ Brand' = Brand /\ Reported' = Reported /\ Shared' = Shared /\ Subject'
    BY <1>1, SameRadar
  <1>3. Life' /\ Waiting' /\ Picture' /\ Talking'
    BY <1>1, LifeStays, WaitingStays, PictureStays, TalkingStays, Zenon DEF Talking
  <1>4. CASE Brand # "furuno"
    <2>1. Flags' /\ Broadcasting' /\ Connected'
      BY <1>1, <1>2, <1>4, BroadcastingStays, Zenon DEF Flags, Connected
    <2> QED
      BY <1>2, <1>3, <2>1 DEF IInv
  <1>5. CASE Brand = "furuno"
    <2>1. Flags' /\ Broadcasting'
      BY <1>1, <1>2, <1>5, Zenon DEF Flags, Broadcasting
    <2>2. HasControl("B") => HasControl("B")'
      BY <1>1, <1>5, ControlStays, Zenon
    <2>3. ~untold' => ~untold /\ (Fresh("B") => Fresh("B")')
      BY <1>1, <1>5, Zenon DEF Fresh
    <2>4. Connected'
      BY <1>1, <1>2, <1>5, <2>2, <2>3, Zenon DEF Connected, Same
    <2> QED
      BY <1>2, <1>3, <2>1, <2>4 DEF IInv
  <1> QED
    BY <1>4, <1>5

\* The network comes back, shutdown is requested, or nothing happens.
LEMMA QuietKeeps ==
    ASSUME IInv, \/ NetworkRecovers \/ ShutdownRequested \/ UNCHANGED vars
    PROVE  IInv'
  <1>1. /\ Subject /\ Flags /\ Life /\ Waiting /\ Talking /\ Picture /\ Broadcasting /\ Connected
    BY DEF IInv
  <1>2. /\ Same /\ net' \in BOOLEAN /\ shutdown' \in BOOLEAN /\ (shutdown => shutdown')
        /\ UNCHANGED <<registry, started, phase, conn, first_report_received, asked,
                       known, state, legend, lut, mode, queue, dual_range_id, device, control,
                       owed, reports, untold, gone>>
    BY <1>1, Zenon DEF NetworkRecovers, ShutdownRequested, Flags, Same, vars, environment, discovery,
                       session, picture, commands, dialogue
  <1>3. Subject'
    BY <1>1, <1>2, SameRadar
  <1>4. Flags'
    BY <1>1, <1>2, Zenon DEF Flags
  <1>5. /\ Life' /\ Waiting' /\ Talking' /\ Picture' /\ Broadcasting' /\ Connected'
    BY <1>1, <1>2, <1>4, LifeStays, WaitingStays, TalkingStays, PictureStays, BroadcastingStays,
       ConnectedStays, Zenon DEF Talking
  <1> QED
    BY <1>3, <1>4, <1>5 DEF IInv

-------------------------------------------------------------------------------
\* Reports.

\* What set_value leaves in the controls.
LEMMA SetValue ==
    ASSUME Talking, NEW S, NEW v \in Values, set_value(S, v)
    PROVE  /\ control' \in [Ranges -> Values \cup {Unset}]
           /\ \A r \in Ranges : control'[r] = IF r \in S /\ HasControl(r) THEN v ELSE control[r]
  BY Zenon DEF Talking, set_value

\* What the setters of RadarInfo leave in a legend.
LEMMA Setters ==
    ASSUME NEW p \in Legends
    PROVE  /\ \A d \in BOOLEAN :
                /\ set_doppler(p, d) \in Legends /\ set_doppler(p, d).pixels = p.pixels
                /\ d => set_doppler(p, d).levels > 0
           /\ \A n \in {0, 1, 4, 16} : set_doppler_levels(p, n) \in Legends
           /\ \A b \in BOOLEAN : set_has_rain_class(p, b) \in Legends
           /\ \A n \in Nat : set_pixel_values(p, n) \in Legends /\ set_pixel_values(p, n).pixels = n
  <1>1. ASSUME NEW d \in BOOLEAN
        PROVE  /\ set_doppler(p, d) \in Legends /\ set_doppler(p, d).pixels = p.pixels
               /\ d => set_doppler(p, d).levels > 0
    <2>1. CASE d = (p.levels > 0)
      BY <2>1, Zenon DEF set_doppler
    <2>2. CASE ~(d = (p.levels > 0))
      <3> DEFINE n == IF d THEN 1 ELSE 0
      <3>1. n \in {0, 1, 4, 16} /\ (d => n = 1)
        BY Zenon
      <3> HIDE DEF n
      <3>2. set_doppler(p, d) = [p EXCEPT !.levels = n]
        BY <2>2, Zenon DEF set_doppler, n
      <3>3. [p EXCEPT !.levels = n] \in Legends /\ [p EXCEPT !.levels = n].pixels = p.pixels
            /\ [p EXCEPT !.levels = n].levels = n
        BY <3>1, Zenon DEF Legends
      <3>4. 1 > 0
        OBVIOUS
      <3> QED
        BY <3>1, <3>2, <3>3, <3>4, Zenon
    <2> QED
      BY <2>1, <2>2
  <1>2. ASSUME NEW n \in {0, 1, 4, 16}
        PROVE  set_doppler_levels(p, n) \in Legends
    BY <1>2, Zenon DEF set_doppler_levels, Legends
  <1>3. ASSUME NEW b \in BOOLEAN
        PROVE  set_has_rain_class(p, b) \in Legends
    BY <1>3, Zenon DEF set_has_rain_class, Legends
  <1>4. ASSUME NEW n \in Nat
        PROVE  set_pixel_values(p, n) \in Legends /\ set_pixel_values(p, n).pixels = n
    BY <1>4, Zenon DEF set_pixel_values, Legends
  <1> QED
    BY <1>1, <1>2, <1>3, <1>4

\* The fields of a table.
LEMMA Tables ==
    ASSUME NEW p \in Legends, NEW on \in BOOLEAN
    PROVE  /\ Table(p, on) \in LookupTables
           /\ Table(p, on).params = p /\ Table(p, on).on = on
  BY Zenon DEF Table, LookupTables

\* What a receiver in its loop reads.
LEMMA ReportRead ==
    ASSUME IInv, NEW report, Received(report)
    PROVE  /\ Same /\ phase = "loop" /\ reports # <<>> /\ report = Head(reports)
           /\ UNCHANGED <<net, shutdown, registry, started, queue, dual_range_id, device, gone>>
           /\ report \in Messages /\ Tail(reports) \in Seq(Messages)
           /\ report.item \in Items /\ (report.item \in Ranges => report.value \in Values)
           /\ registry = Mine
  <1>1. /\ Same /\ phase = "loop" /\ reports # <<>> /\ report = Head(reports)
        /\ UNCHANGED <<net, shutdown, registry, started, queue, dual_range_id, device, gone>>
    BY Zenon DEF Received, Same, environment, discovery, commands
  <1>2. reports \in Seq(Messages)
    BY DEF IInv, Talking
  <1>3. report \in Messages /\ Tail(reports) \in Seq(Messages)
    BY <1>1, <1>2
  <1>4. report.item \in Items /\ (report.item \in Ranges => report.value \in Values)
    BY <1>3, Zenon DEF Messages
  <1>5. registry = Mine
    BY <1>1, Zenon DEF IInv, Life
  <1> QED
    BY <1>1, <1>3, <1>4, <1>5

\* A report of a radar that reports all the time.
LEMMA ReportKeeps ==
    ASSUME IInv, NEW report, Received(report), Brand # "furuno", reports' = Tail(reports),
           UNCHANGED <<session, untold>>, Picture',
           control' \in [Ranges -> Values \cup {Unset}],
           owed \subseteq owed', owed' \subseteq Items,
           \A r \in Reported :
              /\ report.item = r => control'[r] = report.value \/ r \in owed'
              /\ report.item # r => control'[r] = control[r]
    PROVE  IInv'
  <1>1. /\ Subject /\ Flags /\ Life /\ Waiting /\ Talking /\ Broadcasting
        /\ UNCHANGED <<phase, conn, first_report_received, asked>>
    BY DEF IInv, session
  <1>2. /\ Same /\ phase = "loop" /\ reports # <<>> /\ report = Head(reports)
        /\ UNCHANGED <<net, shutdown, registry, started, queue, dual_range_id, device, gone>>
        /\ Tail(reports) \in Seq(Messages)
    BY ReportRead
  <1>3. /\ Brand' = Brand /\ Reported' = Reported /\ Subject' /\ Items' = Items /\ Messages' = Messages
    BY <1>1, <1>2, SameRadar
  <1>4. Flags' /\ Life' /\ Waiting'
    BY <1>1, <1>2, LifeStays, WaitingStays, Zenon DEF Flags
  <1>5. Talking'
    BY <1>1, <1>2, <1>3, Zenon DEF Talking
  <1>6. Broadcasting'
    <2>1. SUFFICES ASSUME registry # {}, NEW r \in Reported
                   PROVE  Fresh(r)'
      BY <1>2, <1>3, Zenon DEF Broadcasting
    <2>2. Fresh(r) /\ reports \in Seq(Messages)
      BY <1>1, <2>1, Zenon DEF Broadcasting, Talking
    <2> QED
      BY <1>2, <2>2, FreshRead, Zenon
  <1>7. Connected'
    BY <1>3, Zenon DEF Connected
  <1> QED
    BY <1>3, <1>4, <1>5, <1>6, <1>7 DEF IInv

\* Navico has one range to a receiver.
LEMMA NavicoRadar ==
    ASSUME Subject, Brand = "navico"
    PROVE  /\ Reported = {"A"} /\ Mine = {"A"} /\ kind \in {"HALO", "4G"}
           /\ Items \subseteq {"properties", "features", "A"}
           /\ ctl \in {"Gain", "Power", "BearingAlignment", "AntennaForward"} \/ (ctl = "Doppler" /\ kind = "HALO")
  <1>1. kind \in {"HALO", "4G"}
    BY Radars
  <1>2. Mine = {"A"} /\ Reported = {"A"}
    BY <1>1 DEF Mine, Reported
  <1>3. Items \subseteq {"properties", "features", "A"}
    BY <1>1 DEF Items, Broadcast
  <1>4. ctl \in {"Gain", "Power", "BearingAlignment", "AntennaForward"} \/ (ctl = "Doppler" /\ kind = "HALO")
    BY <1>1, <1>2 DEF Subject, CtlsOfKind, Ranges
  <1> QED
    BY <1>1, <1>2, <1>3, <1>4

\* What the picture of a Navico or a Raymarine needs: both have range A only.
PictureA ==
    /\ known \subseteq Knowledge /\ state \in 0 .. 3
    /\ legend \in [Ranges -> Legends] /\ lut \in [Ranges -> LookupTables]
    /\ mode \in [Ranges -> Values]
    /\ \A r \in Ranges : lut[r].params = legend[r]
    /\ state # 0 => Brand = "raymarine" /\ "model" \in known
    /\ Brand = "raymarine" /\ "model" \in known => legend["A"].pixels > 0
    /\ kind = "HALO" => HaloSetup

\* For Navico and Raymarine the picture is that of range A.
LEMMA OneRangePicture ==
    ASSUME Subject, Same, Brand \in {"navico", "raymarine"}
    PROVE  (Picture => PictureA) /\ (PictureA' => Picture')
  <1>1. kind # "NXT" /\ Brand \notin {"furuno", "garmin"} /\ Brand # "furuno"
    BY Radars
  <1>2. kind' # "NXT" /\ Brand' \notin {"furuno", "garmin"} /\ Brand' # "furuno"
    BY <1>1, SameRadar DEF Same
  <1> QED
    BY <1>1, <1>2, Zenon DEF Picture, PictureA

\* A legend and a table that are made together.
LEMMA MadeTogether ==
    ASSUME PictureA, NEW new \in Legends,
           legend' = [legend EXCEPT !["A"] = new],
           lut' = [lut EXCEPT !["A"] = Table(new, FALSE)]
    PROVE  /\ legend' \in [Ranges -> Legends] /\ legend'["A"] = new
           /\ lut' \in [Ranges -> LookupTables]
           /\ \A r \in Ranges : lut'[r].params = legend'[r]
  <1> DEFINE t == Table(new, FALSE)
  <1>1. t \in LookupTables /\ t.params = new
    BY Tables, Zenon
  <1> HIDE DEF t
  <1>2. lut' = [lut EXCEPT !["A"] = t]
    BY DEF t
  <1>3. "A" \in Ranges
    BY DEF Ranges
  <1>4. /\ legend' \in [Ranges -> Legends] /\ legend'["A"] = new
        /\ \A r \in Ranges : r # "A" => legend'[r] = legend[r]
    BY <1>3, Zenon DEF PictureA
  <1>5. /\ lut' \in [Ranges -> LookupTables] /\ lut'["A"] = t
        /\ \A r \in Ranges : r # "A" => lut'[r] = lut[r]
    BY <1>1, <1>2, <1>3, Zenon DEF PictureA
  <1> QED
    BY <1>1, <1>4, <1>5, Zenon DEF PictureA

\* finalize_halo makes legend and table together, with a Doppler level.
LEMMA FinalizeHalo ==
    ASSUME PictureA, finalize_halo
    PROVE  /\ legend' \in [Ranges -> Legends] /\ legend'["A"].levels > 0
           /\ lut' \in [Ranges -> LookupTables]
           /\ \A r \in Ranges : lut'[r].params = legend'[r]
  <1> DEFINE new == set_doppler(legend["A"], TRUE)
  <1>1. legend["A"] \in Legends
    BY Zenon DEF PictureA, Ranges
  <1>2. new \in Legends /\ new.levels > 0
    BY <1>1, Setters, Zenon
  <1>3. /\ legend' = [legend EXCEPT !["A"] = new]
        /\ lut' = [lut EXCEPT !["A"] = Table(new, FALSE)]
    BY Zenon DEF finalize_halo
  <1> HIDE DEF new
  <1> QED
    BY <1>2, <1>3, MadeTogether, Zenon

\* The model of a Navico, before or after its capabilities.
LEMMA PropertiesKeep ==
    ASSUME Subject, Brand = "navico", Same, PictureA, process_state_properties
    PROVE  PictureA'
  <1>1. UNCHANGED <<state, mode, control>> /\ kind' = kind /\ Brand' = Brand
    BY SameRadar, Zenon DEF process_state_properties, Same
  <1>2. CASE ("model" \in known \/ kind # "HALO") /\ known' = known \cup {"model"} /\ UNCHANGED <<legend, lut>>
    <2>1. known' \subseteq Knowledge
      BY <1>2 DEF PictureA, Knowledge
    <2>2. kind = "HALO" => known' = known
      BY <1>2, Zenon
    <2> QED
      BY <1>1, <1>2, <2>1, <2>2, Zenon DEF PictureA, HaloSetup
  <1>3. CASE "model" \notin known /\ "capabilities" \in known /\ known' = known \cup {"model"} /\ finalize_halo
    <2>1. /\ legend' \in [Ranges -> Legends] /\ legend'["A"].levels > 0
          /\ lut' \in [Ranges -> LookupTables]
          /\ \A r \in Ranges : lut'[r].params = legend'[r]
      BY <1>3, FinalizeHalo
    <2>2. /\ known' \subseteq Knowledge /\ "model" \in known' /\ "capabilities" \in known'
          /\ "awaiting" \in known' <=> "awaiting" \in known
      BY <1>3 DEF PictureA, Knowledge
    <2>3. HaloSetup => HaloSetup'
      BY <1>3, <2>1, <2>2, Zenon DEF HaloSetup
    <2> QED
      BY <1>1, <1>3, <2>1, <2>2, <2>3, Zenon DEF PictureA
  <1>4. CASE /\ "model" \notin known /\ "capabilities" \notin known
             /\ known' = known \cup {"model", "awaiting"} /\ UNCHANGED <<legend, lut>>
    <2>1. /\ known' \subseteq Knowledge /\ "model" \in known' /\ "capabilities" \notin known' /\ "awaiting" \in known'
      BY <1>4 DEF PictureA, Knowledge
    <2>2. HaloSetup => HaloSetup'
      BY <1>1, <1>4, <2>1, Zenon DEF HaloSetup
    <2> QED
      BY <1>1, <1>4, <2>1, <2>2, Zenon DEF PictureA
  <1> QED
    BY <1>2, <1>3, <1>4, Zenon DEF process_state_properties

\* The capabilities of a Navico, before or after its model.
LEMMA FeaturesKeep ==
    ASSUME Subject, Brand = "navico", Same, PictureA, process_state_features
    PROVE  PictureA'
  <1>1. UNCHANGED <<state, mode, control>> /\ kind' = kind /\ Brand' = Brand
    BY SameRadar, Zenon DEF process_state_features, Same
  <1>2. /\ known' \subseteq Knowledge /\ "capabilities" \in known' /\ "awaiting" \notin known'
        /\ "model" \in known' <=> "model" \in known
    BY DEF process_state_features, PictureA, Knowledge
  <1>3. CASE "awaiting" \in known
    <2>1. /\ legend' \in [Ranges -> Legends] /\ legend'["A"].levels > 0
          /\ lut' \in [Ranges -> LookupTables]
          /\ \A r \in Ranges : lut'[r].params = legend'[r]
      BY <1>3, FinalizeHalo, Zenon DEF process_state_features
    <2>2. HaloSetup => HaloSetup'
      BY <1>2, <1>3, <2>1, Zenon DEF HaloSetup
    <2> QED
      BY <1>1, <1>2, <2>1, <2>2, Zenon DEF PictureA
  <1>4. CASE "awaiting" \notin known
    <2>1. UNCHANGED <<legend, lut>>
      BY <1>4, Zenon DEF process_state_features
    <2>2. HaloSetup => HaloSetup'
      BY <1>1, <1>2, <1>4, <2>1, Zenon DEF HaloSetup
    <2> QED
      BY <1>1, <1>2, <2>1, <2>2, Zenon DEF PictureA
  <1> QED
    BY <1>3, <1>4

\* A report that sets the control of range A.
LEMMA ValueOfA ==
    ASSUME Talking, Reported = {"A"}, NEW v \in Values, set_value({"A"}, v), HasControl("A")
    PROVE  /\ control' \in [Ranges -> Values \cup {Unset}]
           /\ \A r \in Reported : control'[r] = v
  BY SetValue, Zenon DEF Ranges

\* process_report of Navico.
LEMMA NavicoReportKeeps ==
    ASSUME IInv, NavicoReport
    PROVE  IInv'
  <1>0. PICK report \in {reports[i] : i \in DOMAIN reports} :
            /\ Brand = "navico" /\ Received(report)
            /\ reports' = Tail(reports)
            /\ CASE report.item = "properties" -> process_state_properties
                 [] report.item = "features" -> process_state_features
                 [] report.item = "A" /\ Ready -> \/ process_state_mode(report)
                                                  \/ process_state_setup(report)
                                                  \/ process_state_config(report)
                                                  \/ process_state_installation(report)
                                                  \/ process_state_setup_extended(report)
                 [] report.item = "A" /\ ~Ready -> Skip(report)
            /\ UNCHANGED <<session, untold>>
    BY Zenon DEF NavicoReport
  <1>1. /\ Subject /\ Talking /\ Picture /\ control \in [Ranges -> Values \cup {Unset}] /\ owed \subseteq Items
    BY DEF IInv, Talking
  <1>2. /\ Same /\ report.item \in Items /\ (report.item \in Ranges => report.value \in Values)
        /\ registry = Mine
    BY <1>0, ReportRead
  <1>3. /\ Reported = {"A"} /\ Mine = {"A"} /\ Items \subseteq {"properties", "features", "A"}
        /\ kind \in {"HALO", "4G"}
        /\ ctl \in {"Gain", "Power", "BearingAlignment", "AntennaForward"} \/ (ctl = "Doppler" /\ kind = "HALO")
    BY <1>0, <1>1, NavicoRadar
  <1>4. /\ Brand' = Brand /\ Subject' /\ Brand # "furuno" /\ kind' = kind
    BY <1>0, <1>1, <1>2, SameRadar DEF Same
  <1>5. PictureA /\ (PictureA' => Picture')
    BY <1>0, <1>1, <1>2, OneRangePicture, Zenon
  <1>6. CASE report.item = "properties"
    <2>1. process_state_properties
      BY <1>0, <1>6
    <2>2. Picture' /\ UNCHANGED <<control, owed>>
      BY <1>0, <1>1, <1>2, <1>5, <2>1, PropertiesKeep, Zenon DEF process_state_properties
    <2>3. \A r \in Reported : report.item # r
      BY <1>3, <1>6
    <2> QED
      BY <1>0, <1>1, <1>4, <2>2, <2>3, ReportKeeps, Zenon
  <1>7. CASE report.item = "features"
    <2>1. process_state_features
      BY <1>0, <1>7
    <2>2. Picture' /\ UNCHANGED <<control, owed>>
      BY <1>0, <1>1, <1>2, <1>5, <2>1, FeaturesKeep, Zenon DEF process_state_features
    <2>3. \A r \in Reported : report.item # r
      BY <1>3, <1>7
    <2> QED
      BY <1>0, <1>1, <1>4, <2>2, <2>3, ReportKeeps, Zenon
  <1>8. CASE report.item = "A" /\ Ready
    <2>1. \/ process_state_mode(report)
          \/ process_state_setup(report)
          \/ process_state_config(report)
          \/ process_state_installation(report)
          \/ process_state_setup_extended(report)
      BY <1>0, <1>8
    <2>2. /\ set_value({"A"}, report.value) /\ UNCHANGED <<known, state, legend, lut, owed>>
          /\ UNCHANGED mode \/ mode' = [mode EXCEPT !["A"] = report.value]
      BY <2>1, Zenon DEF process_state_mode, process_state_setup, process_state_config,
         process_state_installation, process_state_setup_extended, picture
    <2>3. report.value \in Values
      BY <1>2, <1>8, Zenon DEF Ranges
    <2>4. kind = "HALO" => legend["A"].levels > 0
      BY <1>5, <1>8, Zenon DEF PictureA, HaloSetup, Ready
    <2>5. HasControl("A")
      <3>1. ctl \in NavicoControls \cup HaloControls
        BY <1>3, <2>4, Zenon DEF NavicoControls, HaloControls
      <3> QED
        BY <1>0, <1>2, <1>3, <3>1 DEF HasControl
    <2>6. mode' \in [Ranges -> Values]
      BY <1>5, <2>2, <2>3, Zenon DEF PictureA
    <2>7. Picture'
      BY <1>4, <1>5, <2>2, <2>4, <2>6, Zenon DEF PictureA, HaloSetup
    <2>8. /\ control' \in [Ranges -> Values \cup {Unset}]
          /\ \A r \in Reported : control'[r] = report.value
      BY <1>1, <1>3, <2>2, <2>3, <2>5, ValueOfA, Zenon
    <2>9. \A r \in Reported : report.item = r
      BY <1>3, <1>8, Zenon
    <2> QED
      BY <1>0, <1>1, <1>4, <2>2, <2>7, <2>8, <2>9, ReportKeeps, Zenon
  <1>9. CASE report.item = "A" /\ ~Ready
    <2>1. Skip(report)
      BY <1>0, <1>9
    <2>2. owed' = owed \cup {"A"} /\ UNCHANGED <<known, state, legend, lut, mode, control>>
      BY <1>9, <2>1, Zenon DEF Skip, picture
    <2>3. Picture'
      BY <1>1, <1>2, <2>2, PictureStays, Zenon
    <2>4. owed \subseteq owed' /\ owed' \subseteq Items /\ \A r \in Reported : report.item = r /\ r \in owed'
      BY <1>1, <1>2, <1>3, <1>9, <2>2, Zenon
    <2> QED
      BY <1>0, <1>1, <1>4, <2>2, <2>3, <2>4, ReportKeeps, Zenon
  <1> QED
    BY <1>2, <1>3, <1>6, <1>7, <1>8, <1>9, Zenon

\* Raymarine has one range.
LEMMA RaymarineRadar ==
    ASSUME Subject, Brand = "raymarine"
    PROVE  /\ Reported = {"A"} /\ Mine = {"A"} /\ kind \in {"Quantum", "RD"}
           /\ Items \subseteq {"info", "features", "fixed", "A"}
           /\ ctl \in RaymarineControls
  <1>1. kind \in {"Quantum", "RD"}
    BY Radars
  <1>2. Mine = {"A"} /\ Reported = {"A"}
    BY <1>1 DEF Mine, Reported
  <1>3. Items \subseteq {"info", "features", "fixed", "A"}
    BY <1>1 DEF Items, Broadcast
  <1>4. ctl \in RaymarineControls
    BY <1>1, <1>2 DEF Subject, CtlsOfKind, Ranges, RaymarineControls
  <1> QED
    BY <1>1, <1>2, <1>3, <1>4

\* The first info report.
LEMMA InfoKeeps ==
    ASSUME PictureA, Same, Brand = "raymarine", kind # "HALO",
           NEW n \in Nat, n > 0, NEW doppler \in BOOLEAN, NEW more \in SUBSET Knowledge,
           LET new == set_doppler(set_pixel_values(legend["A"], n), doppler)
           IN  /\ known' = known \cup more
               /\ state' = 1
               /\ legend' = [legend EXCEPT !["A"] = new]
               /\ lut' = [lut EXCEPT !["A"] = Table(new, FALSE)],
           "model" \in more, UNCHANGED mode
    PROVE  PictureA'
  <1> DEFINE new == set_doppler(set_pixel_values(legend["A"], n), doppler)
  <1>1. Brand' = "raymarine" /\ kind' # "HALO"
    BY SameRadar DEF Same
  <1>2. legend["A"] \in Legends
    BY Zenon DEF PictureA, Ranges
  <1>3. set_pixel_values(legend["A"], n) \in Legends /\ set_pixel_values(legend["A"], n).pixels = n
    BY <1>2, Setters, Zenon
  <1>4. new \in Legends /\ new.pixels = n
    BY <1>3, Setters, Zenon
  <1> HIDE DEF new
  <1>5. /\ legend' = [legend EXCEPT !["A"] = new]
        /\ lut' = [lut EXCEPT !["A"] = Table(new, FALSE)]
        /\ known' = known \cup more /\ state' = 1
    BY Zenon DEF new
  <1>6. /\ legend' \in [Ranges -> Legends] /\ legend'["A"] = new
        /\ lut' \in [Ranges -> LookupTables]
        /\ \A r \in Ranges : lut'[r].params = legend'[r]
    BY <1>4, <1>5, MadeTogether, Zenon
  <1>7. state' \in 0 .. 3
    BY <1>5
  <1>8. known' \subseteq Knowledge /\ "model" \in known'
    BY <1>5, Zenon DEF PictureA
  <1> QED
    BY <1>1, <1>4, <1>6, <1>7, <1>8, Zenon DEF PictureA

\* The first features report makes the table again if the legend changes.
LEMMA RaymarineFeaturesKeep ==
    ASSUME PictureA, Same, Brand = "raymarine", kind # "HALO", NEW doppler \in BOOLEAN,
           process_features(doppler)
    PROVE  PictureA'
  <1> DEFINE new == set_doppler(legend["A"], doppler)
  <1>1. Brand' = "raymarine" /\ kind' # "HALO" /\ UNCHANGED <<state, mode>>
    BY SameRadar DEF Same, process_features
  <1>2. CASE "features" \in known
    <2>1. UNCHANGED <<known, legend, lut>>
      BY <1>2, Zenon DEF process_features
    <2> QED
      BY <1>1, <2>1, Zenon DEF PictureA
  <1>3. CASE "features" \notin known
    <2>1. legend["A"] \in Legends /\ "A" \in Ranges
      BY Zenon DEF PictureA, Ranges
    <2>2. new \in Legends /\ new.pixels = legend["A"].pixels
      BY <2>1, Setters, Zenon
    <2>3. /\ known' = known \cup {"features"}
          /\ legend' = [legend EXCEPT !["A"] = new]
          /\ lut' = IF new = legend["A"] THEN lut
                    ELSE [lut EXCEPT !["A"] = Table(new, FALSE)]
      BY <1>3, Zenon DEF process_features
    <2> HIDE DEF new
    <2>4. /\ legend' \in [Ranges -> Legends] /\ legend'["A"] = new
          /\ lut' \in [Ranges -> LookupTables]
          /\ \A r \in Ranges : lut'[r].params = legend'[r]
      <3>1. CASE new = legend["A"]
        <4>1. legend' \in [Ranges -> Legends] /\ \A r \in Ranges : legend'[r] = legend[r]
          BY <2>1, <2>2, <2>3, <3>1, Zenon DEF PictureA
        <4> QED
          BY <2>1, <2>3, <3>1, <4>1, Zenon DEF PictureA
      <3>2. CASE new # legend["A"]
        BY <2>2, <2>3, <3>2, MadeTogether, Zenon
      <3> QED
        BY <3>1, <3>2
    <2>5. known' \subseteq Knowledge /\ ("model" \in known' <=> "model" \in known)
      BY <2>3 DEF PictureA, Knowledge
    <2> QED
      BY <1>1, <2>2, <2>4, <2>5, Zenon DEF PictureA
  <1> QED
    BY <1>2, <1>3

\* A report that only moves the state.
LEMMA StateKeeps ==
    ASSUME PictureA, Same, Brand = "raymarine", kind # "HALO", UNCHANGED <<known, legend, lut, mode>>,
           state' \in 0 .. 3, state' # 0 => "model" \in known
    PROVE  PictureA'
  <1>1. Brand' = "raymarine" /\ kind' # "HALO"
    BY SameRadar DEF Same
  <1> QED
    BY <1>1, Zenon DEF PictureA

\* The status is taken, or comes again.
StatusTaken(report) ==
    /\ set_value({"A"}, report.value) /\ UNCHANGED <<known, legend, lut, mode, owed>>
    /\ UNCHANGED state \/ (state' = 3 /\ "model" \in known)

\* A status is taken only when the model is known; a Doppler report always.
LEMMA RaymarineStatus ==
    ASSUME PictureA, NEW report,
           \/ process_doppler_report(report)
           \/ QuantumStatus(report)
           \/ RDStatus(report)
    PROVE  StatusTaken(report) \/ Skip(report)
  <1>1. CASE process_doppler_report(report)
    BY <1>1, Zenon DEF process_doppler_report, StatusTaken, picture
  <1>2. CASE QuantumStatus(report)
    BY <1>2, Zenon DEF QuantumStatus, StatusTaken
  <1>3. CASE RDStatus(report)
    <2>1. state >= 2 => state # 0
      OBVIOUS
    <2> QED
      BY <1>3, <2>1, Zenon DEF RDStatus, StatusTaken, PictureA
  <1> QED
    BY <1>1, <1>2, <1>3

\* process_report of Raymarine.
LEMMA RaymarineReportKeeps ==
    ASSUME IInv, RaymarineReport
    PROVE  IInv'
  <1>0. PICK report \in {reports[i] : i \in DOMAIN reports} :
            /\ Brand = "raymarine" /\ Received(report)
            /\ reports' = Tail(reports)
            /\ CASE report.item = "info" -> IF kind = "Quantum" THEN QuantumInfo ELSE RDInfo
                 [] report.item = "features" -> \E doppler \in BOOLEAN : process_features(doppler)
                 [] report.item = "fixed" -> process_fixed_report
                 [] report.item = "A" /\ ctl = "Doppler" -> process_doppler_report(report)
                 [] report.item = "A" /\ ctl # "Doppler" ->
                        IF kind = "Quantum" THEN QuantumStatus(report) ELSE RDStatus(report)
            /\ UNCHANGED <<session, untold>>
    BY Zenon DEF RaymarineReport
  <1>1. /\ Subject /\ Talking /\ Picture /\ control \in [Ranges -> Values \cup {Unset}] /\ owed \subseteq Items
    BY DEF IInv, Talking
  <1>2. /\ Same /\ report.item \in Items /\ (report.item \in Ranges => report.value \in Values)
        /\ registry = Mine
    BY <1>0, ReportRead
  <1>3. /\ Reported = {"A"} /\ Mine = {"A"} /\ Items \subseteq {"info", "features", "fixed", "A"}
        /\ kind # "HALO" /\ ctl \in RaymarineControls
    BY <1>0, <1>1, RaymarineRadar
  <1>4. Brand # "furuno"
    BY <1>0
  <1>5. PictureA /\ (PictureA' => Picture')
    BY <1>0, <1>1, <1>2, OneRangePicture, Zenon
  <1>6. CASE report.item = "info"
    <2>1. QuantumInfo \/ RDInfo
      BY <1>0, <1>6
    <2>2. UNCHANGED <<mode, control, owed>>
      BY <2>1, Zenon DEF QuantumInfo, RDInfo
    <2>3. PictureA'
      <3>1. CASE UNCHANGED <<known, state, legend, lut>>
        <4>1. state' \in 0 .. 3 /\ (state' # 0 => "model" \in known)
          BY <1>5, <3>1, Zenon DEF PictureA
        <4> QED
          BY <1>0, <1>2, <1>3, <1>5, <2>2, <3>1, <4>1, StateKeeps, Zenon
      <3>2. CASE QuantumInfo /\ "model" \notin known
        <4>1. /\ 128 \in Nat /\ 128 > 0 /\ {"model", "sender"} \in SUBSET Knowledge /\ "model" \in {"model", "sender"}
          BY DEF Knowledge
        <4>2. LET new == set_doppler(set_pixel_values(legend["A"], 128), TRUE)
              IN  /\ known' = known \cup {"model", "sender"}
                  /\ state' = 1
                  /\ legend' = [legend EXCEPT !["A"] = new]
                  /\ lut' = [lut EXCEPT !["A"] = Table(new, FALSE)]
          BY <3>2, Zenon DEF QuantumInfo
        <4> QED
          BY <1>0, <1>2, <1>3, <1>5, <2>2, <4>1, <4>2, InfoKeeps, Zenon
      <3>3. CASE RDInfo /\ "model" \notin known
        <4>1. /\ 16 \in Nat /\ 16 > 0 /\ {"model"} \in SUBSET Knowledge /\ "model" \in {"model"}
          BY DEF Knowledge
        <4>2. LET new == set_doppler(set_pixel_values(legend["A"], 16), FALSE)
              IN  /\ known' = known \cup {"model"}
                  /\ state' = 1
                  /\ legend' = [legend EXCEPT !["A"] = new]
                  /\ lut' = [lut EXCEPT !["A"] = Table(new, FALSE)]
          BY <3>3, Zenon DEF RDInfo
        <4> QED
          BY <1>0, <1>2, <1>3, <1>5, <2>2, <4>1, <4>2, InfoKeeps, Zenon
      <3> QED
        BY <2>1, <3>1, <3>2, <3>3, Zenon DEF QuantumInfo, RDInfo
    <2>4. \A r \in Reported : report.item # r
      BY <1>3, <1>6
    <2> QED
      BY <1>0, <1>1, <1>4, <1>5, <2>2, <2>3, <2>4, ReportKeeps, Zenon
  <1>7. CASE report.item = "features"
    <2>1. PICK doppler \in BOOLEAN : process_features(doppler)
      BY <1>0, <1>7
    <2>2. PictureA' /\ UNCHANGED <<control, owed>>
      BY <1>0, <1>2, <1>3, <1>5, <2>1, RaymarineFeaturesKeep, Zenon DEF process_features
    <2>3. \A r \in Reported : report.item # r
      BY <1>3, <1>7
    <2> QED
      BY <1>0, <1>1, <1>4, <1>5, <2>2, <2>3, ReportKeeps, Zenon
  <1>8. CASE report.item = "fixed"
    <2>1. process_fixed_report
      BY <1>0, <1>8
    <2>2. state' \in 0 .. 3 /\ (state' # 0 => state # 0)
      BY <1>5, <2>1, SMTT(30) DEF process_fixed_report, PictureA
    <2>3. state' # 0 => "model" \in known
      BY <1>5, <2>2, Zenon DEF PictureA
    <2>4. PictureA' /\ UNCHANGED <<control, owed>>
      BY <1>0, <1>2, <1>3, <1>5, <2>1, <2>2, <2>3, StateKeeps, Zenon DEF process_fixed_report
    <2>5. \A r \in Reported : report.item # r
      BY <1>3, <1>8
    <2> QED
      BY <1>0, <1>1, <1>4, <1>5, <2>4, <2>5, ReportKeeps, Zenon
  <1>9. CASE report.item = "A"
    <2>1. process_doppler_report(report) \/ QuantumStatus(report) \/ RDStatus(report)
      BY <1>0, <1>9, Zenon
    <2>2. \A r \in Reported : report.item = r
      BY <1>3, <1>9, Zenon
    <2>3. CASE StatusTaken(report)
      <3>1. report.value \in Values
        BY <1>2, <1>9, Zenon DEF Ranges
      <3>2. HasControl("A")
        BY <1>0, <1>2, <1>3 DEF HasControl
      <3>3. /\ control' \in [Ranges -> Values \cup {Unset}]
            /\ \A r \in Reported : control'[r] = report.value
        BY <1>1, <1>3, <2>3, <3>1, <3>2, ValueOfA, Zenon DEF StatusTaken
      <3>4. 3 \in 0 .. 3
        OBVIOUS
      <3>5. state' \in 0 .. 3 /\ (state' # 0 => "model" \in known)
        BY <1>5, <2>3, <3>4, Zenon DEF StatusTaken, PictureA
      <3>6. PictureA'
        BY <1>0, <1>2, <1>3, <1>5, <2>3, <3>5, StateKeeps, Zenon DEF StatusTaken
      <3>7. UNCHANGED owed
        BY <2>3 DEF StatusTaken
      <3> QED
        BY <1>0, <1>1, <1>4, <1>5, <2>2, <3>3, <3>6, <3>7, ReportKeeps, Zenon
    <2>4. CASE Skip(report)
      <3>1. owed' = owed \cup {"A"} /\ UNCHANGED <<known, state, legend, lut, mode, control>>
        BY <1>9, <2>4, Zenon DEF Skip, picture
      <3>2. Picture'
        BY <1>1, <1>2, <3>1, PictureStays, Zenon
      <3>3. owed \subseteq owed' /\ owed' \subseteq Items /\ \A r \in Reported : r \in owed'
        BY <1>1, <1>2, <1>3, <1>9, <3>1, Zenon
      <3> QED
        BY <1>0, <1>1, <1>4, <2>2, <3>1, <3>2, <3>3, ReportKeeps, Zenon
    <2> QED
      BY <1>5, <2>1, <2>3, <2>4, RaymarineStatus, Zenon
  <1> QED
    BY <1>2, <1>3, <1>6, <1>7, <1>8, <1>9, Zenon

\* Every range a Garmin reports has the control.
LEMMA GarminRadar ==
    ASSUME Subject, Brand = "garmin", registry = Mine
    PROVE  /\ kind \in {"Fantom", "HD"}
           /\ Items = Reported /\ Reported \subseteq Ranges
           /\ kind = "HD" => Reported = {"A"}
           /\ \A r \in Reported : HasControl(r)
  <1>1. kind \in {"Fantom", "HD"}
    BY Radars
  <1>2. Items = Reported
    BY <1>1 DEF Items, Broadcast
  <1>3. Reported \subseteq Ranges /\ (kind = "HD" => Reported = {"A"}) /\ Reported \subseteq Mine
    BY <1>1 DEF Reported, Mine, Ranges
  <1>4. ctl \in {"Gain", "Power", "Doppler", "ScanSpeed"}
    BY <1>1 DEF Subject, CtlsOfKind
  <1>5. \A r \in Reported : ctl \in GarminControls(r)
    BY <1>4 DEF GarminControls, Reported, Shared
  <1>6. \A r \in Reported : HasControl(r)
    BY <1>3, <1>5 DEF HasControl
  <1> QED
    BY <1>1, <1>2, <1>3, <1>6

\* The tables of a Garmin, each made from a legend that never changes.
LEMMA GarminPicture ==
    ASSUME Subject, Picture, Same, Brand = "garmin", UNCHANGED <<known, state, legend>>,
           lut' \in [Ranges -> LookupTables], mode' \in [Ranges -> Values],
           \A r \in Ranges : lut'[r] = lut[r] \/ lut'[r].params = legend[r],
           \A r \in Ranges : ~(kind = "Fantom" /\ r = "B") =>
                  \/ lut'[r] = lut[r] /\ mode'[r] = mode[r]
                  \/ (lut'[r].on <=> mode'[r] # 0)
    PROVE  Picture'
  <1>1. Brand' = Brand /\ kind' = kind /\ kind # "NXT" /\ Brand # "furuno" /\ Brand # "raymarine" /\ kind # "HALO"
    BY SameRadar, Radars DEF Same
  <1> QED
    BY <1>1, Zenon DEF Picture

\* process_report of Garmin.
LEMMA GarminReportKeeps ==
    ASSUME IInv, GarminReport
    PROVE  IInv'
  <1>0. PICK report \in {reports[i] : i \in DOMAIN reports} :
            /\ Brand = "garmin" /\ Received(report)
            /\ reports' = Tail(reports)
            /\ CASE kind = "HD" -> process_hd_status(report)
                 [] kind = "Fantom" /\ report.item = "B" -> with_range_b(report)
                 [] kind = "Fantom" /\ report.item = "A" /\ ctl = "Doppler" -> process_scan_mode(report)
                 [] kind = "Fantom" /\ report.item = "A" /\ ctl # "Doppler" -> process_gain_level(report)
            /\ UNCHANGED <<session, known, state, legend, owed, untold>>
    BY Zenon DEF GarminReport
  <1>1. /\ Subject /\ Talking /\ Picture /\ owed \subseteq Items
    BY DEF IInv, Talking
  <1>2. /\ Same /\ report.item \in Items /\ (report.item \in Ranges => report.value \in Values)
        /\ registry = Mine
    BY <1>0, ReportRead
  <1>3. /\ kind \in {"Fantom", "HD"}
        /\ Items = Reported /\ Reported \subseteq Ranges
        /\ kind = "HD" => Reported = {"A"}
        /\ \A r \in Reported : HasControl(r)
    BY <1>0, <1>1, <1>2, GarminRadar
  <1>4. /\ Brand # "furuno" /\ report.item \in Reported /\ report.value \in Values
        /\ UNCHANGED <<session, untold>> /\ UNCHANGED <<known, state, legend, owed>>
    BY <1>0, <1>2, <1>3, Zenon
  <1>5. /\ legend \in [Ranges -> Legends] /\ lut \in [Ranges -> LookupTables] /\ mode \in [Ranges -> Values]
        /\ "A" \in Ranges /\ "B" \in Ranges
    BY <1>1, Zenon DEF Picture, Ranges
  <1>6. set_value({report.item}, report.value) /\ Picture'
    <2>1. CASE kind = "HD"
      <3>1. process_hd_status(report) /\ report.item = "A"
        BY <1>0, <1>3, <1>4, <2>1
      <3>2. set_value({report.item}, report.value) /\ UNCHANGED <<lut, mode>>
        BY <3>1, Zenon DEF process_hd_status
      <3> QED
        BY <1>0, <1>1, <1>2, <1>4, <1>5, <3>2, GarminPicture, Zenon
    <2>2. CASE kind = "Fantom" /\ report.item = "B"
      <3>1. with_range_b(report)
        BY <1>0, <2>2
      <3>2. set_value({report.item}, report.value) /\ UNCHANGED lut
        BY <2>2, <3>1, Zenon DEF with_range_b
      <3>3. mode' \in [Ranges -> Values] /\ mode'["A"] = mode["A"]
        BY <1>4, <1>5, <3>1, Zenon DEF with_range_b
      <3>4. \A r \in Ranges : r = "A" \/ r = "B"
        BY DEF Ranges
      <3>5. Picture'
        BY <1>0, <1>1, <1>2, <1>4, <1>5, <2>2, <3>2, <3>3, <3>4, GarminPicture, Zenon
      <3> QED
        BY <3>2, <3>5
    <2>3. CASE kind = "Fantom" /\ report.item = "A" /\ ctl = "Doppler"
      <3> DEFINE t == Table(legend["A"], report.value # 0)
      <3>1. process_scan_mode(report)
        BY <1>0, <2>3
      <3>2. set_value({report.item}, report.value)
        BY <2>3, <3>1, Zenon DEF process_scan_mode
      <3>3. /\ mode' = [mode EXCEPT !["A"] = report.value]
            /\ lut' = IF mode["A"] = report.value THEN lut ELSE [lut EXCEPT !["A"] = t]
        BY <3>1, Zenon DEF process_scan_mode
      <3>4. legend["A"] \in Legends /\ (report.value # 0) \in BOOLEAN
        BY <1>5, Zenon
      <3>5. t \in LookupTables /\ t.params = legend["A"] /\ (t.on <=> report.value # 0)
        BY <3>4, Tables, Zenon
      <3> HIDE DEF t
      <3>6. /\ mode' \in [Ranges -> Values] /\ mode'["A"] = report.value
            /\ \A r \in Ranges : r # "A" => mode'[r] = mode[r]
        BY <1>4, <1>5, <3>3, Zenon
      <3>7. CASE mode["A"] = report.value
        <4>1. UNCHANGED lut /\ \A r \in Ranges : mode'[r] = mode[r]
          BY <3>3, <3>6, <3>7, Zenon
        <4> QED
          BY <1>0, <1>1, <1>2, <1>4, <1>5, <3>2, <3>6, <4>1, GarminPicture, Zenon
      <3>8. CASE mode["A"] # report.value
        <4>1. /\ lut' \in [Ranges -> LookupTables] /\ lut'["A"] = t
              /\ \A r \in Ranges : r # "A" => lut'[r] = lut[r]
          BY <1>5, <3>3, <3>5, <3>8, Zenon
        <4>2. /\ \A r \in Ranges : lut'[r] = lut[r] \/ lut'[r].params = legend[r]
              /\ \A r \in Ranges : \/ lut'[r] = lut[r] /\ mode'[r] = mode[r]
                                   \/ (lut'[r].on <=> mode'[r] # 0)
          BY <3>5, <3>6, <4>1, Zenon
        <4>3. Picture'
          BY <1>0, <1>1, <1>2, <1>4, <3>6, <4>1, <4>2, GarminPicture, Zenon
        <4> QED
          BY <3>2, <4>3
      <3> QED
        BY <3>7, <3>8
    <2>4. CASE kind = "Fantom" /\ report.item = "A" /\ ctl # "Doppler"
      <3>1. process_gain_level(report)
        BY <1>0, <2>4
      <3>2. set_value({report.item}, report.value) /\ UNCHANGED <<lut, mode>>
        BY <2>4, <3>1, Zenon DEF process_gain_level
      <3> QED
        BY <1>0, <1>1, <1>2, <1>4, <1>5, <3>2, GarminPicture, Zenon
    <2> QED
      BY <1>3, <1>4, <2>1, <2>2, <2>3, <2>4, Zenon DEF Ranges
  <1>7. /\ control' \in [Ranges -> Values \cup {Unset}]
        /\ \A r \in Ranges : control'[r] = IF r \in {report.item} /\ HasControl(r) THEN report.value ELSE control[r]
    BY <1>1, <1>4, <1>6, SetValue, Zenon
  <1>8. \A r \in Reported :
              /\ report.item = r => control'[r] = report.value
              /\ report.item # r => control'[r] = control[r]
    BY <1>3, <1>7, Zenon
  <1> QED
    BY <1>0, <1>1, <1>4, <1>6, <1>7, <1>8, ReportKeeps, Zenon

\* Doppler comes with the model, and both ranges of an NXT have the power.
LEMMA FurunoRadar ==
    ASSUME Subject, Brand = "furuno", registry = Mine
    PROVE  /\ Items = {"model"} \cup Reported /\ Reported \subseteq Ranges
           /\ "A" \in Ranges /\ "B" \in Ranges
           /\ \A r : HasControl(r) /\ ctl = "Doppler" => "model" \in known
           /\ kind = "NXT" /\ ctl = "Power" => Reported = {"A"} /\ HasControl("A") /\ HasControl("B")
  <1>1. Items = {"model"} \cup Reported /\ Reported \subseteq Ranges /\ "A" \in Ranges /\ "B" \in Ranges
    BY DEF Items, Reported, Mine, Ranges
  <1>2. \A r : HasControl(r) <=>
            r \in registry /\ ctl \in FurunoControls \cup (IF "model" \in known THEN FurunoModelControls ELSE {})
    BY DEF HasControl
  <1>3. \A r : HasControl(r) /\ ctl = "Doppler" => "model" \in known
    BY <1>2 DEF FurunoControls
  <1>4. kind = "NXT" /\ ctl = "Power" => "A" \in registry /\ "B" \in registry /\ ctl \in FurunoControls
    BY DEF Mine, Ranges, FurunoControls
  <1>5. kind = "NXT" /\ ctl = "Power" => Reported = {"A"}
    BY DEF Reported, Shared
  <1> QED
    BY <1>1, <1>2, <1>3, <1>4, <1>5, Zenon

PictureF ==
    /\ known \subseteq Knowledge /\ state = 0
    /\ legend \in [Ranges -> Legends] /\ lut \in [Ranges -> LookupTables]
    /\ mode \in [Ranges -> Values]
    /\ \A r \in Ranges :
          /\ \/ lut[r].params = legend[r]
             \/ kind = "NXT" /\ mode[r] = 0 /\ ~lut[r].on /\ lut[r].params = NewLegend
          /\ lut[r].on <=> mode[r] # 0
          /\ "model" \notin known => legend[r] = NewLegend /\ mode[r] = 0

\* For Furuno the picture is that of both ranges.
LEMMA FurunoPicture ==
    ASSUME Subject, Same, Brand = "furuno"
    PROVE  (Picture => PictureF) /\ (PictureF' => Picture')
  <1>1. kind \notin {"HALO", "Fantom"} /\ Brand \in {"furuno", "garmin"} /\ Brand # "raymarine"
    BY Radars
  <1>2. kind' = kind /\ Brand' = Brand /\ NewLegend' = NewLegend
    BY SameRadar DEF Same
  <1>3. 0 \in 0 .. 3
    OBVIOUS
  <1>4. Picture => PictureF
    BY <1>1, Zenon DEF Picture, PictureF
  <1>5. PictureF' => Picture'
    BY <1>1, <1>2, <1>3, Zenon DEF Picture, PictureF
  <1> QED
    BY <1>4, <1>5

\* parse_modules: the tables are of the legend before the target analyzer.
LEMMA ModulesKeep ==
    ASSUME Subject, PictureF, Same, Brand = "furuno", FurunoModules
    PROVE  PictureF'
  <1>1. /\ UNCHANGED <<state, mode>> /\ known' = known \cup {"model"}
        /\ kind' = kind /\ NewLegend' = NewLegend
    BY SameRadar, Zenon DEF FurunoModules, Same
  <1>2. CASE "model" \in known
    <2>1. UNCHANGED <<legend, lut, known>>
      BY <1>1, <1>2, Zenon DEF FurunoModules
    <2> QED
      BY <1>1, <2>1, Zenon DEF PictureF
  <1>3. CASE "model" \notin known
    <2> DEFINE T(r) == Table(legend[r], mode[r] # 0)
               L(r) == IF kind = "NXT"
                       THEN set_doppler_levels(set_has_rain_class(legend[r], TRUE), 16)
                       ELSE legend[r]
    <2>1. lut' = [r \in Ranges |-> T(r)] /\ legend' = [r \in Ranges |-> L(r)]
      BY <1>3, Zenon DEF FurunoModules
    <2>2. known' \subseteq Knowledge /\ "model" \in known'
      BY <1>1 DEF PictureF, Knowledge
    <2>3. ASSUME NEW r \in Ranges
          PROVE  /\ T(r) \in LookupTables /\ T(r).params = legend[r] /\ (T(r).on <=> mode[r] # 0)
                 /\ L(r) \in Legends /\ (kind # "NXT" => L(r) = legend[r])
      <3>1. legend[r] \in Legends /\ (mode[r] # 0) \in BOOLEAN
        BY <2>3, Zenon DEF PictureF
      <3>2. T(r) \in LookupTables /\ T(r).params = legend[r] /\ (T(r).on <=> mode[r] # 0)
        BY <3>1, Tables, Zenon
      <3>3. set_has_rain_class(legend[r], TRUE) \in Legends
        BY <3>1, Setters, Zenon
      <3>4. set_doppler_levels(set_has_rain_class(legend[r], TRUE), 16) \in Legends
        BY <3>3, Setters, Zenon
      <3> QED
        BY <3>1, <3>2, <3>4, Zenon
    <2> HIDE DEF T, L
    <2>4. /\ lut' \in [Ranges -> LookupTables] /\ legend' \in [Ranges -> Legends]
          /\ \A r \in Ranges : lut'[r] = T(r) /\ legend'[r] = L(r)
      BY <2>1, <2>3, Zenon
    <2>5. ASSUME NEW r \in Ranges
          PROVE  /\ \/ lut'[r].params = legend'[r]
                    \/ kind = "NXT" /\ mode[r] = 0 /\ ~lut'[r].on /\ lut'[r].params = NewLegend
                 /\ lut'[r].on <=> mode[r] # 0
      BY <1>3, <2>3, <2>4, <2>5, Zenon DEF PictureF
    <2> QED
      BY <1>1, <2>2, <2>4, <2>5, Zenon DEF PictureF
  <1> QED
    BY <1>2, <1>3

\* A new Doppler mode makes the table of its range again.
LEMMA TargetAnalyzerKeeps ==
    ASSUME PictureF, Same, Brand = "furuno", NEW report,
           report.item \in Ranges, report.value \in Values, FurunoTargetAnalyzer(report),
           HasControl(report.item) => "model" \in known
    PROVE  PictureF'
  <1>1. /\ UNCHANGED <<known, state, legend>> /\ kind' = kind /\ NewLegend' = NewLegend
    BY SameRadar, Zenon DEF FurunoTargetAnalyzer, Same
  <1>2. CASE UNCHANGED <<mode, lut>>
    BY <1>1, <1>2, Zenon DEF PictureF
  <1>3. CASE HasControl(report.item) /\ ~UNCHANGED <<mode, lut>>
    <2> DEFINE x == report.item
               t == Table(legend[x], report.value # 0)
    <2>1. /\ mode' = [mode EXCEPT ![x] = report.value]
          /\ lut' = [lut EXCEPT ![x] = t]
      BY <1>3, Zenon DEF FurunoTargetAnalyzer
    <2>2. legend[x] \in Legends /\ (report.value # 0) \in BOOLEAN
      BY Zenon DEF PictureF
    <2>3. t \in LookupTables /\ t.params = legend[x] /\ (t.on <=> report.value # 0)
      BY <2>2, Tables, Zenon
    <2>4. x \in Ranges
      OBVIOUS
    <2> HIDE DEF t, x
    <2>5. /\ mode' \in [Ranges -> Values] /\ mode'[x] = report.value
          /\ \A r \in Ranges : r # x => mode'[r] = mode[r]
      BY <2>1, <2>4, Zenon DEF PictureF
    <2>6. /\ lut' \in [Ranges -> LookupTables] /\ lut'[x] = t
          /\ \A r \in Ranges : r # x => lut'[r] = lut[r]
      BY <2>1, <2>3, <2>4, Zenon DEF PictureF
    <2>7. ASSUME NEW r \in Ranges
          PROVE  /\ \/ lut'[r].params = legend[r]
                    \/ kind = "NXT" /\ mode'[r] = 0 /\ ~lut'[r].on /\ lut'[r].params = NewLegend
                 /\ lut'[r].on <=> mode'[r] # 0
      <3>1. CASE r = x
        BY <2>3, <2>5, <2>6, <3>1, Zenon
      <3>2. CASE r # x
        <4>1. lut'[r] = lut[r] /\ mode'[r] = mode[r]
          BY <2>5, <2>6, <2>7, <3>2, Zenon
        <4>2. /\ \/ lut[r].params = legend[r]
                 \/ kind = "NXT" /\ mode[r] = 0 /\ ~lut[r].on /\ lut[r].params = NewLegend
              /\ lut[r].on <=> mode[r] # 0
          BY <2>7, Zenon DEF PictureF
        <4> QED
          BY <4>1, <4>2, Zenon
      <3> QED
        BY <3>1, <3>2, SMTT(30)
    <2> QED
      BY <1>1, <1>3, <2>5, <2>6, <2>7, Zenon DEF PictureF
  <1> QED
    BY <1>2, <1>3, Zenon DEF FurunoTargetAnalyzer

\* What a report changes, whatever the session does next.
LEMMA FurunoEffect ==
    ASSUME IInv, Brand = "furuno", NEW report, Received(report),
           CASE report.item = "model" -> FurunoModules
             [] report.item # "model" /\ ctl = "Doppler" -> FurunoTargetAnalyzer(report)
             [] OTHER -> FurunoControl(report)
    PROVE  /\ Picture' /\ known \subseteq known'
           /\ control' \in [Ranges -> Values \cup {Unset}]
           /\ \A r \in Reported :
                 /\ report.item = r /\ HasControl(r) => control'[r] = report.value
                 /\ report.item # r => control'[r] = control[r]
           /\ kind = "NXT" /\ ctl = "Power" /\ control["A"] = control["B"] => control'["A"] = control'["B"]
  <1>1. /\ Subject /\ Talking /\ Picture /\ control \in [Ranges -> Values \cup {Unset}]
    BY DEF IInv, Talking
  <1>2. /\ Same /\ report.item \in Items /\ (report.item \in Ranges => report.value \in Values)
        /\ registry = Mine
    BY ReportRead
  <1>3. /\ Items = {"model"} \cup Reported /\ Reported \subseteq Ranges
        /\ "A" \in Ranges /\ "B" \in Ranges
        /\ \A r : HasControl(r) /\ ctl = "Doppler" => "model" \in known
        /\ kind = "NXT" /\ ctl = "Power" => Reported = {"A"} /\ HasControl("A") /\ HasControl("B")
    BY <1>1, <1>2, FurunoRadar
  <1>4. PictureF /\ (PictureF' => Picture')
    BY <1>1, <1>2, FurunoPicture, Zenon
  <1>5. CASE report.item = "model"
    <2>1. FurunoModules
      BY <1>5
    <2>2. UNCHANGED control /\ known \subseteq known'
      BY <2>1, Zenon DEF FurunoModules
    <2>3. \A r \in Reported : report.item # r
      BY <1>3, <1>5 DEF Ranges
    <2>4. Picture'
      BY <1>1, <1>2, <1>4, <2>1, ModulesKeep, Zenon
    <2> QED
      BY <1>1, <2>2, <2>3, <2>4, Zenon
  <1>6. CASE report.item # "model" /\ ctl = "Doppler"
    <2>1. FurunoTargetAnalyzer(report)
      BY <1>6
    <2>2. report.item \in Ranges /\ report.value \in Values
      BY <1>2, <1>3, <1>6, Zenon
    <2>3. Picture'
      BY <1>2, <1>3, <1>4, <1>6, <2>1, <2>2, TargetAnalyzerKeeps, Zenon
    <2>4. set_value({report.item}, report.value) /\ UNCHANGED known
      BY <2>1, Zenon DEF FurunoTargetAnalyzer
    <2>5. /\ control' \in [Ranges -> Values \cup {Unset}]
          /\ \A r \in Ranges : control'[r] = IF r \in {report.item} /\ HasControl(r) THEN report.value ELSE control[r]
      BY <1>1, <2>2, <2>4, SetValue, Zenon
    <2>6. ctl # "Power"
      BY <1>6
    <2> QED
      BY <1>3, <2>3, <2>4, <2>5, <2>6, Zenon
  <1>7. CASE report.item # "model" /\ ctl # "Doppler"
    <2>1. FurunoControl(report)
      BY <1>7
    <2>2. report.item \in Ranges /\ report.value \in Values /\ report.item \in Reported
      BY <1>2, <1>3, <1>7, Zenon
    <2>3. set_value(Targets(report.item), report.value) /\ UNCHANGED <<known, state, legend, lut, mode>>
      BY <2>1, Zenon DEF FurunoControl, picture
    <2>4. /\ control' \in [Ranges -> Values \cup {Unset}]
          /\ \A r \in Ranges : control'[r] =
                IF r \in Targets(report.item) /\ HasControl(r) THEN report.value ELSE control[r]
      BY <1>1, <2>2, <2>3, SetValue, Zenon
    <2>5. Picture'
      <3>1. kind # "HALO"
        BY <1>1, Radars
      <3> QED
        BY <1>1, <1>2, <2>3, <3>1, PictureStays, Zenon
    <2>6. CASE kind = "NXT" /\ ctl = "Power"
      <3>1. Targets(report.item) = Ranges /\ report.item = "A" /\ Reported = {"A"}
        BY <1>3, <2>2, <2>6, Zenon DEF Targets
      <3>2. control'["A"] = report.value /\ control'["B"] = report.value
        BY <1>3, <2>4, <2>6, <3>1, Zenon
      <3> QED
        BY <2>3, <2>4, <2>5, <3>1, <3>2, Zenon
    <2>7. CASE ~(kind = "NXT" /\ ctl = "Power")
      <3>1. Targets(report.item) = {report.item}
        BY <2>7, Zenon DEF Targets
      <3> QED
        BY <1>3, <2>3, <2>4, <2>5, <2>7, <3>1, Zenon
    <2> QED
      BY <2>6, <2>7
  <1> QED
    BY <1>5, <1>6, <1>7

\* A report that is read, whether or not it is applied.
LEMMA SentRead ==
    ASSUME NEW r, reports \in Seq(Messages), reports # <<>>, reports' = Tail(reports),
           r \in owed => r \in owed', device'[r] = device[r]
    PROVE  Sent(r) => Sent(r)'
  BY ReadSays, Zenon DEF Sent

\* process_report of Furuno, with the requests that follow the first report.
LEMMA FurunoReportKeeps ==
    ASSUME IInv, FurunoReport
    PROVE  IInv'
  <1>0. PICK report \in {reports[i] : i \in DOMAIN reports} :
            /\ Brand = "furuno" /\ Received(report)
            /\ CASE report.item = "model" -> FurunoModules
                 [] report.item # "model" /\ ctl = "Doppler" -> FurunoTargetAnalyzer(report)
                 [] OTHER -> FurunoControl(report)
            /\ IF ~first_report_received /\ ~conn
               THEN /\ phase' = "sleep" /\ owed' = {} /\ reports' = <<>> /\ untold' = TRUE
                    /\ UNCHANGED <<conn, first_report_received, asked>>
               ELSE /\ reports' = Tail(reports)
                    /\ untold' = IF report.item = "B" /\ conn THEN ~HasControl("B") ELSE untold
                    /\ first_report_received' = TRUE
                    /\ IF first_report_received THEN UNCHANGED <<owed, asked>> ELSE AskNow
                    /\ UNCHANGED <<phase, conn>>
    BY Zenon DEF FurunoReport
  <1>1. /\ Subject /\ Flags /\ Life /\ Waiting /\ Talking /\ Connected
        /\ reports \in Seq(Messages) /\ owed \subseteq Items
    BY DEF IInv, Talking
  <1>2. /\ Same /\ phase = "loop" /\ reports # <<>> /\ report = Head(reports)
        /\ UNCHANGED <<net, shutdown, registry, started, queue, dual_range_id, device, gone>>
        /\ Tail(reports) \in Seq(Messages)
    BY <1>0, ReportRead
  <1>3. /\ Brand' = Brand /\ Reported' = Reported /\ Shared' = Shared /\ Items' = Items
        /\ Messages' = Messages /\ Mine' = Mine /\ Subject'
    BY <1>1, <1>2, SameRadar
  <1>4. /\ Picture' /\ known \subseteq known'
        /\ control' \in [Ranges -> Values \cup {Unset}]
        /\ \A r \in Reported :
                 /\ report.item = r /\ HasControl(r) => control'[r] = report.value
                 /\ report.item # r => control'[r] = control[r]
        /\ kind = "NXT" /\ ctl = "Power" /\ control["A"] = control["B"] => control'["A"] = control'["B"]
    BY <1>0, FurunoEffect, Zenon
  <1>5. Waiting' /\ Broadcasting'
    BY <1>0, <1>1, <1>2, <1>3, WaitingStays, Zenon DEF Broadcasting
  <1>6. CASE ~first_report_received /\ ~conn
    <2>1. /\ phase' = "sleep" /\ owed' = {} /\ reports' = <<>> /\ untold' = TRUE
          /\ UNCHANGED <<conn, first_report_received, asked>>
      BY <1>0, <1>6, Zenon
    <2>2. <<>> \in Seq(Messages)
      OBVIOUS
    <2>3. Talking'
      BY <1>1, <1>2, <1>3, <1>4, <2>1, <2>2, Zenon DEF Talking
    <2>4. Flags' /\ Life'
      BY <1>0, <1>1, <1>2, <1>3, <2>1, Zenon DEF Flags, Life, Phases
    <2>5. Connected'
      BY <1>0, <1>1, <1>2, <1>3, <1>4, <1>6, <2>1, Zenon DEF Connected, Same
    <2> QED
      BY <1>3, <1>4, <1>5, <2>3, <2>4, <2>5 DEF IInv
  <1>7. CASE first_report_received \/ conn
    <2>1. /\ reports' = Tail(reports)
          /\ untold' = IF report.item = "B" /\ conn THEN ~HasControl("B") ELSE untold
          /\ first_report_received' = TRUE
          /\ IF first_report_received THEN UNCHANGED <<owed, asked>> ELSE AskNow
          /\ UNCHANGED <<phase, conn>>
      BY <1>0, <1>7, Zenon
    <2>2. /\ owed' \subseteq Items /\ owed \subseteq owed' /\ asked' \in BOOLEAN
          /\ asked' => asked \/ (HasControl("A")' /\ Fresh("A")')
          /\ owed' # {} => owed # {} \/ conn
      <3>1. CASE first_report_received
        BY <1>1, <2>1, <3>1, Zenon DEF Flags
      <3>2. CASE ~first_report_received
        BY <1>0, <1>1, <1>7, <2>1, <3>2, AskNowKeeps, Zenon DEF Flags
      <3> QED
        BY <3>1, <3>2
    <2>3. Talking'
      BY <1>1, <1>2, <1>3, <1>4, <2>1, <2>2, Zenon DEF Talking
    <2>4. untold' \in BOOLEAN
      <3>1. HasControl("B") \in BOOLEAN
        BY DEF HasControl
      <3> QED
        BY <1>1, <2>1, <3>1, Zenon DEF Flags
    <2>5. Flags' /\ Life'
      BY <1>0, <1>1, <1>2, <2>1, <2>2, <2>4, LifeStays, Zenon DEF Flags
    <2>6. \A r \in Reported : Sent(r) => Sent(r)'
      BY <1>1, <1>2, <2>1, <2>2, SentRead, Zenon
    <2>7. \A r \in Reported : HasControl(r) =>
              /\ Fresh(r) => Fresh(r)'
              /\ Sent(r) /\ report.item = r => Fresh(r)'
      <3>1. SUFFICES ASSUME NEW r \in Reported, HasControl(r)
                     PROVE  /\ Fresh(r) => Fresh(r)'
                            /\ Sent(r) /\ report.item = r => Fresh(r)'
        OBVIOUS
      <3>2. /\ report.item = r => control'[r] = report.value
            /\ report.item # r => control'[r] = control[r]
        BY <1>4, <3>1, Zenon
      <3> QED
        BY <1>1, <1>2, <2>1, <2>2, <3>2, FreshRead, Zenon
    <2>8. /\ HasControl("A") => HasControl("A")'
          /\ HasControl("B") => HasControl("B")'
      BY <1>0, <1>2, <1>4, ControlStays, Zenon
    <2>9. "A" \in Reported /\ (kind = "NXT" /\ ~Shared => "B" \in Reported)
      BY <1>1, RangesOfRadar
    <2>10. conn /\ asked' => HasControl("A")' /\ Fresh("A")'
      BY <1>0, <1>1, <2>2, <2>7, <2>8, <2>9, Zenon DEF Connected
    <2>11. kind = "NXT" /\ ~Shared /\ ~untold' => HasControl("B")' /\ Fresh("B")'
      <3>1. CASE report.item = "B" /\ conn
        BY <1>0, <1>1, <2>1, <2>7, <2>8, <2>9, <3>1, Zenon DEF Connected
      <3>2. CASE ~(report.item = "B" /\ conn)
        BY <1>0, <1>1, <2>1, <2>7, <2>8, <2>9, <3>2, Zenon DEF Connected
      <3> QED
        BY <3>1, <3>2
    <2>12. Connected'
      BY <1>0, <1>1, <1>2, <1>3, <1>4, <2>1, <2>2, <2>6, <2>10, <2>11, Zenon DEF Connected, Same
    <2> QED
      BY <1>3, <1>4, <1>5, <2>3, <2>5, <2>12 DEF IInv
  <1> QED
    BY <1>6, <1>7

-------------------------------------------------------------------------------
\* The invariant holds.

\* The legend a locator makes; that of a HALO has no Doppler yet.
LEMMA NewLegends ==
    ASSUME Subject
    PROVE  /\ NewLegend \in Legends
           /\ kind = "HALO" => NewLegend.levels = 0
  <1>1. \A n \in {0, 1, 4, 16}, p \in Nat :
            Params("Arpa", n, FALSE, p) \in Legends /\ Params("Arpa", n, FALSE, p).levels = n
    BY Zenon DEF Params, Legends
  <1>2. 0 \in Nat /\ 2 \in Nat /\ 16 \in Nat /\ 128 \in Nat /\ FURUNO_PIXEL_VALUES \in Nat
    BY DEF FURUNO_PIXEL_VALUES
  <1>3. GarminLegend \in Legends
    <2>1. Params("Arpa", 0, FALSE, 2) \in Legends /\ Params("Arpa", 1, FALSE, 128) \in Legends
      BY <1>1, <1>2, ZenonT(40)
    <2>2. set_doppler_levels(Params("Arpa", 1, FALSE, 128), 4) \in Legends
      BY <2>1, Setters, Zenon
    <2> QED
      BY <2>1, <2>2, Zenon DEF GarminLegend
  <1>4. Brand \in {"furuno", "navico", "garmin", "raymarine"} /\ (kind = "HALO" => Brand = "navico")
    BY Radars
  <1>5. CASE Brand = "furuno"
    <2>1. NewLegend = Params("Arpa", 1, FALSE, FURUNO_PIXEL_VALUES)
      BY <1>5, Zenon DEF NewLegend
    <2> QED
      BY <1>1, <1>2, <1>4, <1>5, <2>1, Zenon
  <1>6. CASE Brand = "navico"
    <2>1. NewLegend = Params("Arpa", 0, FALSE, 16)
      BY <1>6, Zenon DEF NewLegend
    <2> QED
      BY <1>1, <1>2, <2>1, Zenon
  <1>7. CASE Brand = "garmin"
    <2>1. NewLegend = GarminLegend
      BY <1>7, Zenon DEF NewLegend
    <2> QED
      BY <1>3, <1>4, <1>7, <2>1, Zenon
  <1>8. CASE Brand = "raymarine"
    <2>1. NewLegend = Params("Arpa", 0, FALSE, 0)
      BY <1>8, Zenon DEF NewLegend
    <2> QED
      BY <1>1, <1>2, <1>4, <1>8, <2>1, Zenon
  <1> QED
    BY <1>4, <1>5, <1>6, <1>7, <1>8

\* A radar nobody has heard of.
LEMMA InitIInv ==
    ASSUME Init
    PROVE  IInv
  <1>1. Subject
    BY Zenon DEF Init, Subject, CtlsOfKind
  <1>2. Flags
    BY Zenon DEF Init, Flags
  <1>3. /\ registry = {} /\ started = 0 /\ phase = "absent" /\ known = {} /\ state = 0
        /\ legend = [r \in Ranges |-> NewLegend]
        /\ lut = [r \in Ranges |-> Table(NewLegend, FALSE)]
        /\ mode = [r \in Ranges |-> 0]
        /\ queue = [r \in Ranges |-> <<>>] /\ dual_range_id = "A"
        /\ device = [r \in Ranges |-> 0] /\ control = [r \in Ranges |-> Unset]
        /\ owed = {} /\ reports = <<>> /\ untold /\ ~conn
    BY Zenon DEF Init
  <1>4. "A" \in Ranges /\ "B" \in Ranges /\ 0 \in Values
    BY DEF Ranges, Values
  <1>5. 0 # 1 /\ 0 \in 0 .. 3 /\ ~(0 > 0)
    OBVIOUS
  <1>6. Life
    BY <1>3, <1>4, <1>5, Zenon DEF Life, Phases
  <1>7. Waiting
    <2>1. <<>> \in Seq(Commands) /\ "A" \in Mine
      BY <1>1, RangesOfRadar
    <2> QED
      BY <1>3, <2>1, Zenon DEF Waiting
  <1>8. Talking
    <2>1. <<>> \in Seq(Messages)
      OBVIOUS
    <2> QED
      BY <1>3, <1>4, <2>1, Zenon DEF Talking
  <1>9. Picture
    <2> DEFINE t == Table(NewLegend, FALSE)
    <2>1. NewLegend \in Legends /\ (kind = "HALO" => NewLegend.levels = 0)
      BY <1>1, NewLegends
    <2>2. t \in LookupTables /\ t.params = NewLegend /\ ~t.on
      BY <2>1, Tables, Zenon
    <2> HIDE DEF t
    <2>3. lut = [r \in Ranges |-> t]
      BY <1>3, Zenon DEF t
    <2>4. /\ legend \in [Ranges -> Legends] /\ lut \in [Ranges -> LookupTables]
          /\ mode \in [Ranges -> Values]
          /\ \A r \in Ranges : legend[r] = NewLegend /\ lut[r] = t /\ mode[r] = 0
      BY <1>3, <1>4, <2>1, <2>2, <2>3, Zenon
    <2>5. kind = "HALO" => HaloSetup
      BY <1>3, <1>4, <1>5, <2>1, <2>4, Zenon DEF HaloSetup
    <2> QED
      BY <1>3, <1>5, <2>1, <2>2, <2>4, <2>5, Zenon DEF Picture
  <1>10. Broadcasting
    BY <1>3, Zenon DEF Broadcasting
  <1>11. Connected
    BY <1>3, <1>4, Zenon DEF Connected
  <1> QED
    BY <1>1, <1>2, <1>6, <1>7, <1>8, <1>9, <1>10, <1>11 DEF IInv

\* Every step keeps the invariant.
LEMMA NextKeeps ==
    ASSUME IInv, [Next]_vars
    PROVE  IInv'
  <1>1. CASE Discover
    BY <1>1, DiscoverRegisters, DiscoverKeeps
  <1>2. CASE Open
    BY <1>2, OpenKeeps
  <1>3. CASE Wake
    BY <1>3, WakeKeeps
  <1>4. CASE Stop
    BY <1>4, StopKeeps
  <1>5. CASE Fail
    BY <1>5, FailKeeps
  <1>6. CASE Timer
    BY <1>6, TimerKeeps
  <1>7. CASE ProcessReport
    BY <1>7, FurunoReportKeeps, NavicoReportKeeps, GarminReportKeeps, RaymarineReportKeeps DEF ProcessReport
  <1>8. CASE \E r \in Ranges, v \in Wanted : Request(r, v)
    BY <1>8, RequestKeeps
  <1>9. CASE \E r \in Ranges : GiveUp(r) \/ process_control_update(r) \/ DeviceChanges(r)
    BY <1>9, GiveUpKeeps, ControlUpdateKeeps, DeviceChangesKeeps
  <1>10. CASE \E item \in owed \cup Broadcast : DeviceReports(item)
    BY <1>10, DeviceReportsKeeps
  <1>11. CASE NetworkFails
    BY <1>11, NetworkFailsKeeps
  <1>12. CASE NetworkRecovers \/ ShutdownRequested \/ UNCHANGED vars
    BY <1>12, QuietKeeps
  <1> QED
    BY <1>1, <1>2, <1>3, <1>4, <1>5, <1>6, <1>7, <1>8, <1>9, <1>10, <1>11, <1>12, Zenon DEF Next

\* The inductive invariant holds in every state, whatever the radar, the order
\* of its reports and the connections that are lost.
THEOREM ReceiverInvariant == Spec => []IInv
  <1>1. Init => IInv
    BY InitIInv
  <1>2. IInv /\ [Next]_vars => IInv'
    BY NextKeeps
  <1> QED
    BY <1>1, <1>2, PTL DEF Spec

\* OneReceiver: a radar gets one receiver, has one while it is in the registry,
\* and the receiver ends only when asked to, with the two exceptions named
\* there: Furuno's error reply to a client that is gone, and Navico's first
\* socket, which fails before anything is known.
THEOREM OneReceiverForEach == Spec => []OneReceiver
  <1>1. ASSUME IInv
        PROVE  OneReceiver
    <2>1. /\ Subject /\ Flags /\ Life /\ Waiting /\ Talking /\ Picture
      BY <1>1 DEF IInv
    <2>2. TypeOK
      <3>1. ctl \in {"Gain", "Doppler", "ScanSpeed", "Power", "BearingAlignment", "AntennaForward"}
        BY <2>1, Zenon DEF Subject, CtlsOfKind
      <3>2. started \in 0 .. 2
        BY <2>1 DEF Life
      <3>3. \A r \in Ranges : legend[r].levels \in {0, 1, 4, 16} /\ lut[r].on \in BOOLEAN
        <4>1. \A r \in Ranges : legend[r] \in Legends /\ lut[r] \in LookupTables
          BY <2>1, Zenon DEF Picture
        <4> QED
          BY <4>1, Zenon DEF Legends, LookupTables
      <3>4. \A r \in Ranges : queue[r] \in Seq([value : Values, alive : BOOLEAN])
        BY <2>1, Zenon DEF Waiting, Commands
      <3>5. reports \in Seq(Reports)
        <4>1. Messages \subseteq Reports /\ reports \in Seq(Messages)
          BY <2>1, Zenon DEF Messages, Talking
        <4> QED
          BY <4>1
      <3> QED
        BY <2>1, <3>1, <3>2, <3>3, <3>4, <3>5, Zenon
           DEF TypeOK, Subject, Flags, Life, Waiting, Talking, Picture, Phases, Knowledge
    <2>3. started <= 1
      BY <2>1 DEF Life
    <2> QED
      BY <2>1, <2>2, <2>3, Zenon DEF OneReceiver, Life
  <1> QED
    BY <1>1, ReceiverInvariant, PTL

\* LutFollowsLegend: the table spokes are translated with is made from the
\* legend clients are given, for the Doppler mode the radar is in, and nothing
\* is shown with half a legend, whatever the order of the reports.
THEOREM TablesFollowLegends == Spec => []LutFollowsLegend
  <1>1. ASSUME IInv
        PROVE  LutFollowsLegend
    <2>1. Subject /\ Life /\ Picture
      BY <1>1 DEF IInv
    <2>2. registry \subseteq Ranges
      BY <2>1, RangesOfRadar, Zenon DEF Life
    <2>3. ASSUME NEW r \in registry
          PROVE  /\ \/ lut[r].params = legend[r]
                    \/ kind = "NXT" /\ mode[r] = 0 /\ ~lut[r].on /\ lut[r].params = NewLegend
                 /\ Brand \in {"furuno", "garmin"} /\ ~(kind = "Fantom" /\ r = "B")
                      => lut[r].on = (mode[r] # 0)
      <3>1. r \in Ranges /\ lut[r] \in LookupTables
        BY <2>1, <2>2, <2>3, Zenon DEF Picture
      <3>2. lut[r].on \in BOOLEAN
        BY <3>1, Zenon DEF LookupTables
      <3>3. (lut[r].on <=> mode[r] # 0) => lut[r].on = (mode[r] # 0)
        BY <3>2, Zenon
      <3> QED
        BY <2>1, <3>1, <3>3, Zenon DEF Picture
    <2>4. state = 3 => legend["A"].pixels > 0
      <3>1. state = 3 => state # 0
        OBVIOUS
      <3> QED
        BY <2>1, <3>1, Zenon DEF Picture
    <2>5. kind = "HALO" =>
              /\ ({"model", "capabilities"} \subseteq known) = (legend["A"].levels > 0)
              /\ "awaiting" \in known => "capabilities" \notin known
              /\ control["A"] # Unset => legend["A"].levels > 0
      BY <2>1, SMTT(30) DEF Picture, HaloSetup
    <2> QED
      BY <2>3, <2>4, <2>5, Zenon DEF LutFollowsLegend
  <1> QED
    BY <1>1, ReceiverInvariant, PTL

\* ControlsFollowDevice: with no report due or on its way, clients see the value
\* the radar has, whatever commands, changes at another station, lost
\* connections and skipped reports there were.
THEOREM ClientsSeeTheDevice == Spec => []ControlsFollowDevice
  <1>1. ASSUME IInv
        PROVE  ControlsFollowDevice
    <2>1. SUFFICES ASSUME phase = "loop", owed = {}, reports = <<>>,
                          Brand = "furuno" => conn /\ asked,
                          NEW r \in registry, HasControl(r)
                   PROVE  \/ control[r] = device[r]
                          \/ r = "B" /\ kind = "NXT" /\ (untold \/ ctl = "ScanSpeed") /\ ctl # "Power"
                          \/ r = "B" /\ kind = "Fantom" /\ ctl = "Power"
      BY Zenon DEF ControlsFollowDevice
    <2>2. Subject /\ Life /\ Broadcasting /\ Connected
      BY <1>1 DEF IInv
    <2>3. r \in Mine /\ (r = "A" \/ r = "B") /\ registry # {}
      <3>1. r \in Mine /\ registry # {}
        BY <2>1, <2>2, Zenon DEF Life
      <3> QED
        BY <2>2, <3>1, RangesOfRadar DEF Ranges
    <2>4. \A o : Fresh(o) => control[o] = device[o]
      BY <2>1, NothingSays, Zenon DEF Fresh
    <2>5. /\ r = "B" => kind \in {"NXT", "Fantom"}
          /\ ~Shared => Reported = Mine
          /\ "A" \in Reported
      BY <2>2, <2>3, RangesOfRadar
    <2>6. CASE Brand # "furuno"
      <3>1. CASE r \in Reported
        BY <2>2, <2>3, <2>4, <2>6, <3>1, Zenon DEF Broadcasting
      <3>2. CASE r \notin Reported
        <4>1. r = "B" /\ Shared
          BY <2>3, <2>5, <3>2, Zenon
        <4>2. kind = "Fantom" /\ Brand = "garmin"
          BY <2>2, <2>5, <2>6, <4>1, Radars
        <4>3. ctl \in GarminControls("B") /\ ctl \in {"ScanSpeed", "Power"}
          BY <2>1, <4>1, <4>2 DEF HasControl, Shared
        <4>4. ctl = "Power"
          BY <4>3 DEF GarminControls
        <4> QED
          BY <4>1, <4>2, <4>4
      <3> QED
        BY <3>1, <3>2
    <2>7. CASE Brand = "furuno"
      <3>1. control["A"] = device["A"]
        BY <2>1, <2>2, <2>4, <2>7, Zenon DEF Connected
      <3>2. CASE r = "A"
        BY <3>1, <3>2
      <3>3. CASE r = "B"
        <4>1. kind = "NXT"
          BY <2>2, <2>5, <2>7, <3>3, Radars
        <4>2. CASE ctl = "Power"
          BY <2>2, <2>7, <3>1, <3>3, <4>1, <4>2, Zenon DEF Connected
        <4>3. CASE ctl = "ScanSpeed"
          BY <3>3, <4>1, <4>3
        <4>4. CASE ~Shared
          BY <2>2, <2>4, <2>7, <3>3, <4>1, <4>4 DEF Connected, Shared
        <4> QED
          BY <4>2, <4>3, <4>4 DEF Shared
      <3> QED
        BY <2>3, <3>2, <3>3
    <2> QED
      BY <2>6, <2>7
  <1> QED
    BY <1>1, ReceiverInvariant, PTL

-------------------------------------------------------------------------------
\* Commands.

\* Only the receiver takes a request out of a channel.
LEMMA OnlyUpdatesTake ==
    ASSUME IInv, [Next]_vars, NEW r \in Ranges, Len(queue'[r]) < Len(queue[r])
    PROVE  process_control_update(r)
  <1>1. queue \in [Ranges -> Seq(Commands)]
    BY DEF IInv, Waiting
  <1>2. Len(queue[r]) \in Nat /\ queue'[r] # queue[r] /\ queue' # queue
    BY <1>1
  <1>3. ~Discover
    BY <1>2, DiscoverRegisters, Zenon DEF Registered
  <1>4. ~Open /\ ~Wake /\ ~Stop
    BY <1>2, Zenon DEF Open, FurunoOpen, NavicoOpen, GarminOpen, RaymarineOpen, Wake, Stop, Goto, commands
  <1>5. ~Fail /\ ~Timer
    BY <1>2, Zenon DEF Fail, Timer, commands
  <1>6. ~ProcessReport
    BY <1>2, Zenon DEF ProcessReport, FurunoReport, NavicoReport, GarminReport, RaymarineReport, Received, commands
  <1>7. ASSUME NEW x \in Ranges, NEW v \in Wanted, Request(x, v)
        PROVE  FALSE
    <2> DEFINE c == [value |-> v, alive |-> TRUE]
    <2>1. queue' = [queue EXCEPT ![x] = Append(queue[x], c)]
      BY <1>7, Zenon DEF Request
    <2>2. c \in Commands
      BY ReceiverAssumption, Zenon DEF Commands, Values
    <2> HIDE DEF c
    <2>3. x = r /\ queue'[r] = Append(queue[r], c)
      BY <1>1, <1>2, <2>1, Zenon
    <2>4. queue[r] \in Seq(Commands)
      BY <1>1
    <2> QED
      BY <2>2, <2>3, <2>4
  <1>8. ASSUME NEW x \in Ranges, GiveUp(x)
        PROVE  FALSE
    <2>1. PICK i \in DOMAIN queue[x] : queue' = [queue EXCEPT ![x][i].alive = FALSE]
      BY <1>8, Zenon DEF GiveUp
    <2> DEFINE q == queue[x]
               c == [q[i] EXCEPT !.alive = FALSE]
    <2>2. q \in Seq(Commands) /\ q[i] \in Commands /\ i \in DOMAIN q
      BY <1>1, <2>1
    <2>3. c \in Commands
      BY <2>2, Zenon DEF Commands
    <2>4. queue' = [queue EXCEPT ![x] = [q EXCEPT ![i] = c]]
      BY <2>1, Zenon
    <2> HIDE DEF c
    <2>5. Len([q EXCEPT ![i] = c]) = Len(q)
      BY <2>2, <2>3
    <2>6. x = r /\ queue'[r] = [q EXCEPT ![i] = c]
      BY <1>1, <1>2, <2>4, Zenon
    <2> QED
      BY <1>2, <2>5, <2>6
  <1>9. ASSUME NEW x \in Ranges, DeviceChanges(x)
        PROVE  FALSE
    BY <1>2, <1>9, Zenon DEF DeviceChanges, commands
  <1>10. ASSUME NEW item, DeviceReports(item)
         PROVE  FALSE
    BY <1>2, <1>10, Zenon DEF DeviceReports, commands
  <1>11. ~NetworkFails /\ ~NetworkRecovers /\ ~ShutdownRequested /\ ~UNCHANGED vars
    BY <1>2, Zenon DEF NetworkFails, NetworkRecovers, ShutdownRequested, vars, commands
  <1>12. ASSUME NEW x \in Ranges, process_control_update(x), x # r
         PROVE  FALSE
    <2>1. queue' = [queue EXCEPT ![x] = Tail(queue[x])]
      BY <1>12, Zenon DEF process_control_update
    <2> QED
      BY <1>1, <1>2, <1>12, <2>1, Zenon
  <1> QED
    BY <1>3, <1>4, <1>5, <1>6, <1>7, <1>8, <1>9, <1>10, <1>11, <1>12, Zenon DEF Next

Reaches(r) ==
    \/ UNCHANGED device
    \/ /\ \A o \in Ranges \ {r} : device'[o] = device[o]
       /\ device'[r] = Head(queue[r]).value
    \/ Shared
    \/ kind = "NXT" /\ ctl = "Doppler" /\ device'["B"] = device["B"]

\* A command of one range.
LEMMA ApplyReaches ==
    ASSUME Talking, NEW x \in Ranges, NEW v \in Values, ~Shared, Apply(x, v)
    PROVE  device'[x] = v /\ \A o \in Ranges \ {x} : device'[o] = device[o]
  BY Zenon DEF Apply, Talking

\* The sender of a Furuno was told the range just before.
LEMMA UpdateReaches ==
    ASSUME IInv, NEW r \in Ranges, process_control_update(r)
    PROVE  Reaches(r)
  <1> DEFINE request == Head(queue[r])
  <1>1. Subject /\ Waiting /\ Talking
    BY DEF IInv
  <1>2. queue[r] # <<>> /\ r \in Mine /\ (Brand = "furuno" => dual_range_id' = r)
    BY <1>1, Zenon DEF process_control_update, Waiting, ToldRange
  <1>3. request.value \in Values
    <2>1. queue[r] \in Seq(Commands)
      BY <1>1, Zenon DEF Waiting
    <2>2. request \in Commands
      BY <1>2, <2>1
    <2> QED
      BY <2>2, Zenon DEF Commands
  <1>4. UNCHANGED device \/ set_control(r, dual_range_id', request.value)
    BY Zenon DEF process_control_update
  <1>5. CASE Shared \/ UNCHANGED device
    BY <1>5, Zenon DEF Reaches
  <1>6. CASE ~Shared /\ set_control(r, dual_range_id', request.value)
    <2>1. Brand \in {"furuno", "navico", "garmin", "raymarine"}
      BY <1>1, Radars
    <2>2. "A" \in Ranges /\ "B" \in Ranges
      BY DEF Ranges
    <2>3. CASE Apply(r, request.value)
      BY <1>1, <1>3, <1>6, <2>3, ApplyReaches, Zenon DEF Reaches
    <2>4. CASE Brand = "furuno" /\ ctl = "Doppler"
      <3>1. Apply("A", request.value)
        BY <1>6, <2>4 DEF set_control, FurunoCommand
      <3>2. kind = "NXT"
        BY <1>1, <2>4, Radars DEF Subject, CtlsOfKind
      <3>3. device'["B"] = device["B"]
        BY <1>1, <1>3, <1>6, <2>2, <3>1, ApplyReaches, Zenon
      <3> QED
        BY <2>4, <3>2, <3>3, Zenon DEF Reaches
    <2>5. CASE Brand = "furuno" /\ ctl # "Doppler"
      <3>1. Apply(dual_range_id', request.value)
        BY <1>6, <2>5 DEF set_control, FurunoCommand
      <3> QED
        BY <1>2, <2>3, <2>5, <3>1, Zenon
    <2>6. CASE Brand = "navico"
      <3>1. Apply("A", request.value)
        BY <1>6, <2>6 DEF set_control, NavicoCommand
      <3>2. r = "A"
        BY <1>1, <1>2, <2>6, NavicoRadar, Zenon
      <3> QED
        BY <2>3, <3>1, <3>2, Zenon
    <2>7. CASE Brand = "garmin"
      <3>1. Apply(r, request.value)
        BY <1>6, <2>7 DEF set_control, GarminCommand
      <3> QED
        BY <2>3, <3>1
    <2>8. CASE Brand = "raymarine"
      <3>1. Apply("A", request.value)
        BY <1>6, <2>8 DEF set_control, QuantumCommand
      <3>2. r = "A"
        BY <1>1, <1>2, <2>8, RaymarineRadar, Zenon
      <3> QED
        BY <2>3, <3>1, <3>2, Zenon
    <2> QED
      BY <2>1, <2>4, <2>5, <2>6, <2>7, <2>8
  <1> QED
    BY <1>4, <1>5, <1>6, SMTT(30)

\* CommandsReachTheirRange: a request taken from a range's channel changes that
\* range to the value asked for or nothing, so the sender that both ranges of a
\* Furuno share is told the right one before every command.
THEOREM CommandsReach == Spec => CommandsReachTheirRange
  <1>1. ASSUME IInv, [Next]_vars
        PROVE  [\A r \in Ranges :
                    Len(queue'[r]) < Len(queue[r]) =>
                        \/ UNCHANGED device
                        \/ /\ \A o \in Ranges \ {r} : device'[o] = device[o]
                           /\ device'[r] = Head(queue[r]).value
                        \/ Shared
                        \/ kind = "NXT" /\ ctl = "Doppler" /\ device'["B"] = device["B"]]_vars
    BY <1>1, OnlyUpdatesTake, UpdateReaches, Zenon DEF Reaches
  <1> QED
    BY <1>1, ReceiverInvariant, PTL DEF Spec, CommandsReachTheirRange

===============================================================================
