------------------------------ MODULE Receiver ------------------------------
(***************************************************************************)
(* A radar from its discovery on: the locator of its brand, the registry,  *)
(* and the receiver task that connects, reads reports, keeps the legend    *)
(* and its lookup table, and passes requests of clients on to the radar.   *)
(*                                                                         *)
(* A behaviour is about one radar of one kind and follows one control of   *)
(* it.  The radar and the network are external: the radar applies a        *)
(* command and owes a report of what has changed or was asked for.  A step *)
(* of a receiver is one branch of its select!, whole.                      *)
(***************************************************************************)
EXTENDS Legend, Sequences

CONSTANTS
    Kinds,          \* radars to choose from
    Wanted,         \* values clients ask for
    MaxRequests,    \* bound: requests of clients
    MaxChanges,     \* bound: changes made at another station
    MaxReports      \* bound: reports on their way

ASSUME ReceiverAssumption ==
    /\ Kinds \subseteq {"NXT", "DRS", "HALO", "4G", "Fantom", "HD", "Quantum", "RD"}
    /\ Wanted \subseteq {0, 1}
    /\ MaxRequests \in Nat /\ MaxChanges \in Nat /\ MaxReports \in Nat

VARIABLES
    kind,           \* the radar
    ctl,            \* the control followed
    net,            \* whether the network to the radar works
    shutdown,       \* whether shutdown was requested
    heard,          \* what the locator has heard of the radar
    registry,       \* the ranges SharedRadars has, each as a radar
    started,        \* how many receivers were started
    phase,          \* of run: "absent", "start", "loop", "sleep", "ended", "failed"
    conn,           \* whether the TCP connection is alive (Furuno)
    first_report_received,
    asked,          \* whether this session asked for Range A's control
    known,          \* what the receiver knows of the radar
    state,          \* ReceiverState, 0 to 3 (Raymarine)
    legend,         \* parameters of each range's legend
    lut,            \* what each wire_to_legend was built from
    mode,           \* Doppler mode of each range, 0 for off
    queue,          \* requests to each range
    dual_range_id,  \* of the command sender (Furuno)
    device,         \* the radar's own value, per range
    control,        \* the value clients see, per range
    owed,           \* what the radar is about to report
    reports,        \* reports on their way
    untold,         \* ghost: Furuno's Range B has changed unreported
    gone,           \* ghost: an error reply found no requester
    requests,       \* how many requests there were
    changes         \* how many changes at another station

environment == <<kind, ctl, net, shutdown>>
discovery == <<heard, registry, started>>
session == <<phase, conn, first_report_received, asked>>
picture == <<known, state, legend, lut, mode>>
commands == <<queue, dual_range_id>>
dialogue == <<device, control, owed, reports, untold, gone>>
counts == <<requests, changes>>
vars == <<environment, discovery, session, picture, commands, dialogue, counts>>

Ranges == {"A", "B"}
Values == {0, 1}
Unset == 2          \* no value yet

Brand ==
    CASE kind \in {"NXT", "DRS"} -> "furuno"
      [] kind \in {"HALO", "4G"} -> "navico"
      [] kind \in {"Fantom", "HD"} -> "garmin"
      [] kind \in {"Quantum", "RD"} -> "raymarine"

\* The ranges of a radar that one receiver serves.  A Navico radar with two
\* ranges has a receiver for each.
Mine == IF kind \in {"NXT", "Fantom"} THEN Ranges ELSE {"A"}

\* One value of the radar, not one per range.
Shared == ctl \in {"ScanSpeed", "Power"}

\* The ranges the radar reports the control for.
Reported == IF Shared THEN {"A"} ELSE Mine

\* The legend with which each locator makes the RadarInfo.
GarminLegend ==
    IF kind = "HD" THEN Params("Arpa", 0, FALSE, 2)
    ELSE set_doppler_levels(Params("Arpa", 1, FALSE, 128), 4)

NewLegend ==
    CASE Brand = "furuno" -> Params("Arpa", 1, FALSE, FURUNO_PIXEL_VALUES)
      [] Brand = "navico" -> Params("Arpa", 0, FALSE, 16)
      [] Brand = "garmin" -> GarminLegend
      [] Brand = "raymarine" -> Params("Arpa", 0, FALSE, 0)

Table(params, on) == [params |-> params, on |-> on]

Init ==
    /\ kind \in Kinds
    /\ ctl \in {"Gain"}
        \cup (IF kind \in {"NXT", "HALO", "Fantom", "Quantum"} THEN {"Doppler"} ELSE {})
        \cup (IF Mine = Ranges THEN {"ScanSpeed", "Power"} ELSE {})
        \cup (IF Brand = "navico" THEN {"Power", "BearingAlignment", "AntennaForward"} ELSE {})
    /\ net = TRUE /\ shutdown = FALSE
    /\ heard = {} /\ registry = {} /\ started = 0
    /\ phase = "absent" /\ conn = FALSE
    /\ first_report_received = FALSE /\ asked = FALSE
    /\ known = {} /\ state = 0
    /\ legend = [r \in Ranges |-> NewLegend]
    /\ lut = [r \in Ranges |-> Table(NewLegend, FALSE)]
    /\ mode = [r \in Ranges |-> 0]
    /\ queue = [r \in Ranges |-> <<>>] /\ dual_range_id = "A"
    /\ device = [r \in Ranges |-> 0] /\ control = [r \in Ranges |-> Unset]
    /\ owed = {} /\ reports = <<>> /\ untold = TRUE /\ gone = FALSE
    /\ requests = 0 /\ changes = 0

\* The controls of every Furuno, those that come with the model, those of every
\* Navico, those of a HALO that is set up, and those of a Garmin's ranges.
FurunoControls == {"Gain", "Power"}
FurunoModelControls == {"Doppler", "ScanSpeed"}
NavicoControls == {"Gain", "Power", "BearingAlignment", "AntennaForward"}
HaloControls == IF legend["A"].levels > 0 THEN {"Doppler"} ELSE {}
GarminControls(r) == {"Gain", "Power", "Doppler"} \cup (IF r = "A" THEN {"ScanSpeed"} ELSE {})
RaymarineControls == {"Gain", "Doppler"}

HasControl(r) ==
    /\ r \in registry
    /\ ctl \in CASE Brand = "furuno" -> FurunoControls
                            \cup (IF "model" \in known THEN FurunoModelControls ELSE {})
                 [] Brand = "navico" -> NavicoControls \cup HaloControls
                 [] Brand = "garmin" -> GarminControls(r)
                 [] Brand = "raymarine" -> RaymarineControls

-----------------------------------------------------------------------------
(* Discovery *)

\* Everything the radar sends by itself; Furuno waits until it is asked.
Broadcast ==
    CASE Brand = "furuno" -> {}
      [] kind = "HALO" -> {"properties", "features", "A"}
      [] kind = "4G" -> {"properties", "A"}
      [] Brand = "garmin" -> Reported
      [] kind = "Quantum" -> {"info", "features", "A"}
      [] kind = "RD" -> {"info", "fixed", "A"}

\* Mutant: a radar that is known already is started once more.
RegisterAgain ==
    /\ registry' = Mine
    /\ started' = started + 1
    /\ phase' = "start"
    /\ owed' = Broadcast

\* found: SharedRadars::add answers None for a radar it has.
Register ==
    IF registry = {}
    THEN /\ registry' = Mine
         /\ started' = started + 1
         /\ phase' = "start"
         /\ owed' = Broadcast
    ELSE UNCHANGED <<registry, started, phase, owed>>

Located ==
    /\ ~shutdown /\ started < 2
    /\ UNCHANGED <<environment, conn, first_report_received, asked, picture, commands,
                   device, control, reports, untold, gone, counts>>

\* A beacon of Navico.
NavicoBeacon ==
    /\ Brand = "navico" /\ net
    /\ Register
    /\ UNCHANGED heard
    /\ Located

\* handle_capability, handle_range_table: both are waited for, in either order.
try_register_pending(now) == {"capability", "range_table"} \subseteq now

\* A packet of Garmin.  HD registers with the first one.
GarminPacket(what) ==
    /\ Brand = "garmin" /\ net
    /\ "registered" \notin heard
    /\ LET now == heard \cup {what}
       IN  IF kind = "HD" \/ try_register_pending(now)
           THEN heard' = now \cup {"registered"} /\ Register
           ELSE heard' = now /\ UNCHANGED <<registry, started, phase, owed>>
    /\ Located

\* The beacon of Raymarine with the model.
process_beacon_56_report ==
    /\ Brand = "raymarine" /\ net
    /\ heard' = heard \cup {"beacon56"}
    /\ UNCHANGED <<registry, started, phase, owed>>
    /\ Located

\* The beacon with the addresses counts only after the one with the model,
\* which has the same link id.
process_beacon_36_report ==
    /\ Brand = "raymarine" /\ net
    /\ IF "beacon56" \in heard THEN Register
       ELSE UNCHANGED <<registry, started, phase, owed>>
    /\ UNCHANGED heard
    /\ Located

\* A model report of Furuno.  If the login fails the radar is removed again.
FurunoModelReport ==
    /\ Brand = "furuno"
    /\ \/ net /\ Register
       \/ registry = {} /\ UNCHANGED <<registry, started, phase, owed>>
    /\ UNCHANGED heard
    /\ Located

-----------------------------------------------------------------------------
(* The session: run of each brand *)

Goto(p) ==
    /\ phase' = p
    /\ UNCHANGED <<environment, discovery, conn, first_report_received, asked, picture,
                   commands, dialogue, counts>>

\* Login, command stream and sockets; a new session has received nothing.
FurunoOpen ==
    /\ Brand = "furuno" /\ phase = "start"
    /\ IF net
       THEN /\ phase' = "loop"
            /\ conn' = TRUE
            /\ first_report_received' = FALSE
            /\ asked' = FALSE
            /\ UNCHANGED <<environment, discovery, picture, commands, dialogue, counts>>
       ELSE Goto("sleep")

\* The report socket is opened once: without it run returns the error.
NavicoOpen ==
    /\ Brand = "navico" /\ phase = "start"
    /\ Goto(IF net THEN "loop" ELSE "failed")

GarminOpen ==
    /\ Brand = "garmin" /\ phase = "start"
    /\ Goto(IF net THEN "loop" ELSE "sleep")

RaymarineOpen ==
    /\ Brand = "raymarine" /\ phase = "start"
    /\ Goto(IF net THEN "loop" ELSE "sleep")

Open == FurunoOpen \/ NavicoOpen \/ GarminOpen \/ RaymarineOpen

\* Mutant: a receiver that has slept once does not try again.
WakeNever ==
    /\ phase = "sleep" /\ Brand # "garmin"
    /\ ~(Brand = "furuno" /\ shutdown)
    /\ Goto(IF Brand = "navico" THEN "loop" ELSE "start")

\* Navico keeps the report socket it has and goes straight on; the loop
\* opens its other sockets as they are missing.
Wake ==
    /\ phase = "sleep"
    /\ ~(Brand = "furuno" /\ shutdown)
    /\ Brand = "navico" => net
    /\ Goto(IF Brand = "navico" THEN "loop" ELSE "start")

\* Mutant: the loop of a radar without a connection is not told to stop.
StopOnlyFuruno ==
    /\ shutdown
    /\ Brand = "furuno" /\ phase \in {"loop", "sleep"}
    /\ Goto("ended")

\* on_shutdown_requested is a branch of the loops, and of Furuno's sleep.
Stop ==
    /\ shutdown
    /\ phase = "loop" \/ (Brand = "furuno" /\ phase = "sleep")
    /\ Goto("ended")

\* What the loops leave behind: Furuno's connection is closed, with all that
\* was on its way; sockets are closed except Navico's; a report of a radar
\* that sends it all the time is only delayed.
Leave(p) ==
    /\ phase' = p
    /\ conn' = FALSE
    /\ CASE Brand = "furuno" ->
                /\ owed' = {} /\ reports' = <<>>
                /\ untold' = (untold \/ "B" \in owed
                                \/ \E i \in DOMAIN reports : reports[i].item = "B")
         [] Brand = "navico" -> UNCHANGED <<owed, reports, untold>>
         [] OTHER -> /\ owed' = owed \cup {reports[i].item : i \in DOMAIN reports}
                     /\ reports' = <<>> /\ UNCHANGED untold
    /\ UNCHANGED <<first_report_received, asked>>

\* Whether what is sent arrives.
Reachable == IF Brand = "furuno" THEN conn ELSE net

\* A receive or a send that is not a command fails: the loop is left.
Fail ==
    /\ phase = "loop" /\ ~Reachable
    /\ Leave("sleep")
    /\ UNCHANGED <<environment, discovery, picture, commands, device, control, gone, counts>>

\* Command::init: the state of Range A is asked for; controls not yet there
\* are not.
AskNow ==
    /\ owed' = owed \cup {"model"} \cup (IF HasControl("A")' THEN {"A"} ELSE {})
    /\ asked' = (asked \/ HasControl("A")')

\* The report requests of Furuno; the others' radars answer with what they
\* send all the time anyway.
Timer ==
    /\ phase = "loop" /\ Brand = "furuno" /\ conn
    /\ UNCHANGED <<environment, discovery, phase, conn, first_report_received, picture,
                   commands, device, control, reports, untold, gone, counts>>
    /\ AskNow

-----------------------------------------------------------------------------
(* Reports: process_report of each brand *)

\* Mutant: power is reported for one range.
TargetsOfOwnRange(item) == {item}

\* The ranges whose control a report sets: both share the power of a Furuno.
Targets(item) == IF kind = "NXT" /\ ctl = "Power" THEN Ranges ELSE {item}

\* CommonRadar::set_value and its kin; one for a control that is not there
\* leaves no trace.
set_value(ranges, value) ==
    control' = [r \in Ranges |->
        IF r \in ranges /\ HasControl(r) THEN value ELSE control[r]]

\* A report that is not applied; it will come again.
Skip(report) ==
    /\ owed' = owed \cup {report.item}
    /\ UNCHANGED <<picture, control>>

Received(report) ==
    /\ phase = "loop" /\ reports # <<>>
    /\ report = Head(reports)
    /\ UNCHANGED <<environment, discovery, commands, device, gone, counts>>

\* parse_modules: the tables are built, then update_when_model_known changes
\* the legend of a radar with a target analyzer.
FurunoModules ==
    /\ known' = known \cup {"model"}
    /\ IF "model" \in known THEN UNCHANGED <<legend, lut>>
       ELSE /\ lut' = [r \in Ranges |-> Table(legend[r], mode[r] # 0)]
            /\ legend' = [r \in Ranges |->
                   IF kind = "NXT"
                   THEN set_doppler_levels(set_has_rain_class(legend[r], TRUE), 16)
                   ELSE legend[r]]
    /\ UNCHANGED <<state, mode, control>>

\* The TargetAnalyzer report.  The table is built again when the mode changes.
FurunoTargetAnalyzer(report) ==
    /\ set_value({report.item}, report.value)
    /\ IF HasControl(report.item) /\ mode[report.item] # report.value
       THEN /\ mode' = [mode EXCEPT ![report.item] = report.value]
            /\ lut' = [lut EXCEPT ![report.item] =
                                    Table(legend[report.item], report.value # 0)]
       ELSE UNCHANGED <<mode, lut>>
    /\ UNCHANGED <<known, state, legend>>

\* Status, Gain, ScanSpeed and the other reports that set one control.
FurunoControl(report) ==
    /\ set_value(Targets(report.item), report.value)
    /\ UNCHANGED picture

\* The first report of a session is followed by init, which fails with the
\* connection.
FurunoReport ==
    \E report \in {reports[i] : i \in DOMAIN reports} :
        /\ Brand = "furuno" /\ Received(report)
        /\ CASE report.item = "model" -> FurunoModules
             [] report.item # "model" /\ ctl = "Doppler" -> FurunoTargetAnalyzer(report)
             [] OTHER -> FurunoControl(report)
        /\ IF ~first_report_received /\ ~conn
           THEN /\ phase' = "sleep" /\ owed' = {} /\ reports' = <<>> /\ untold' = TRUE
                /\ UNCHANGED <<conn, first_report_received, asked>>
           ELSE /\ reports' = Tail(reports)
                /\ untold' = IF report.item = "B" /\ conn THEN ~HasControl("B") ELSE untold
                /\ first_report_received' = TRUE
                /\ IF first_report_received THEN UNCHANGED <<owed, asked>> ELSE AskNow
                /\ UNCHANGED <<phase, conn>>

\* Mutant: the table is left as it was.
FinalizeWithoutTable ==
    /\ legend' = [legend EXCEPT !["A"] = set_doppler(@, TRUE)]
    /\ UNCHANGED lut

\* finalize_halo, with the model and the capabilities at hand.
finalize_halo ==
    /\ legend' = [legend EXCEPT !["A"] = set_doppler(@, TRUE)]
    /\ lut' = [lut EXCEPT !["A"] = Table(set_doppler(legend["A"], TRUE), FALSE)]

\* 0xC403: HALO waits for its capabilities unless they are there.
process_state_properties ==
    /\ IF "model" \in known \/ kind # "HALO"
       THEN known' = known \cup {"model"} /\ UNCHANGED <<legend, lut>>
       ELSE IF "capabilities" \in known
       THEN known' = known \cup {"model"} /\ finalize_halo
       ELSE known' = known \cup {"model", "awaiting"} /\ UNCHANGED <<legend, lut>>
    /\ UNCHANGED <<state, mode, control, owed>>

\* 0xC409
process_state_features ==
    /\ known' = (known \ {"awaiting"}) \cup {"capabilities"}
    /\ IF "awaiting" \in known THEN finalize_halo ELSE UNCHANGED <<legend, lut>>
    /\ UNCHANGED <<state, mode, control, owed>>

Ready == "model" \in known /\ "awaiting" \notin known

\* 0xC401: power.
process_state_mode(report) ==
    /\ ctl = "Power"
    /\ set_value({"A"}, report.value)
    /\ UNCHANGED <<picture, owed>>

\* 0xC402: gain, range and clutter.
process_state_setup(report) ==
    /\ ctl = "Gain"
    /\ set_value({"A"}, report.value)
    /\ UNCHANGED <<picture, owed>>

\* 0xC404: bearing alignment and the place of the antenna.
process_state_config(report) ==
    /\ ctl \in {"BearingAlignment", "AntennaForward"}
    /\ set_value({"A"}, report.value)
    /\ UNCHANGED <<picture, owed>>

\* 0xC406 brings the place of the antenna too.
process_state_installation(report) ==
    /\ ctl = "AntennaForward"
    /\ set_value({"A"}, report.value)
    /\ UNCHANGED <<picture, owed>>

\* 0xC408: the Doppler mode.
process_state_setup_extended(report) ==
    /\ ctl = "Doppler"
    /\ set_value({"A"}, report.value)
    /\ mode' = [mode EXCEPT !["A"] = report.value]
    /\ UNCHANGED <<known, state, legend, lut, owed>>

\* All but model and capabilities is dropped until the radar is fully known.
NavicoReport ==
    \E report \in {reports[i] : i \in DOMAIN reports} :
        /\ Brand = "navico" /\ Received(report)
        /\ reports' = Tail(reports)
        /\ CASE report.item = "properties" -> process_state_properties
             [] report.item = "features" -> process_state_features
             [] report.item = "A" /\ Ready -> \/ process_state_mode(report)
                                              \/ process_state_setup(report)
                                              \/ process_state_config(report)
                                              \/ process_state_installation(report)
                                              \/ process_state_setup_extended(report)
             [] report.item = "A" /\ ~Ready -> Skip(report)
        /\ UNCHANGED <<session, untold>>

\* The one status packet of an HD.
process_hd_status(report) ==
    /\ set_value({"A"}, report.value)
    /\ UNCHANGED <<lut, mode>>

\* Gain, power, scan speed: a packet for each.
process_gain_level(report) ==
    /\ set_value({"A"}, report.value)
    /\ UNCHANGED <<lut, mode>>

\* The Doppler mode of Range A: its table is built again when it changes.
process_scan_mode(report) ==
    /\ set_value({"A"}, report.value)
    /\ mode' = [mode EXCEPT !["A"] = report.value]
    /\ lut' = IF mode["A"] = report.value THEN lut
              ELSE [lut EXCEPT !["A"] = Table(legend["A"], report.value # 0)]

\* Packets for Range B, whose table is never built again.
with_range_b(report) ==
    /\ set_value({"B"}, report.value)
    /\ mode' = IF ctl = "Doppler" THEN [mode EXCEPT !["B"] = report.value] ELSE mode
    /\ UNCHANGED lut

GarminReport ==
    \E report \in {reports[i] : i \in DOMAIN reports} :
        /\ Brand = "garmin" /\ Received(report)
        /\ reports' = Tail(reports)
        /\ CASE kind = "HD" -> process_hd_status(report)
             [] kind = "Fantom" /\ report.item = "B" -> with_range_b(report)
             [] kind = "Fantom" /\ report.item = "A" /\ ctl = "Doppler" -> process_scan_mode(report)
             [] kind = "Fantom" /\ report.item = "A" /\ ctl # "Doppler" -> process_gain_level(report)
        /\ UNCHANGED <<session, known, state, legend, owed, untold>>

\* The first info report of a Quantum: it brings the model, and with it the
\* legend and a command sender.
QuantumInfo ==
    /\ IF "model" \in known THEN UNCHANGED <<known, state, legend, lut>>
       ELSE LET new == set_doppler(set_pixel_values(legend["A"], 128), TRUE)
            IN  /\ known' = known \cup {"model", "sender"}
                /\ state' = 1
                /\ legend' = [legend EXCEPT !["A"] = new]
                /\ lut' = [lut EXCEPT !["A"] = Table(new, FALSE)]
    /\ UNCHANGED <<mode, control, owed>>

\* The first info report of an RD brings no command sender.
RDInfo ==
    /\ IF "model" \in known THEN UNCHANGED <<known, state, legend, lut>>
       ELSE LET new == set_doppler(set_pixel_values(legend["A"], 16), FALSE)
            IN  /\ known' = known \cup {"model"}
                /\ state' = 1
                /\ legend' = [legend EXCEPT !["A"] = new]
                /\ lut' = [lut EXCEPT !["A"] = Table(new, FALSE)]
    /\ UNCHANGED <<mode, control, owed>>

\* The first features report says whether the radar has Doppler.
process_features(doppler) ==
    /\ IF "features" \in known THEN UNCHANGED <<known, legend, lut>>
       ELSE LET new == set_doppler(legend["A"], doppler)
            IN  /\ known' = known \cup {"features"}
                /\ legend' = [legend EXCEPT !["A"] = new]
                /\ lut' = IF new = legend["A"] THEN lut
                          ELSE [lut EXCEPT !["A"] = Table(new, FALSE)]
    /\ UNCHANGED <<state, mode, control, owed>>

process_fixed_report ==
    /\ state' = IF state = 1 THEN 2 ELSE state
    /\ UNCHANGED <<known, legend, lut, mode, control, owed>>

\* Mutant: the status of a radar of an unknown model is taken.
StatusOfAnyModel(report) ==
    /\ set_value({"A"}, report.value)
    /\ state' = 3
    /\ UNCHANGED <<known, legend, lut, mode, owed>>

\* The status of a Quantum, which has the gain, waits for the model.
QuantumStatus(report) ==
    IF "model" \in known
    THEN /\ set_value({"A"}, report.value)
         /\ state' = 3
         /\ UNCHANGED <<known, legend, lut, mode, owed>>
    ELSE Skip(report)

\* The status of an RD waits for the fixed report, which waits for the model.
RDStatus(report) ==
    IF state >= 2
    THEN /\ set_value({"A"}, report.value)
         /\ state' = 3
         /\ UNCHANGED <<known, legend, lut, mode, owed>>
    ELSE Skip(report)

\* Quantum reports Doppler apart, and waits for nothing.
process_doppler_report(report) ==
    /\ set_value({"A"}, report.value)
    /\ UNCHANGED <<picture, owed>>

RaymarineReport ==
    \E report \in {reports[i] : i \in DOMAIN reports} :
        /\ Brand = "raymarine" /\ Received(report)
        /\ reports' = Tail(reports)
        /\ CASE report.item = "info" -> IF kind = "Quantum" THEN QuantumInfo ELSE RDInfo
             [] report.item = "features" -> \E doppler \in BOOLEAN : process_features(doppler)
             [] report.item = "fixed" -> process_fixed_report
             [] report.item = "A" /\ ctl = "Doppler" -> process_doppler_report(report)
             [] report.item = "A" /\ ctl # "Doppler" ->
                    IF kind = "Quantum" THEN QuantumStatus(report) ELSE RDStatus(report)
        /\ UNCHANGED <<session, untold>>

-----------------------------------------------------------------------------
(* Requests: process_control_update *)

\* A client asks for a value; the request waits in the range's channel.
Request(r, v) ==
    /\ requests < MaxRequests /\ HasControl(r)
    /\ queue' = [queue EXCEPT ![r] = Append(@, [value |-> v, alive |-> TRUE])]
    /\ requests' = requests + 1
    /\ UNCHANGED <<environment, discovery, session, picture, dual_range_id, dialogue, changes>>

\* The client of a waiting request is gone.
GiveUp(r) ==
    \E i \in DOMAIN queue[r] :
        /\ queue[r][i].alive
        /\ queue' = [queue EXCEPT ![r][i].alive = FALSE]
        /\ UNCHANGED <<environment, discovery, session, picture, dual_range_id, dialogue,
                       counts>>

\* The radar applies a command, and reports it.
Apply(r, value) ==
    /\ device' = [d \in Ranges |-> IF Shared \/ d = r THEN value ELSE device[d]]
    /\ owed' = owed \cup (IF Shared THEN {"A"} ELSE {r})

\* set_control of each brand.  Furuno has one sender, which names the range it
\* was last told in each command; its Doppler command is for Range A always.
\* Garmin has a sender, and packets, for each range.
FurunoCommand(id, value) == Apply(IF ctl = "Doppler" THEN "A" ELSE id, value)
NavicoCommand(value) == Apply("A", value)
GarminCommand(r, value) == Apply(r, value)
QuantumCommand(value) == Apply("A", value)

set_control(r, id, value) ==
    CASE Brand = "furuno" -> FurunoCommand(id, value)
      [] Brand = "navico" -> NavicoCommand(value)
      [] Brand = "garmin" -> GarminCommand(r, value)
      [] Brand = "raymarine" -> QuantumCommand(value)

\* Mutant: the sender is told of Range B only.
ToldOfRangeB(r, id) == IF Brand = "furuno" /\ r = "B" THEN "B" ELSE id

\* What the sender is told before a command for r; id is what it was told.
ToldRange(r, id) == IF Brand = "furuno" THEN r ELSE id

\* Mutant: every brand's loop passes the error on.
AnyLoopEnds(request) == ~request.alive

\* The error reply finds no requester, which is RadarError::Shutdown.  Furuno's
\* loop returns it and ends; the others ignore it.
EndsLoop(request) == Brand = "furuno" /\ ~request.alive

\* A failed command is answered with an error.  Raymarine without a sender does
\* nothing.
process_control_update(r) ==
    /\ phase = "loop" /\ queue[r] # <<>>
    /\ queue' = [queue EXCEPT ![r] = Tail(@)]
    /\ dual_range_id' = ToldRange(r, dual_range_id)
    /\ LET request == Head(queue[r])
       IN  \/ /\ Brand = "raymarine" /\ "sender" \notin known
              /\ UNCHANGED <<session, device, owed, reports, untold, gone>>
           \/ /\ Reachable /\ (Brand = "raymarine" => "sender" \in known)
              /\ set_control(r, dual_range_id', request.value)
              /\ UNCHANGED <<session, reports, untold, gone>>
           \/ /\ ~Reachable /\ (Brand = "raymarine" => "sender" \in known)
              /\ IF EndsLoop(request)
                 THEN Leave("ended") /\ gone' = TRUE /\ UNCHANGED device
                 ELSE UNCHANGED <<session, device, owed, reports, untold, gone>>
    /\ UNCHANGED <<environment, discovery, picture, control, counts>>

-----------------------------------------------------------------------------
(* The radar and the network *)

\* The radar sends a report: one that it owes, or one it repeats.
DeviceReports(item) ==
    /\ phase = "loop" /\ Reachable /\ Len(reports) < MaxReports
    /\ item \in owed \cup Broadcast
    /\ reports' = Append(reports, [item |-> item,
                        value |-> IF item \in Ranges THEN device[item] ELSE Unset])
    /\ owed' = owed \ {item}
    /\ UNCHANGED <<environment, discovery, session, picture, commands, device, control,
                   untold, gone, counts>>

\* A value is changed at another station.  Furuno tells those connected.
DeviceChanges(r) ==
    /\ changes < MaxChanges /\ phase # "absent" /\ r \in Reported
    /\ device' = [d \in Ranges |-> IF Shared \/ d = r THEN 1 - device[d] ELSE device[d]]
    /\ IF Reachable \/ Brand # "furuno"
       THEN owed' = owed \cup {r} /\ UNCHANGED untold
       ELSE untold' = (untold \/ r = "B") /\ UNCHANGED owed
    /\ changes' = changes + 1
    /\ UNCHANGED <<environment, discovery, session, picture, commands, control, reports,
                   gone, requests>>

\* The network fails, and with it a connection and all owed on it.
NetworkFails ==
    /\ net
    /\ net' = FALSE
    /\ conn' = FALSE
    /\ IF Brand = "furuno"
       THEN owed' = {} /\ untold' = (untold \/ "B" \in owed) ELSE UNCHANGED <<owed, untold>>
    /\ UNCHANGED <<kind, ctl, shutdown, discovery, phase, first_report_received, asked,
                   picture, commands, device, control, reports, gone, counts>>

NetworkRecovers ==
    /\ ~net
    /\ net' = TRUE
    /\ UNCHANGED <<kind, ctl, shutdown, discovery, session, picture, commands, dialogue, counts>>

ShutdownRequested ==
    /\ ~shutdown
    /\ shutdown' = TRUE
    /\ UNCHANGED <<kind, ctl, net, discovery, session, picture, commands, dialogue, counts>>

Discover ==
    \/ NavicoBeacon
    \/ \E what \in {"capability", "range_table", "other"} : GarminPacket(what)
    \/ process_beacon_56_report
    \/ process_beacon_36_report
    \/ FurunoModelReport

ProcessReport == FurunoReport \/ NavicoReport \/ GarminReport \/ RaymarineReport

Next ==
    \/ Discover
    \/ Open \/ Wake \/ Stop \/ Fail \/ Timer
    \/ ProcessReport
    \/ \E r \in Ranges, v \in Wanted : Request(r, v)
    \/ \E r \in Ranges : GiveUp(r) \/ process_control_update(r) \/ DeviceChanges(r)
    \/ \E item \in owed \cup Broadcast : DeviceReports(item)
    \/ NetworkFails \/ NetworkRecovers \/ ShutdownRequested

\* The receiver is a task of the runtime: a branch that stays ready is taken.
Fairness ==
    /\ WF_vars(Open) /\ WF_vars(Wake) /\ WF_vars(Stop)
    /\ WF_vars(Brand = "furuno" /\ Fail)

Spec == Init /\ [][Next]_vars /\ Fairness

-----------------------------------------------------------------------------
(* Properties *)

Reports == [item : {"model", "properties", "features", "info", "fixed"} \cup Ranges,
            value : Values \cup {Unset}]

\* Every variable has its type; in particular a Doppler mode is one that the
\* control has, and a range reported is one that is registered.
TypeOK ==
    /\ kind \in Kinds /\ ctl \in {"Gain", "Doppler", "ScanSpeed", "Power", "BearingAlignment", "AntennaForward"}
    /\ net \in BOOLEAN /\ shutdown \in BOOLEAN
    /\ registry \in {{}, Mine} /\ started \in 0 .. 2
    /\ phase \in {"absent", "start", "loop", "sleep", "ended", "failed"}
    /\ conn \in BOOLEAN /\ first_report_received \in BOOLEAN /\ asked \in BOOLEAN
    /\ known \subseteq {"model", "capabilities", "awaiting", "features", "sender"}
    /\ state \in 0 .. 3
    /\ \A r \in Ranges : legend[r].levels \in {0, 1, 4, 16} /\ lut[r].on \in BOOLEAN
    /\ mode \in [Ranges -> Values]
    /\ \A r \in Ranges : queue[r] \in Seq([value : Values, alive : BOOLEAN])
    /\ dual_range_id \in Mine
    /\ device \in [Ranges -> Values] /\ control \in [Ranges -> Values \cup {Unset}]
    /\ reports \in Seq(Reports)
    /\ untold \in BOOLEAN /\ gone \in BOOLEAN

\* A radar gets one receiver, however often and in whatever order its beacons
\* or packets arrive, and has one whenever it is in the registry.  It ends only
\* when asked to: not by a failing network, connection or command.  There are
\* two exceptions.  Furuno's loop takes an error reply to a client that is gone
\* for a shutdown, and a Navico receiver fails with its very first socket.
OneReceiver ==
    /\ TypeOK
    /\ started <= 1
    /\ (registry # {}) = (started = 1)
    /\ (started = 1) = (phase # "absent")
    /\ phase = "ended" => shutdown \/ (Brand = "furuno" /\ gone)
    /\ phase = "failed" => Brand = "navico" /\ known = {} /\ control["A"] = Unset

\* A spoke is translated with a table made from the legend clients are given,
\* for the Doppler mode the radar is in: whatever the order of model,
\* capabilities, features and mode reports, and over reconnections.  There are
\* two exceptions: the table of a Furuno with target analyzer is older than
\* its legend until the mode changes, and Garmin's Range B has the table of
\* the mode it started with.  Nothing is shown with half a legend: Raymarine
\* takes spokes only when the info report has said how many intensities there
\* are; HALO is set up when both its model and its capabilities have arrived, in
\* either order, and its settings are taken only then.
LutFollowsLegend ==
    /\ \A r \in registry :
          /\ \/ lut[r].params = legend[r]
             \/ kind = "NXT" /\ mode[r] = 0 /\ ~lut[r].on /\ lut[r].params = NewLegend
          /\ Brand \in {"furuno", "garmin"} /\ ~(kind = "Fantom" /\ r = "B")
                  => lut[r].on = (mode[r] # 0)
    /\ state = 3 => legend["A"].pixels > 0
    /\ kind = "HALO" =>
          /\ ({"model", "capabilities"} \subseteq known) = (legend["A"].levels > 0)
          /\ "awaiting" \in known => "capabilities" \notin known
          /\ control["A"] # Unset => legend["A"].levels > 0

\* When no report is due and none is on its way, clients see the value the
\* radar has, whatever commands, changes at another station, lost connections
\* and skipped reports there were.  The exceptions: Furuno's Range B is told
\* only of what changes while connected, its scan speed and Garmin's power
\* are never reported for Range B.
ControlsFollowDevice ==
    (/\ phase = "loop" /\ owed = {} /\ reports = <<>>
     /\ Brand = "furuno" => conn /\ asked) =>
        \A r \in registry :
            \/ ~HasControl(r)
            \/ control[r] = device[r]
            \/ r = "B" /\ kind = "NXT" /\ (untold \/ ctl = "ScanSpeed") /\ ctl # "Power"
            \/ r = "B" /\ kind = "Fantom" /\ ctl = "Power"

\* A request for one range never changes the other, and one that is sent gives
\* its range the value asked for: the sender that both ranges of a Furuno share
\* is always told the right one.  Except what the ranges share, and Furuno's
\* Doppler mode, which is always set for Range A.
CommandsReachTheirRange ==
    [][\A r \in Ranges :
        Len(queue'[r]) < Len(queue[r]) =>
            \/ UNCHANGED device
            \/ /\ \A o \in Ranges \ {r} : device'[o] = device[o]
               /\ device'[r] = Head(queue[r]).value
            \/ Shared
            \/ kind = "NXT" /\ ctl = "Doppler" /\ device'["B"] = device["B"]]_vars

\* Once the network stays up, a receiver that was started is in its loop and
\* reaches the radar from some time on, unless it has ended: a connection lost
\* is noticed and made again, and no failure leaves it waiting.  A shutdown ends
\* it: at once for Furuno, when the network lets the others open their sockets
\* again for them, as they do not look while asleep.
Reconnects ==
    /\ (<>[]net /\ <>(phase # "absent")) =>
           <>[]((phase = "loop" /\ Reachable) \/ phase \in {"ended", "failed"})
    /\ (<>[]net \/ Brand = "furuno") =>
           ((shutdown /\ phase # "absent") ~> (phase \in {"ended", "failed"}))
=============================================================================
