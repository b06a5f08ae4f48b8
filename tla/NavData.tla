------------------------------- MODULE NavData -------------------------------
(* The task that receives navigation data, from a Signal K or NMEA 0183 server *)
(* found with mDNS, or at a given TCP or UDP address; and the position it      *)
(* leaves for other threads in two atomics and a flag, one store at a time.    *)
EXTENDS AddressWatch, Sequences

CONSTANTS
    Others,       \* vessels other than this one
    MaxFixes,     \* bound: positions received
    None          \* no vessel, or no position

Own == "own"
Vessels == {Own} \cup Others

ASSUME NavAssumption == None \notin Vessels

VARIABLES
    source,       \* [how, nmea0183_mode, pass_ais]: how \in {"mdns", "tcp", "udp"}
    navdata,      \* "find", "receive", "ended"; "disabled" if mDNS does not work
    service,      \* the server is up
    subs,         \* what this connection has asked the server for: "self", "all"
    own_ship,     \* OWN_SHIP_CONTEXT, of the process
    ais,          \* vessels handed to the AIS store
    fixes,        \* vessels whose positions have been received, in order
    writer,       \* [stage, fix]: set_position
    lat, lon,     \* POSITION_LAT, POSITION_LON: the number of a fix, 0 for NaN
    valid,        \* POSITION_VALID
    reader        \* [stage, lat, lon, from, alone]: get_position in another thread

connVars == <<source, navdata, service, subs, own_ship, ais>>
positionVars == <<fixes, writer, lat, lon, valid, reader>>
navVars == <<connVars, positionVars>>

Idle == [stage |-> "idle", fix |-> 0]
NotReading == [stage |-> "idle", lat |-> 0, lon |-> 0, from |-> 0, alone |-> TRUE]

NavInit ==
    /\ source \in [how : {"mdns", "tcp", "udp"}, nmea0183_mode : BOOLEAN, pass_ais : BOOLEAN]
    /\ navdata = "find"
    /\ service \in BOOLEAN
    /\ subs = {}
    /\ own_ship = None
    /\ ais = {}
    /\ fixes = <<>>
    /\ writer = Idle
    /\ lat = 0 /\ lon = 0 /\ valid = FALSE
    /\ reader = NotReading

-------------------------------------------------------------------------------
\* The server starts or stops; stopping closes the connection later.
ServiceChanges ==
    /\ service' = ~service
    /\ UNCHANGED <<source, navdata, subs, own_ship, ais, positionVars, watchVars>>

Connect ==
    /\ navdata' = "receive"
    /\ subs' = {}
    /\ UNCHANGED <<source, service, own_ship, ais, positionVars>>

\* Mutant: find_tcp_service tries once only.
FindServiceOnce ==
    /\ navdata = "find"
    /\ ~shutdown
    /\ subs = {}
    /\ \/ source.how = "tcp" /\ service
       \/ source.how = "udp"
    /\ Connect
    /\ UNCHANGED watchVars

\* find_tcp_service tries once a second; find_udp_service only binds.
find_service ==
    /\ navdata = "find"
    /\ ~shutdown
    /\ \/ source.how = "tcp" /\ service
       \/ source.how = "udp"
    /\ Connect
    /\ UNCHANGED watchVars

\* find_mdns_service: the service is resolved, and connected to if it is up.
ServiceResolved ==
    /\ navdata = "find"
    /\ source.how = "mdns"
    /\ ~shutdown
    /\ unread["navdata"] = 0
    /\ service
    /\ Connect
    /\ UNCHANGED watchVars

\* A change of address, or having lagged, starts the search again.
SearchAgain ==
    /\ navdata = "find"
    /\ source.how = "mdns"
    /\ ~shutdown
    /\ unread["navdata"] > 0
    /\ ReadChange("navdata")
    /\ UNCHANGED <<navVars, shutdown, nics, changed, unannounced>>

\* The mDNS daemon cannot be used: wait for the end.
NoMdns ==
    /\ navdata = "find"
    /\ source.how = "mdns"
    /\ navdata' = "disabled"
    /\ UNCHANGED <<source, service, subs, own_ship, ais, positionVars, watchVars>>

\* receive_loop returns, with an error or at a shutdown; run then looks for the
\* service again, and sees the shutdown there.
Disconnect ==
    /\ navdata' = "find"
    /\ UNCHANGED <<source, service, subs, own_ship, ais, positionVars, watchVars>>

ConnectionCloses ==
    /\ navdata = "receive"
    /\ writer = Idle
    /\ Disconnect

\* Mutant: the task that has no mDNS waits for nothing.
NavShutdownOfSearch ==
    /\ shutdown
    /\ navdata = "find"
    /\ navdata' = "ended"
    /\ UNCHANGED <<source, service, subs, own_ship, ais, positionVars, watchVars>>

NavShutdown ==
    /\ shutdown
    /\ navdata \in {"find", "disabled"}
    /\ navdata' = "ended"
    /\ UNCHANGED <<source, service, subs, own_ship, ais, positionVars, watchVars>>

\* The loop is free for the next line.
Receiving == navdata = "receive" /\ writer = Idle /\ ~shutdown

\* Mutant: everything is asked for at once.
subscription_all == {"self", "all"}

\* send_subscription asks for the data of vessels.self.
subscription == {"self"}

\* The server's greeting, which is answered with the subscription.
Greeting ==
    /\ Receiving
    /\ service
    /\ source.how # "udp" /\ ~source.nmea0183_mode
    /\ subs = {}
    /\ subs' = subscription
    /\ UNCHANGED <<source, navdata, service, own_ship, ais, positionVars, watchVars>>

\* set_position(None, None), or the first store of set_position.
SetPosition(v) ==
    \/ /\ Len(fixes) < MaxFixes
       /\ fixes' = Append(fixes, v)
       /\ writer' = [stage |-> "lat", fix |-> Len(fixes) + 1]
       /\ reader' = [reader EXCEPT !.alone = FALSE]
       /\ UNCHANGED <<lat, lon, valid>>
    \/ /\ valid' = FALSE
       /\ reader' = [reader EXCEPT !.alone = FALSE]
       /\ UNCHANGED <<fixes, writer, lat, lon>>

\* Whose data the connection can bring.
Sends(v) ==
    \/ source.how = "udp" /\ (v = Own \/ ~source.nmea0183_mode)
    \/ source.nmea0183_mode /\ v = Own
    \/ "self" \in subs /\ v = Own
    \/ "all" \in subs

\* parse_signalk with pass_ais: whether the update is for the AIS store.
IsAisTarget(v) == source.pass_ais /\ own_ship # None /\ own_ship # v

\* A line with a position, parsed by parse_nmea0183 or parse_signalk.  The first
\* context becomes own ship, and all vessels are asked for.
Line(v) ==
    /\ Receiving
    /\ source.how # "udp" => service
    /\ Sends(v)
    /\ IF source.nmea0183_mode \/ ~IsAisTarget(v)
       THEN /\ SetPosition(v)
            /\ UNCHANGED ais
       ELSE /\ ais' = ais \cup {v}
            /\ UNCHANGED positionVars
    /\ IF source.pass_ais /\ ~source.nmea0183_mode /\ own_ship = None
       THEN /\ own_ship' = v
            /\ subs' = IF source.how = "udp" THEN subs ELSE subs \cup {"all"}
       ELSE UNCHANGED <<own_ship, subs>>
    /\ UNCHANGED <<source, navdata, service, watchVars>>

-------------------------------------------------------------------------------
\* Mutant: the flag goes up before the coordinates are there.
StoreFlagFirst ==
    /\ writer # Idle
    /\ \/ /\ writer.stage = "lat"
          /\ valid' = TRUE
          /\ writer' = [writer EXCEPT !.stage = "lon"]
          /\ UNCHANGED <<lat, lon>>
       \/ /\ writer.stage = "lon"
          /\ lat' = writer.fix
          /\ writer' = [writer EXCEPT !.stage = "valid"]
          /\ UNCHANGED <<lon, valid>>
       \/ /\ writer.stage = "valid"
          /\ lon' = writer.fix
          /\ writer' = Idle
          /\ UNCHANGED <<lat, valid>>
    /\ UNCHANGED <<fixes, reader, connVars, watchVars>>

\* set_position, store by store.
Store ==
    /\ writer # Idle
    /\ \/ /\ writer.stage = "lat"
          /\ lat' = writer.fix
          /\ writer' = [writer EXCEPT !.stage = "lon"]
          /\ UNCHANGED <<lon, valid>>
       \/ /\ writer.stage = "lon"
          /\ lon' = writer.fix
          /\ writer' = [writer EXCEPT !.stage = "valid"]
          /\ UNCHANGED <<lat, valid>>
       \/ /\ writer.stage = "valid"
          /\ valid' = TRUE
          /\ writer' = Idle
          /\ UNCHANGED <<lat, lon>>
    /\ UNCHANGED <<fixes, reader, connVars, watchVars>>

\* get_position and get_radar_position, load by load.  A finished reading stays
\* to be looked at until the next one.
Load ==
    /\ \/ /\ reader.stage \in {"idle", "done"}
          /\ valid
          /\ reader' = [stage |-> "lat", lat |-> 0, lon |-> 0,
                        from |-> IF writer = Idle THEN Len(fixes) ELSE writer.fix - 1,
                        alone |-> writer = Idle]
       \/ /\ reader.stage = "lat"
          /\ reader' = [reader EXCEPT !.stage = "lon", !.lat = lat]
       \/ /\ reader.stage = "lon"
          /\ reader' = [reader EXCEPT !.stage = "done", !.lon = lon]
    /\ UNCHANGED <<fixes, writer, lat, lon, valid, connVars, watchVars>>

NavNext ==
    \/ ServiceChanges
    \/ find_service
    \/ ServiceResolved
    \/ SearchAgain
    \/ NoMdns
    \/ ConnectionCloses
    \/ NavShutdown
    \/ Greeting
    \/ \E v \in Vessels : Line(v)
    \/ Store
    \/ Load

\* What the task does of its own accord.
NavGoesOn == find_service \/ Store \/ (shutdown /\ ConnectionCloses) \/ NavShutdown

-------------------------------------------------------------------------------
\* A reading that no set_position overlaps is the last fix; one that is
\* overlapped may combine two fixes, but neither coordinate is older than the
\* fix there was when the reading began (set_position and get_position, which
\* make three atomic accesses each).  Every fix is own ship's, over any number of
\* connections to servers that send what they are asked for (parse_signalk, whose
\* first context is taken for own ship; a UDP sender is not asked and is left
\* out).
PositionIsOurs ==
    /\ reader.stage = "done" =>
           /\ reader.lat >= reader.from /\ reader.lon >= reader.from
           /\ reader.lat >= 1 /\ reader.lon >= 1
           /\ reader.alone => reader.lat = reader.from /\ reader.lon = reader.from
    /\ source.how # "udp" => /\ own_ship \in {Own, None}
                             /\ \A i \in 1 .. Len(fixes) : fixes[i] = Own
                             /\ Own \notin ais

\* With a TCP address given, navigation data comes back after any number of
\* lost connections, once the server stays up (find_tcp_service).
NavReconnects ==
    (source.how = "tcp" /\ <>[](service /\ ~shutdown)) => []<>(navdata = "receive")
===============================================================================
