------------------------------- MODULE Ranges -------------------------------
(***************************************************************************)
(* The range of a radar: the list that clients zoom through, made from the *)
(* radar's own ranges and the units chosen, the command that asks for a    *)
(* range, and the report with which the radar answers.                     *)
(*                                                                         *)
(* A distance is in metres.  A list of ranges is the set of its distances, *)
(* for the code sorts every list and no table has a distance twice.  The   *)
(* answer of the radar is taken in the step of the request.                *)
(***************************************************************************)
EXTENDS Integers, Sequences, FiniteSets, FiniteSetsExt

CONSTANTS Dials     \* the radars whose range is turned

FurunoDials == {"DRS_NXT", "DRS_NXT_EXTENDED", "FAR", "DRS4W", "DRS"}
RaymarineDials == {"quantum", "rd"}

ASSUME DialsAssumption ==
    Dials \subseteq FurunoDials \cup RaymarineDials \cup {"navico", "emulator", "garmin", "hd"}

VARIABLES
    dial,           \* the radar
    wire,           \* its range, as <<number, unit>> of its own
    units,          \* the control RangeUnits
    valid_values,   \* the list that the control Range offers
    range_value,    \* the value of Range
    asked           \* ghost: the range a client chose, 0 when others have since

rangeVars == <<dial, wire, units, valid_values, range_value, asked>>

-----------------------------------------------------------------------------
near(a, b) == a % b \in {0, 1, b - 1}

\* Mutant: without the special case of 0.125 km.
MetricByMultiples(v) ==
    near(v, IF v <= 100 THEN 25 ELSE IF v <= 750 THEN 50 ELSE 500)

metric(v) ==
    \/ v = 125
    \/ near(v, IF v <= 100 THEN 25 ELSE IF v <= 750 THEN 50 ELSE 500)

Ranges(S) ==
    [metric   |-> {v \in S : metric(v)},
     nautical |-> {v \in S : ~metric(v)},
     mixed    |-> {v \in S : IF metric(v) THEN v <= 1000 ELSE v > 1500}]

\* The position of a distance, from 0, and the distance at a position.
Position(S, v) == Cardinality({r \in S : r < v})
get_distance(S, index) ==
    IF index < Cardinality(S) THEN CHOOSE r \in S : Position(S, r) = index ELSE 0

NAUTICAL_MILE == 1852

ALL_POSSIBLE_NAUTICAL_RANGES ==
    {57, 115, 231, 463, 926, 1389, NAUTICAL_MILE + 926}
        \cup {NAUTICAL_MILE * n :
                n \in {1, 2, 3, 4, 6, 8, 12, 16, 24, 32, 36, 40, 48, 64, 72, 96, 120}}

ALL_POSSIBLE_METRIC_RANGES ==
    {50, 75, 100, 250, 500, 750, 1000, 1500}
        \cup {1000 * n : n \in {2, 3, 4, 6, 8, 12, 16, 24, 36, 48, 64, 72, 96, 120}}

from_range(min, max) ==
    {d \in ALL_POSSIBLE_METRIC_RANGES \cup ALL_POSSIBLE_NAUTICAL_RANGES : d >= min /\ d <= max}

-----------------------------------------------------------------------------
(* Furuno: a slot number and a unit on the wire. *)

WIRE_UNIT_NM == 0
WIRE_UNIT_KM == 1

WIRE_INDEX_TABLE ==
    <<<<21, 116>>, <<0, 231>>, <<1, 463>>, <<2, 926>>, <<3, 1389>>, <<4, 1852>>, <<5, 2778>>,
      <<6, 3704>>, <<7, 5556>>, <<8, 7408>>, <<9, 11112>>, <<10, 14816>>, <<11, 22224>>,
      <<12, 29632>>, <<13, 44448>>, <<14, 59264>>, <<19, 66672>>, <<15, 88896>>,
      <<20, 118528>>, <<16, 133344>>, <<17, 177792>>, <<18, 222240>>>>

WIRE_INDEX_TABLE_KM ==
    <<<<0, 125>>, <<1, 250>>, <<2, 500>>, <<3, 750>>, <<4, 1000>>, <<5, 1500>>, <<6, 2000>>,
      <<7, 3000>>, <<8, 4000>>, <<9, 6000>>, <<10, 8000>>, <<11, 12000>>, <<12, 16000>>,
      <<13, 24000>>, <<14, 32000>>, <<19, 36000>>, <<15, 48000>>, <<20, 64000>>,
      <<16, 72000>>, <<17, 96000>>, <<18, 120000>>>>

TableOf(unit) == IF unit = WIRE_UNIT_KM THEN WIRE_INDEX_TABLE_KM ELSE WIRE_INDEX_TABLE

Metres(table) == {table[i][2] : i \in DOMAIN table}

\* The entry that is nearest; the first of several, as min_by_key has it.
lookup_wire_index(table, meters) ==
    LET Off(i) == IF table[i][2] < meters THEN meters - table[i][2] ELSE table[i][2] - meters
        best == CHOOSE i \in DOMAIN table :
                   \A j \in DOMAIN table : Off(i) < Off(j) \/ (Off(i) = Off(j) /\ i <= j)
    IN  table[best][1]

wire_index_to_meters_for_unit(index, unit) ==
    LET table == TableOf(unit)
    IN  table[CHOOSE i \in DOMAIN table : table[i][1] = index][2]

wire_unit_for_meters(meters) ==
    IF meters \in Metres(WIRE_INDEX_TABLE_KM) /\ metric(meters) THEN WIRE_UNIT_KM ELSE WIRE_UNIT_NM

\* The tables of each model, as what they leave out of the wire's.
get_ranges_by_model(model) ==
    LET UpTo(table, max) == {m \in Metres(table) : m <= max}
        Nm(max) == UpTo(WIRE_INDEX_TABLE, max)
        Km(max) == UpTo(WIRE_INDEX_TABLE_KM, max)
    IN  CASE model = "DRS_NXT_EXTENDED" -> Nm(177792) \cup Km(96000)
          [] model = "DRS_NXT" -> Nm(88896) \cup Km(64000)
          [] model = "FAR" -> (Nm(177792) \ {116, 66672, 118528, 133344})
                                \cup (Km(96000) \ {36000, 64000, 72000})
          [] model = "DRS4W" -> (Nm(44448) \ {116}) \cup Km(24000)
          [] model = "DRS" -> Nm(66672) \cup Km(96000)

-----------------------------------------------------------------------------
\* Garmin HD has a table in the code.
hd_ranges ==
    {250, 500, 750, 1500, 232, 463, 926, 1389, 2778}
        \cup {1000 * n : n \in {1, 2, 3, 4, 6, 8, 12, 16, 24, 36, 48, 64}}
        \cup {NAUTICAL_MILE * n : n \in {1, 2, 3, 4, 6, 8, 12, 16, 24, 36, 48}}

\* What radars say of themselves: a Garmin xHD in metres, a Raymarine in
\* thousandths of a mile, from the nearest range to the farthest.
XhdTable ==
    {231, 463, 926, 1389, 2778}
        \cup {NAUTICAL_MILE * n : n \in {1, 2, 3, 4, 6, 8, 12, 16, 24, 36, 48}}
RaymarineTable(radar) ==
    {125, 250, 500, 750, 1500} \cup {1000 * n : n \in {1, 2, 3, 4, 6, 8, 12, 16, 24}}
        \cup (IF radar = "quantum" THEN {62} ELSE {36000, 48000, 72000})

initial_ranges(radar) == {(r * 1852) \div 1000 : r \in RaymarineTable(radar)}

RangesOf(radar) ==
    CASE radar \in FurunoDials -> get_ranges_by_model(radar)
      [] radar \in RaymarineDials -> initial_ranges(radar)
      [] radar = "hd" -> hd_ranges
      [] radar = "garmin" -> XhdTable
      [] OTHER -> from_range(50, 88896)

\* Garmin and Raymarine have no control RangeUnits: nautical it is.
UnitsOf(radar) ==
    CASE radar \in FurunoDials -> 0 .. 1
      [] radar \in {"navico", "emulator"} -> 0 .. 2
      [] OTHER -> {0}

\* An empty list is not taken over.
update_valid_ranges(radar, range_units, before) ==
    LET ranges == Ranges(RangesOf(radar))
        filtered == CASE range_units = 0 -> ranges.nautical
                      [] range_units = 1 -> ranges.metric
                      [] OTHER -> ranges.mixed
    IN  IF filtered = {} THEN before ELSE filtered

-----------------------------------------------------------------------------
\* Raymarine: the position of the first range that is as far.
IndexOfRange(radar, value) ==
    LET all == RangesOf(radar)
    IN  IF value < Cardinality(all) THEN value ELSE Position(all, value)

set_range(radar, value) ==
    CASE radar \in FurunoDials ->
            LET unit == wire_unit_for_meters(value)
            IN  <<lookup_wire_index(TableOf(unit), value), unit>>
      [] radar \in RaymarineDials -> <<IndexOfRange(radar, value), 0>>
      [] radar = "navico" -> <<value * 10, 0>>
      [] radar = "hd" -> <<IF value = 0 THEN 0 ELSE value - 1, 0>>
      [] OTHER -> <<value, 0>>

\* The report, in metres.
reported_range(radar, w) ==
    CASE radar \in FurunoDials -> wire_index_to_meters_for_unit(w[1], w[2])
      [] radar \in RaymarineDials -> get_distance(RangesOf(radar), w[1])
      [] radar = "navico" -> w[1] \div 10
      [] radar = "hd" -> w[1] + 1
      [] OTHER -> w[1]

\* The radar itself, which knows no lists but its own.
DeviceRange(radar, w) ==
    IF radar \in RaymarineDials
    THEN (get_distance(RaymarineTable(radar), w[1]) * 1852) \div 1000
    ELSE reported_range(radar, w)

\* Range is set first, and not beyond the list as it was; a Furuno's RangeUnits
\* follow, and the list with them.
process_range_report(w) ==
    LET meters == reported_range(dial, w)
        unit == IF dial \in FurunoDials THEN w[2] ELSE units
    IN  /\ wire' = w
        /\ range_value' = IF meters < Min(valid_values) \/ meters > Max(valid_values)
                          THEN range_value ELSE meters
        /\ units' = unit
        /\ valid_values' = update_valid_ranges(dial, unit, valid_values)

-----------------------------------------------------------------------------
\* The first report has come.
RangesInit ==
    /\ dial \in Dials
    /\ units = 0
    /\ valid_values = update_valid_ranges(dial, 0, {})
    /\ range_value = Min(valid_values)
    /\ wire = set_range(dial, range_value)
    /\ asked = 0

\* A client chooses from the list; others are refused.
SetRange(value) ==
    /\ process_range_report(set_range(dial, value))
    /\ asked' = value
    /\ UNCHANGED dial

\* Furuno: the current range goes out again in the new unit.  Elsewhere the
\* units are the server's alone.
SetRangeUnits(value) ==
    /\ IF dial \in FurunoDials
       THEN process_range_report(<<lookup_wire_index(TableOf(value), range_value), value>>)
       ELSE /\ units' = value
            /\ valid_values' = update_valid_ranges(dial, value, valid_values)
            /\ UNCHANGED <<wire, range_value>>
    /\ asked' = 0
    /\ UNCHANGED dial

\* Somebody at another display turns the radar to one of its ranges.
TurnedElsewhere(value) ==
    /\ process_range_report(set_range(dial, value))
    /\ asked' = 0
    /\ UNCHANGED dial

RangesNext ==
    \/ \E r \in valid_values : SetRange(r)
    \/ \E u \in UnitsOf(dial) : SetRangeUnits(u)
    \/ \E r \in RangesOf(dial) : TurnedElsewhere(r)

-----------------------------------------------------------------------------
\* No step of the zoom is dead.  Whatever units were chosen and whoever turned
\* the radar before, a range that a client takes from the list is the one the
\* radar goes to and the one shown, and the list still has it; the units in
\* which a Furuno's spokes are read are the radar's.
RangeIsReached ==
    /\ asked # 0 =>
          /\ range_value = asked
          /\ DeviceRange(dial, wire) = asked
          /\ asked \in valid_values
    /\ dial \in FurunoDials => units = wire[2]
=============================================================================
