------------------------------ MODULE Headings ------------------------------
(***************************************************************************)
(* The heading of the ship, and the bearing of every spoke.  A sensor sets *)
(* HEADING_TRUE; a radar gives each spoke its bearing from the heading it  *)
(* sends itself or else from HEADING_TRUE, and writes the heading of each  *)
(* spoke back to HEADING_TRUE, which all radars and clients share.         *)
(*                                                                         *)
(* A revolution has Revolution units.  The arithmetic is exact; in the     *)
(* code's floats the heading of a whole spoke may come out a spoke less.   *)
(***************************************************************************)
EXTENDS Integers

CONSTANTS
    HeadingRadars,  \* radars to choose from
    Courses         \* headings of the ship

Revolution == 480
NoHeading == -1

ASSUME HeadingsAssumption ==
    /\ HeadingRadars \subseteq {"navico", "emulator", "furuno", "garmin", "hd", "quantum"}
    /\ Courses \subseteq 0 .. Revolution - 1

VARIABLES
    fleet,          \* the radars of this ship
    ship,           \* its heading
    HEADING_TRUE,
    told,           \* ghost: the heading the last sensor said
    last            \* ghost: the last spoke with a bearing

headingVars == <<fleet, ship, HEADING_TRUE, told, last>>

\* spokes_per_revolution, in small numbers that divide each other when the
\* real ones do: 2048 of Navico (and 8192 of Furuno), 1440 and 720 of Garmin,
\* 250 of a Quantum.
SpokesOf(radar) ==
    CASE radar = "quantum" -> 5
      [] radar = "garmin" -> 12
      [] radar = "hd" -> 6
      [] OTHER -> 16

\* The heading on the wire of Navico, in twice as many steps as spokes, and of
\* Furuno, in as many.
RawSteps(radar) == IF radar \in {"navico", "emulator"} THEN 2 * SpokesOf(radar)
                   ELSE SpokesOf(radar)

InSteps(h, n) == (h * n) \div Revolution

\* extract_heading_value: a heading that is not flagged as true does not count.
extract_heading_value(raw, flagged) == IF flagged THEN raw ELSE NoHeading

\* What each brand passes to add_spoke.  Furuno takes HEADING_TRUE itself if the
\* radar has no heading; Garmin and Raymarine have none.
HeadingOf(radar, sends) ==
    CASE radar \in {"navico", "emulator"} ->
            extract_heading_value(InSteps(ship, RawSteps(radar)), sends)
      [] radar = "furuno" ->
            IF sends THEN InSteps(ship, RawSteps(radar))
            ELSE IF HEADING_TRUE = NoHeading THEN NoHeading
            ELSE InSteps(HEADING_TRUE, RawSteps(radar))
      [] radar \in {"garmin", "hd", "quantum"} -> NoHeading

\* Mutant: the heading of a radar is taken to be in spokes.
BearingInSpokes(spokes_per_revolution, angle, heading) ==
    CASE heading # NoHeading -> (heading + angle) % spokes_per_revolution
      [] heading = NoHeading /\ HEADING_TRUE # NoHeading ->
            (InSteps(HEADING_TRUE, spokes_per_revolution) + angle) % spokes_per_revolution
      [] OTHER -> NoHeading

\* The bearing of a spoke.
to_protobuf_spoke(spokes_per_revolution, angle, heading) ==
    CASE heading # NoHeading -> ((heading \div 2) + angle) % spokes_per_revolution
      [] heading = NoHeading /\ HEADING_TRUE # NoHeading ->
            (InSteps(HEADING_TRUE, spokes_per_revolution) + angle) % spokes_per_revolution
      [] OTHER -> NoHeading

HeadingsInit ==
    /\ fleet \in SUBSET HeadingRadars
    /\ ship \in Courses
    /\ HEADING_TRUE = NoHeading /\ told = NoHeading
    /\ last = [heading |-> NoHeading, bearing |-> 0, angle |-> 0]

Turn ==
    /\ ship' \in Courses \ {ship}
    /\ UNCHANGED <<fleet, HEADING_TRUE, told, last>>

\* set_heading_true, for Signal K or NMEA 0183.
SensorSpeaks ==
    /\ HEADING_TRUE' = ship /\ told' = ship
    /\ last' = [last EXCEPT !.heading = NoHeading]
    /\ UNCHANGED <<fleet, ship>>

\* add_spoke: bearing, and set_heading_true with the heading of the spoke.
AddSpoke(radar, angle, sends) ==
    /\ radar \in fleet
    /\ sends => radar \in {"navico", "emulator", "furuno"}
    /\ radar = "emulator" => sends
    /\ LET n == SpokesOf(radar)
           bearing == to_protobuf_spoke(n, angle, HeadingOf(radar, sends))
           heading == ((bearing - angle) % n) * (Revolution \div n)
       IN  IF bearing = NoHeading THEN UNCHANGED <<HEADING_TRUE, last>>
           ELSE /\ HEADING_TRUE' = heading
                /\ last' = [heading |-> heading, bearing |-> bearing, angle |-> angle]
    /\ told' = IF sends THEN ship ELSE told
    /\ UNCHANGED <<fleet, ship>>

HeadingsNext ==
    \/ Turn \/ SensorSpeaks
    \/ \E radar \in fleet, angle \in {0, 5}, sends \in BOOLEAN : AddSpoke(radar, angle, sends)

HeadingsSpec == HeadingsInit /\ [][HeadingsNext]_headingVars

-----------------------------------------------------------------------------

\* Units of a spoke of the coarsest radar.
Coarsest == CHOOSE u \in {Revolution \div SpokesOf(r) : r \in fleet} :
                \A r \in fleet : u >= Revolution \div SpokesOf(r)

\* "bearing ... offset from True North" (RadarMessage.proto): a spoke with a
\* bearing shows the heading that the last sensor said, truncated to a spoke of
\* one of the radars (to_protobuf_spoke, add_spoke).
BearingIsTrue ==
    last.heading # NoHeading => (told - last.heading) % Revolution < Coarsest

Divides(m, n) == n % m = 0

\* So it is on a ship without Furuno, if of any two radars the spokes of one
\* divide those of the other: the headings that radars write back for each
\* other, any number of spokes after the last word of a sensor, do not add up
\* to an error, and a radar that sends a true heading overrules HEADING_TRUE.
HeadingIsKept ==
    (/\ "furuno" \notin fleet
     /\ \A r, q \in fleet : \/ Divides(SpokesOf(r), SpokesOf(q))
                            \/ Divides(SpokesOf(q), SpokesOf(r))) => BearingIsTrue
=============================================================================
