------------------------------- MODULE Trails -------------------------------
(***************************************************************************)
(* Target trails: TrailBuffer remembers, for each place of the picture, how *)
(* many revolutions ago it last held a return, and paints what is empty now *)
(* in the colours of the legend's history.  Relative trails are kept by the *)
(* angle to the bow; true trails on a map around the ship, by the bearing.  *)
(*                                                                         *)
(* One spoke is followed: the first of the revolution or another one.      *)
(* The map has one dimension here, north and south of the ship: longitude  *)
(* is handled as latitude is.  The ship's position is in halves of a pixel.*)
(* All spokes have the same length, so that zoom_true_trails is not called.*)
(* TrailBuffer keeps the legend it was made with, which is taken to be the *)
(* one that clients have.                                                  *)
(***************************************************************************)
EXTENDS Integers, Sequences, FiniteSets, SequencesExt

CONSTANTS
    SpokeCells,     \* pixels of a spoke
    MaxSpokeLen,    \* max_spoke_len
    Margin,         \* MARGIN_I16: pixels of the map around the picture
    HistoryColors,  \* BLOB_HISTORY_COLORS
    RelativeSize,   \* 2^16: the values of a relative trail
    TrueSize,       \* 2^8: those of a true trail
    Revolutions,    \* what trail_length_ms / rotation_speed_ms may be
    Scales,         \* ranges
    Places,         \* positions of the ship
    MaxSpokes       \* bound: spokes received

ASSUME TrailsAssumption ==
    /\ SpokeCells \in 2 .. MaxSpokeLen /\ Margin \in Nat \ {0}
    /\ HistoryColors \in Nat \ {0} /\ RelativeSize \in Nat /\ TrueSize \in Nat
    /\ Revolutions \subseteq Nat /\ 0 \in Revolutions /\ MaxSpokes \in Nat
    /\ Scales \subseteq Nat \ {0} /\ Places \subseteq Nat

Cells == 0 .. MaxSpokeLen - 1
Half == MaxSpokeLen + Margin            \* trail_size / 2
Rows == -Half .. Half - 1
NoPlace == -1

\* The part of a legend that trails depend on; 0 for no Doppler colours.
PlainLegend == [strong_return |-> 2, doppler_approaching |-> 0, history_start |-> 3]
DopplerLegend == [strong_return |-> 2, doppler_approaching |-> 3, history_start |-> 5]

VARIABLES
    range,          \* of the radar
    angle,          \* of the spoke: 0 ahead, 1 astern
    navigation,     \* the ship's position: get_radar_position
    trails,         \* TrailBuffer
    painted,        \* the last spoke: as received and as sent to clients
    relative_age,   \* ghost: revolutions since a return, or Never, or Unsure
    true_age,       \* ghost: the same of the map
    spokes          \* how many were received

trailVars == <<range, angle, navigation, trails, painted, relative_age, true_age, spokes>>

NoSpoke == [raw |-> <<>>]
Never == -1
Unsure == -2
Untouched(S) == [s \in S |-> Never]

compute_minimal_legend_value(legend, doppler_only) ==
    IF doppler_only /\ legend.doppler_approaching # 0 THEN legend.doppler_approaching
    ELSE legend.strong_return

TrailsInit ==
    /\ range = CHOOSE r \in Scales : \A q \in Scales : r <= q
    /\ angle \in {0, 1}
    /\ navigation = NoPlace
    /\ \E legend \in {PlainLegend, DopplerLegend} :
       trails = [legend |-> legend, motion_true |-> FALSE, position |-> 0,
                 position_difference |-> 0, position_offset |-> 0,
                 true_trails |-> [x \in Rows |-> 0],
                 relative_trails |-> [r \in Cells |-> 0],
                 max_trail_value |-> 0, previous_range |-> 0, have_heading |-> FALSE,
                 minimal_legend_value |-> compute_minimal_legend_value(legend, FALSE)]
    /\ painted = NoSpoke
    /\ relative_age = Untouched(Cells)
    /\ true_age = Untouched(Rows)
    /\ spokes = 0

-----------------------------------------------------------------------------
(* The picture.  t is a TrailBuffer. *)

clear(t) == [t EXCEPT !.true_trails = [x \in Rows |-> 0],
                      !.relative_trails = [r \in Cells |-> 0]]

\* Mutant: a colour of the history counts as a return.
IsReturnOrHistory(t, v) == v >= t.minimal_legend_value

IsReturn(t, v) == v >= t.minimal_legend_value /\ v < t.legend.history_start

\* What becomes of the count of a place: it wraps to nothing.
NextCount(t, v, count, size) ==
    IF IsReturn(t, v) THEN 1 ELSE IF count > 0 THEN (count + 1) % size ELSE 0

\* The colour of a count, a product of integers of the given size.
Colour(t, count, max, size) ==
    LET index == ((count * HistoryColors) % size) \div max
    IN  t.legend.history_start - 1
            + (IF index >= HistoryColors THEN HistoryColors ELSE IF index < 1 THEN 1 ELSE index)

\* shift_image_lat_to_center.  Moving north, the rows at the end are not cleared:
\* the slice to be filled with zeros starts after its end.
shift_image_to_center(t) ==
    LET n == t.position_offset
    IN  IF n >= Margin \/ n <= -Margin THEN clear(t)
        ELSE [t EXCEPT !.position_offset = 0,
                !.true_trails = [x \in Rows |->
                    IF x + n \in Rows THEN t.true_trails[x + n]
                    ELSE IF n > 0 THEN t.true_trails[x] ELSE 0]]

WholePixels(halves) == IF halves >= 0 THEN halves \div 2 ELSE -((-halves) \div 2)

update_trail_position(t0) ==
    LET t == IF t0.position_offset >= Margin \/ t0.position_offset <= -Margin
             THEN shift_image_to_center(t0) ELSE t0
        moved == navigation - t.position + t.position_difference
        shift == WholePixels(moved)
        there == [t EXCEPT !.position = navigation, !.position_difference = moved - 2 * shift]
        total == there.position_offset + shift
        room == IF total >= Margin \/ total <= -Margin THEN shift_image_to_center(there) ELSE there
    IN  IF navigation = NoPlace \/ navigation = t.position THEN t
        ELSE IF shift >= Margin \/ shift <= -Margin THEN clear(there)
        ELSE [room EXCEPT !.position_offset = @ + shift]

\* get_point_int: the row of a pixel, ahead or astern.  The centre of the map
\* stays where it is: true_trails_offset is never set.
RowOf(bearing, r) == IF bearing = 0 THEN r ELSE -r

\* There are no trails on the range circle.
update_true_trails(t0, bearing, data) ==
    LET t == update_trail_position(t0)
        max == t.max_trail_value % TrueSize
        onMap == 0 .. SpokeCells - 2
        count(r) == NextCount(t, data[r], t.true_trails[RowOf(bearing, r)], TrueSize)
        aged == [x \in Rows |->
                    IF \E r \in onMap : RowOf(bearing, r) = x
                    THEN count(CHOOSE r \in onMap : RowOf(bearing, r) = x)
                    ELSE t.true_trails[x]]
    IN  [buffer |-> [t EXCEPT !.true_trails = aged],
         data |-> [r \in DOMAIN data |->
            IF /\ r \in onMap /\ t.motion_true /\ data[r] = 0
               /\ count(r) > 0 /\ count(r) < max
            THEN Colour(t, count(r), max, TrueSize) ELSE data[r]]]

update_relative_trails(t, data) ==
    LET max == t.max_trail_value % RelativeSize
        trail == [r \in Cells |->
                    IF r \in DOMAIN data
                    THEN NextCount(t, data[r], t.relative_trails[r], RelativeSize) ELSE 0]
    IN  [buffer |-> [t EXCEPT !.relative_trails = trail],
         data |-> [r \in DOMAIN data |->
            IF ~t.motion_true /\ data[r] <= 1 /\ trail[r] > 0 /\ trail[r] < max
            THEN Colour(t, trail[r], max, RelativeSize) ELSE data[r]]]

\* Pixel by pixel.  index_prev is not reset for a new spoke: all but the first
\* start where the one before has ended.
zoom_relative_trails(t) ==
    LET IndexNew(j) == (j * t.previous_range) \div range
        fits == {j \in Cells : IndexNew(j) < MaxSpokeLen}
        pixel(acc, j) ==
            [index_prev |-> IndexNew(j) + 1,
             trail |-> IF t.relative_trails[j] = 0 THEN acc.trail
                       ELSE [k \in Cells |-> IF k \in acc.index_prev .. IndexNew(j)
                                            THEN t.relative_trails[j] ELSE acc.trail[k]]]
        start == [index_prev |-> IF angle = 0 THEN 0 ELSE IndexNew(Cardinality(fits) - 1) + 1,
                  trail |-> [r \in Cells |-> 0]]
    IN  [t EXCEPT !.relative_trails =
            FoldLeft(pixel, start, [i \in 1 .. Cardinality(fits) |-> i - 1]).trail]

\* With trails off, or before the first revolution, nothing is remembered.
TrailsOff(t) == t.max_trail_value = 0

\* bearing is that of the spoke, or -1.
update_trails(t0, bearing, data) ==
    LET zoomed == IF t0.previous_range \notin {0, range} THEN zoom_relative_trails(t0)
                  ELSE t0
        t == [zoomed EXCEPT !.previous_range = range, !.have_heading = bearing # -1]
        onMap == IF bearing = -1 THEN [buffer |-> t, data |-> data]
                 ELSE update_true_trails(t, bearing, data)
    IN  IF TrailsOff(t) THEN [buffer |-> t, data |-> data]
        ELSE update_relative_trails(onMap.buffer, onMap.data)

-----------------------------------------------------------------------------
(* The steps *)

\* Ages by the radar's own picture; what is moved or zoomed is not followed.
OlderBy(t, v, age) ==
    IF v >= t.minimal_legend_value THEN 0
    ELSE IF age \in {Never, Unsure} THEN age ELSE age + 1

Blurred(ages) == IF \A x \in DOMAIN ages : ages[x] = Never THEN ages
                 ELSE [x \in DOMAIN ages |-> Unsure]

Spoke(heading, data) ==
    LET bearing == IF heading = -1 THEN -1 ELSE (angle + heading) % 2
        result == update_trails(trails, bearing, data)
        zooms == trails.previous_range \notin {0, range}
        located == ~TrailsOff(trails) /\ bearing # -1
        moves == located /\ navigation \notin {NoPlace, trails.position}
        jump == moves /\ WholePixels(navigation - trails.position + trails.position_difference)
                            \notin -Margin + 1 .. Margin - 1
        Before(ages, unclear) ==
            IF jump THEN Untouched(DOMAIN ages) ELSE IF unclear THEN Blurred(ages) ELSE ages
        relative == Before(relative_age, zooms)
        map == Before(true_age, zooms \/ moves)
    IN  /\ spokes' = spokes + 1
        /\ trails' = result.buffer
        /\ painted' = [raw |-> data, data |-> result.data, bearing |-> bearing]
        /\ relative_age' =
              IF TrailsOff(trails) THEN relative
              ELSE [r \in Cells |-> IF r \in DOMAIN data
                                     THEN OlderBy(trails, data[r], relative[r]) ELSE Never]
        /\ true_age' =
              IF ~located THEN map
              ELSE [x \in Rows |->
                        IF \E r \in 0 .. SpokeCells - 2 : RowOf(bearing, r) = x
                        THEN OlderBy(trails, data[RowOf(bearing, x)], map[x]) ELSE map[x]]
        /\ UNCHANGED <<range, angle, navigation>>

\* The spokes a radar sends: an empty one, one with an echo, one full of echoes.
Echoes ==
    {[r \in 0 .. SpokeCells - 1 |-> IF r = 1 THEN v ELSE 0] :
        v \in {w \in 0 .. 3 : w < trails.legend.history_start}}
            \cup {[r \in 0 .. SpokeCells - 1 |-> 2]}

Command(t) ==
    /\ trails' = t /\ painted' = NoSpoke
    /\ UNCHANGED <<range, angle, navigation, spokes>>

ClearTrails ==
    /\ Command(clear(trails))
    /\ relative_age' = Untouched(Cells)
    /\ true_age' = Untouched(Rows)

\* set_relative_trails_length, and set_rotation_speed after a revolution.
SetTrailLength ==
    /\ \E n \in Revolutions : Command([trails EXCEPT !.max_trail_value = n])
    /\ UNCHANGED <<relative_age, true_age>>

set_doppler_trail_only ==
    /\ \E only \in BOOLEAN : Command([trails EXCEPT
            !.minimal_legend_value = compute_minimal_legend_value(trails.legend, only)])
    /\ UNCHANGED <<relative_age, true_age>>

\* True motion is refused without a heading or a position.
set_trails_mode ==
    /\ \/ trails.motion_true /\ Command([trails EXCEPT !.motion_true = FALSE])
       \/ /\ trails.have_heading /\ navigation # NoPlace
          /\ Command([trails EXCEPT !.motion_true = TRUE])
    /\ UNCHANGED <<relative_age, true_age>>

ShipMoves ==
    /\ navigation' \in Places \ {navigation}
    /\ painted' = NoSpoke
    /\ UNCHANGED <<range, angle, trails, relative_age, true_age, spokes>>

\* The radar goes to another range.
ChangeRange ==
    /\ trails.previous_range = range
    /\ range' \in Scales \ {range}
    /\ painted' = NoSpoke
    /\ UNCHANGED <<angle, navigation, trails, relative_age, true_age, spokes>>

TrailsNext ==
    /\ spokes < MaxSpokes
    /\ \/ \E heading \in {-1, 0, 1}, data \in Echoes :
             Spoke(heading, data)
       \/ ClearTrails \/ SetTrailLength \/ set_doppler_trail_only \/ set_trails_mode
       \/ ShipMoves \/ ChangeRange

-----------------------------------------------------------------------------

\* The age of what is under a pixel of the last spoke, in the mode that is set.
AgeAt(r) ==
    IF ~trails.motion_true THEN relative_age[r]
    ELSE IF painted.bearing = -1 \/ r = SpokeCells - 1 THEN Never
    ELSE true_age[RowOf(painted.bearing, r)]

Blank(v) == v = 0 \/ (v = 1 /\ ~trails.motion_true)

\* A spoke is sent as it was received, but for the blank pixels where a return
\* was seen less than the chosen number of revolutions ago; they have a colour of
\* the history, and the older the return the later the colour (update_trails): a
\* trail is never itself taken for a return, in whatever order spokes, headings,
\* switches between true and relative motion and the other commands come, and an
\* empty picture stays empty when the range changes.  The map never needs more
\* room than its margin.  The exceptions: the colours of counts whose product does
\* not fit (true trails of more than eight revolutions), and true trails while
\* the ship moves, or trails of another range, of which only "blank" is known.
TrailsAreExact ==
    /\ trails.position_offset \in -Margin + 1 .. Margin - 1
    /\ painted # NoSpoke =>
        LET max == trails.max_trail_value
            size == IF trails.motion_true THEN TrueSize ELSE RelativeSize
            history == trails.legend.history_start
                         .. trails.legend.history_start + HistoryColors - 1
            Trail(r) == painted.data[r] \in history
        IN  \A r \in 0 .. SpokeCells - 1 :
                /\ Trail(r) => Blank(painted.raw[r]) /\ AgeAt(r) # Never
                /\ ~Trail(r) => painted.data[r] = painted.raw[r]
                /\ AgeAt(r) # Unsure /\ max < size =>
                      (Trail(r) <=> Blank(painted.raw[r]) /\ AgeAt(r) \in 1 .. max - 2)
                /\ \A q \in 0 .. SpokeCells - 1 :
                      /\ Trail(r) /\ Trail(q) /\ AgeAt(r) \in 1 .. AgeAt(q)
                      /\ (max - 1) * HistoryColors < size
                      => painted.data[r] <= painted.data[q]
=============================================================================
