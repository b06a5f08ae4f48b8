---------------------------- MODULE ControlValues ----------------------------
(***************************************************************************)
(* The numbers of a control: from a client's request to the command of a   *)
(* brand, and from the radar's report back to the value that clients see.  *)
(*                                                                         *)
(* A quantity is counted in thousandths of the unit on the wire (percent,  *)
(* degree, metre), whichever unit the program holds it in: to_si and       *)
(* from_si change the unit, not the quantity.  Two things they do change.  *)
(* The step 1.0 of a control held in radians is one radian, and a product  *)
(* of floats may fall just short of the whole number it stands for, so     *)
(* that a cast drops one (the input short).                                *)
(***************************************************************************)
EXTENDS Integers, Sequences, TLC

CONSTANTS
    Grain,          \* requests are multiples of this many thousandths
    ControlKinds    \* the controls asked for

VARIABLES ask       \* a request: [control, value, end, short], or a label
askVars == <<ask>>

\* Thousandths of a degree in a radian; its first three multiples, rounded up,
\* are those of the exact 57295.78, and no angle here is larger.
Radian == 57296

\* A cast of a float to an integer: towards zero.
Cast(n, d) == IF n >= 0 THEN n \div d ELSE -((-n) \div d)

\* The same, of a product that may have fallen short.
CastShort(n, d, short) ==
    IF short /\ n # 0 /\ n % d = 0
    THEN Cast(n, d) - (IF n > 0 THEN 1 ELSE -1)
    ELSE Cast(n, d)

\* f64::round: half away from zero.
Rounded(n, d) ==
    IF n >= 0 THEN (2 * n + d) \div (2 * d) ELSE -((2 * (-n) + d) \div (2 * d))

Clamp(n, low, high) == IF n < low THEN low ELSE IF n > high THEN high ELSE n

-----------------------------------------------------------------------------
(* Definitions of controls.  one is the quantity 1.0 in the control's own      *)
(* unit, scale the wire_scale_factor as a fraction, step 0 an absent one.      *)

new_numeric(min_value, max_value) ==
    [data_type |-> "Number", min |-> min_value * 1000, max |-> max_value * 1000,
     step |-> 1000, scale |-> <<1, 1>>, wire_offset |-> 0, one |-> 1000]

\* Unlike a number, a sector has no step by itself.
new_sector(min_value, max_value) ==
    [new_numeric(min_value, max_value) EXCEPT !.data_type = "Sector", !.step = 0]

new_zone(min_angle, max_angle) ==
    [new_numeric(min_angle, max_angle) EXCEPT !.data_type = "Zone", !.step = 0]

wire_scale_factor(item, num, den, with_step) ==
    [item EXCEPT !.scale = <<num, den>>,
                 !.step = IF with_step THEN (1000 * den) \div num ELSE @]

wire_scale_step(item, step) ==
    [item EXCEPT !.step = step,
                 !.scale = IF @ = <<1, 1>> THEN <<1000, step>> ELSE @]

wire_offset(item, offset) == [item EXCEPT !.wire_offset = offset]

\* Degrees are held in radians; metres, and their like, are what they are.
in_degrees(item) == [item EXCEPT !.one = Radian]

\* Garmin's own form of it, a scale factor of 180 / PI.
garmin_degrees(item, with_step) ==
    [item EXCEPT !.one = Radian, !.step = IF with_step THEN 1000 ELSE Radian]

\* set_wire_range: the difference becomes the scale.
set_wire_range(item, min, max) ==
    [item EXCEPT !.wire_offset = min, !.scale = <<max - min, 1>>]

\* A list of labels, each with its position for a number.
new_list(count) == [new_numeric(0, count - 1) EXCEPT !.data_type = "Enum"]

Bearing_alignment ==
    in_degrees(wire_offset(wire_scale_factor(new_numeric(-180, 180), 10, 1, TRUE), -1))

(* The controls of each brand, where its settings make them; one control stands *)
(* for those that are made and handled alike.                                  *)

navico_new ==
    [navico_forward |-> wire_scale_factor(new_numeric(-100, 100), 1000, 1, TRUE),
     navico_height  |-> wire_scale_step(wire_scale_factor(new_numeric(0, 60), 1000, 1, FALSE), 100),
     navico_bearing |-> Bearing_alignment,
     navico_gain    |-> wire_scale_factor(new_numeric(0, 100), 255, 100, FALSE)]

navico_update_when_model_known ==
    [navico_mode   |-> new_list(7),
     navico_sector |-> in_degrees(wire_offset(wire_scale_factor(new_sector(-180, 180), 10, 1, TRUE), -1)),
     navico_doppler_speed |-> [wire_scale_step(new_numeric(0, 15), 10) EXCEPT !.max = 15940]]

raymarine_new ==
    [quantum_bearing |-> Bearing_alignment,
     quantum_gain    |-> new_numeric(0, 100),
     quantum_sector  |-> in_degrees(wire_scale_step(new_sector(0, 359), 100)),
     quantum_curve   |-> new_numeric(1, 2),
     quantum_doppler |-> new_list(2),
     rd_bearing      |-> Bearing_alignment,
     rd_interference |-> new_list(6)]

raymarine_update_when_model_known ==
    [quantum_sea |-> wire_scale_factor(new_numeric(0, 100), 255, 1, FALSE)]

process_fixed_report == [rd_gain |-> set_wire_range(new_numeric(0, 100), 0, 255)]

furuno_new == [furuno_gain |-> new_numeric(0, 100)]

\* The rejection of interference has four levels on a FAR, two on an NXT.
furuno_update_when_model_known ==
    [furuno_sector    |-> in_degrees(wire_offset(new_sector(-180, 180), -1)),
     furuno_main_bang |-> new_numeric(0, 100),
     furuno_noise     |-> new_list(2),
     furuno_interference |-> new_list(2),
     far_interference |-> new_list(4),
     furuno_doppler   |-> new_list(3)]

garmin_new ==
    [garmin_gain    |-> new_numeric(0, 100),
     garmin_bearing |-> garmin_degrees(new_numeric(-180, 180), FALSE),
     garmin_sector  |-> garmin_degrees(new_sector(-180, 180), TRUE),
     garmin_sensitivity |-> wire_scale_factor(new_numeric(0, 100), 100, 1, FALSE),
     garmin_speed   |-> new_numeric(0, 10),
     garmin_doppler |-> new_list(3),
     garmin_hd_gain |-> new_numeric(0, 100)]

new_base == [guard_zone |-> in_degrees(new_zone(-180, 180))]

NavicoControls == navico_new @@ navico_update_when_model_known
RaymarineControls == raymarine_new @@ raymarine_update_when_model_known @@ process_fixed_report
FurunoControls == furuno_new @@ furuno_update_when_model_known
Item == NavicoControls @@ RaymarineControls @@ FurunoControls @@ garmin_new @@ new_base

-----------------------------------------------------------------------------
(* Control::set, set_sector and set_zone: a value from the wire.               *)

\* step_value.unwrap_or(1.0)
StepOf(item) == IF item.step = 0 THEN item.one ELSE item.step

\* Mutant: an angle past the maximum is not brought back.
FromWireUnwrapped(item, wire) ==
    ((wire - (IF item.wire_offset > 0 THEN item.wire_offset ELSE 0)) * 1000 * item.scale[2])
      \div item.scale[1]

\* Offset, scale and the range of an angle around zero (wire_offset -1).
FromWire(item, wire) ==
    LET offset == IF item.wire_offset > 0 THEN item.wire_offset ELSE 0
        value == ((wire - offset) * 1000 * item.scale[2]) \div item.scale[1]
    IN  IF item.wire_offset = -1 /\ value > item.max /\ value <= 2 * item.max
        THEN value - 2 * item.max ELSE value

\* The steps 0.1 and 1.0 are casts, any other one rounds.
Stepped(item, value) ==
    LET step == StepOf(item)
    IN  step * IF step = item.one \/ 10 * step = item.one
               THEN Cast(value, step) ELSE Rounded(value, step)

InRange(item, value) == item.min <= value /\ value <= item.max

\* A value out of range is TooLow or TooHigh, and the control keeps its own.
set(item, wire) ==
    LET value == FromWire(item, wire)
    IN  IF InRange(item, value) THEN {Stepped(item, value)} ELSE {}

set_sector(item, start, end) ==
    LET s == FromWire(item, start)
        e == FromWire(item, end)
    IN  IF InRange(item, s) /\ InRange(item, e)
        THEN {<<Stepped(item, s), Stepped(item, e)>>} ELSE {}

-----------------------------------------------------------------------------
(* The commands of the brands, and what their reports hand to set.             *)

scale_100_to_byte(v) == Clamp(Cast(v * 255, 100000), 0, 255)

mod_deci_degrees(a) == (a + 7200) % 3600

\* What set_control of each brand puts on the wire: a number, or a pair.
navico_set_control(control, v, short) ==
    CASE control = "navico_gain" -> scale_100_to_byte(v)
      [] control \in {"navico_bearing", "navico_sector"} -> mod_deci_degrees(Rounded(v, 100))
      [] control \in {"navico_height", "navico_forward"} -> CastShort(v, 1, short)
      [] control = "navico_doppler_speed" -> Clamp(Rounded(v, 10), 0, 1594)
      [] control = "navico_mode" -> IF v = 6000 THEN <<5, 1>> ELSE <<Cast(v, 1000), 0>>

quantum_set_control(control, v, short) ==
    CASE control \in {"quantum_bearing", "quantum_sector"} -> CastShort(v, 100, short)
      [] control = "quantum_curve" -> Cast(v, 1000) - 1
      [] control = "quantum_doppler" -> Cast(v, 1000) * 3
      [] control \in {"quantum_gain", "quantum_sea"} -> Cast(v, 1000)

rd_set_control(control, v, short) ==
    IF control = "rd_bearing" THEN CastShort(v, 100, short) ELSE scale_100_to_byte(v)

furuno_set_control(control, v, short) ==
    CASE control = "furuno_gain" -> Cast(v, 1000)
      [] control = "furuno_main_bang" -> (Cast(v, 1000) * 255) \div 100
      [] control = "furuno_sector" -> CastShort(v, 1000, short)
      [] control = "furuno_noise" -> IF v > 0 THEN 1 ELSE 0
      [] control \in {"furuno_interference", "far_interference"} -> IF v > 0 THEN 2 ELSE 0
      [] control = "furuno_doppler" -> IF v = 2000 THEN <<1, 1>> ELSE <<Cast(v, 1000), 0>>

\* set_gain and the other setters; a bearing and a sector go in 32nds of a degree.
garmin_set_control(control, v, short) ==
    CASE control = "garmin_gain" -> Clamp(Cast(v, 1000) * 100, 0, 10000)
      [] control = "garmin_sensitivity" -> Clamp(Cast(v, 1000) * 100, 0, 10000)
      [] control \in {"garmin_bearing", "garmin_sector"} -> CastShort(v, 1000, short) * 32
      [] control = "garmin_speed" -> Cast(v, 1000) * 2
      [] control = "garmin_doppler" -> IF v = 1000 THEN 2 ELSE IF v = 2000 THEN 1 ELSE 0
      [] control = "garmin_hd_gain" -> Clamp(Cast(v, 1000), 0, 100)

set_control(control, v, short) ==
    CASE control \in DOMAIN NavicoControls -> navico_set_control(control, v, short)
      [] control \in {"rd_bearing", "rd_interference", "rd_gain"} -> rd_set_control(control, v, short)
      [] control \in DOMAIN RaymarineControls -> quantum_set_control(control, v, short)
      [] control \in DOMAIN FurunoControls -> furuno_set_control(control, v, short)
      [] control \in DOMAIN garmin_new -> garmin_set_control(control, v, short)

\* The handlers of reports undo what is not undone by the control's scale.
set_halo_mode(mode, variant) == IF mode = 5 /\ variant = 1 THEN 6 ELSE mode

process_status_report(control, wire) ==
    CASE control = "quantum_curve" -> wire + 1
      [] control = "quantum_doppler" -> IF wire = 3 THEN 1 ELSE 0
      [] OTHER -> wire

furuno_process_report(control, wire) ==
    CASE control = "furuno_main_bang" -> (wire * 100) \div 255
      [] control \in {"furuno_interference", "far_interference"} -> IF wire = 2 THEN 1 ELSE 0
      [] control = "furuno_noise" -> IF wire = 1 THEN 1 ELSE 0
      [] control = "furuno_doppler" -> IF wire[1] = 0 THEN 0 ELSE IF wire[2] = 0 THEN 1 ELSE 2
      [] OTHER -> wire

garmin_process_report(control, wire) ==
    CASE control = "garmin_gain" -> wire \div 100
      [] control \in {"garmin_bearing", "garmin_sector"} -> Cast(wire, 32)
      [] control = "garmin_speed" -> wire \div 2
      [] control = "garmin_doppler" -> IF wire = 1 THEN 2 ELSE IF wire = 2 THEN 1 ELSE 0
      [] OTHER -> wire

Reported(control, wire) ==
    CASE control = "navico_mode" -> set_halo_mode(wire[1], wire[2])
      [] control \in DOMAIN RaymarineControls -> process_status_report(control, wire)
      [] control \in DOMAIN FurunoControls -> furuno_process_report(control, wire)
      [] control \in DOMAIN garmin_new -> garmin_process_report(control, wire)
      [] OTHER -> wire

\* A Furuno takes a start and a width, and reports them.
fill_blind_sector(start, end) ==
    <<start, IF end >= start THEN end - start ELSE 360 + end - start>>

\* What clients see once the radar has obeyed and reported: a set, empty if
\* the report was refused.  A zone is kept by the server, as it was asked for.
Shown(a) ==
    LET item == Item[a.control]
        Wire(v) == Reported(a.control, set_control(a.control, v, a.short))
    IN  CASE a.control = "guard_zone" -> {<<a.value, a.end>>}
          [] a.control = "furuno_sector" ->
                LET sent == fill_blind_sector(Wire(a.value), Wire(a.end))
                IN  set_sector(item, sent[1], (sent[1] + sent[2]) % 360)
          [] item.data_type = "Sector" -> set_sector(item, Wire(a.value), Wire(a.end))
          [] OTHER -> {<<v, 0>> : v \in set(item, Wire(a.value))}

-----------------------------------------------------------------------------
(* Labels: the descriptions of a list are a HashMap from index to label, and   *)
(* iterate in an order of their own.                                           *)

\* normalize_value: the position of the label in that order.
normalize_value(descriptions, label, order) ==
    (CHOOSE p \in DOMAIN order : descriptions[order[p]] = label) - 1

-----------------------------------------------------------------------------
Nothing == [control |-> "none", value |-> 0, end |-> 0, short |-> FALSE]

AskInit == ask = Nothing

\* The values a client may choose: it knows the minimum and the maximum.
Selectable(item) ==
    {v \in item.min .. item.max : v % (IF item.data_type = "Enum" THEN 1000 ELSE Grain) = 0}

Ask ==
    /\ ask = Nothing
    /\ \E c \in ControlKinds \ {"power"}, short \in BOOLEAN :
          \E v \in Selectable(Item[c]) :
          \E e \in IF Item[c].data_type \in {"Number", "Enum"} THEN {0} ELSE {v, Item[c].max - 1000, 0} :
              ask' = [control |-> c, value |-> v, end |-> e, short |-> short]

Power == [i \in 0 .. 3 |-> <<"Off", "Standby", "Transmit", "Preparing">>[i + 1]]

AskByLabel ==
    /\ ask = Nothing
    /\ "power" \in ControlKinds
    /\ \E label \in {Power[i] : i \in DOMAIN Power},
          order \in {f \in [1 .. 4 -> 0 .. 3] : \A i, j \in 1 .. 4 : i # j => f[i] # f[j]} :
          ask' = [control |-> "power", label |-> label,
                  number |-> normalize_value(Power, label, order)]

AskNext == Ask \/ AskByLabel

\* How far two values are apart; angles on the circle.
Apart(item, a, b) ==
    LET d == IF a > b THEN a - b ELSE b - a
    IN  IF item.one = Radian /\ 360000 - d < d /\ d <= 360000 THEN 360000 - d ELSE d

\* Controls whose scale or step is not that of their reports: they show a few
\* whole numbers only.
Coarse == {"quantum_sea", "rd_gain", "rd_interference", "furuno_sector", "far_interference",
           "garmin_bearing"}

\* What a client asks of a control is what it is shown once the radar has
\* obeyed and reported (set_control, then Control::set or set_sector): the
\* report is never refused as out of range, wrap-around of angles included,
\* the value is off by less than two steps, whatever the casts on the way drop,
\* and a label is the one asked for.  The controls in Coarse are the exceptions.
RequestIsShown ==
    ask.control \notin Coarse \cup {"none", "power"} =>
        LET item == Item[ask.control]
        IN  /\ Shown(ask) # {}
            /\ \A s \in Shown(ask) :
                  /\ Apart(item, s[1], ask.value) < 2 * StepOf(item)
                  /\ item.data_type = "Enum" => s[1] = ask.value
                  /\ item.data_type \in {"Sector", "Zone"} =>
                        Apart(item, s[2], ask.end) < 2 * StepOf(item)

\* "convert boolean and enums into numbers" (convert_to_wire_number): the
\* number of a label is the one the label stands for.  The code takes the
\* label's position in a HashMap instead.
LabelIsItsNumber ==
    ask.control = "power" => Power[ask.number] = ask.label
===============================================================================
