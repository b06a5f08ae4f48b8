----------------------------- MODULE Algorithms -----------------------------
(***************************************************************************)
(* The pure algorithms of the server, each on every small input, against   *)
(* what it is meant to compute: the merge of duplicate targets, the arc of *)
(* a blob, the sector of a zone, the index of a recording, the legend of a *)
(* radar with the table that maps the wire to it, the decoding of spokes   *)
(* and their bearings, the trails painted into them, the numbers of        *)
(* controls on the wire, and the ranges a client can choose from.  A       *)
(* behaviour is about one subject and builds one input step by step.       *)
(***************************************************************************)
EXTENDS Geometry, RecordedFile, Legend, SpokeFrames, Headings, ControlValues,
        Trails, Ranges

VARIABLES
    subject,    \* what the behaviour is about
    radar       \* parameters of a legend, and the Doppler mode of a receiver

inputs == <<geometryVars, file, radar>>
vars == <<subject, inputs, frameVars, headingVars, askVars, trailVars, rangeVars>>

Init ==
    /\ subject \in {"merge", "arc", "zone", "file", "legend", "frames", "headings",
                   "controls", "trails", "ranges"}
    /\ GeometryInit
    /\ RecordedFileInit
    /\ radar = [brand |-> "none", mode |-> "None", params |-> Params("None", 0, FALSE, 0)]
    /\ FramesInit
    /\ HeadingsInit
    /\ AskInit
    /\ TrailsInit
    /\ RangesInit
    /\ subject # "headings" => fleet = {} /\ ship = Min(Courses)
    /\ subject # "trails" => angle = 0 /\ trails.legend = PlainLegend
    /\ subject # "ranges" => dial = "hd"

-----------------------------------------------------------------------------
Place ==
    /\ \/ subject = "merge" /\ (AddTarget \/ MergeTargets)
       \/ subject = "arc" /\ Touch
       \/ subject = "zone" /\ SetSector
    /\ UNCHANGED <<file, radar>>

Write ==
    /\ subject = "file"
    /\ RecordedFileNext
    /\ UNCHANGED <<geometryVars, radar>>

\* The models: Doppler levels, rain class and intensities with which each
\* locator or receiver makes a legend, once the model is known.
Models ==
    {<<"navico", 0, FALSE, 16>>, <<"navico", 1, FALSE, 16>>,
     <<"garmin_hd", 0, FALSE, 2>>, <<"garmin_xhd", 0, FALSE, 128>>,
     <<"garmin_xhd", 4, FALSE, 128>>,
     <<"quantum", 0, FALSE, 128>>, <<"quantum", 1, FALSE, 128>>,
     <<"furuno", 1, FALSE, 252>>, <<"furuno", 16, TRUE, 252>>}

ChooseRadar ==
    /\ subject = "legend" /\ radar.brand = "none"
    /\ \E m \in Models, t \in {"None", "Trails", "Arpa"},
          mode \in {"None", "Both", "Approaching"} :
          /\ mode # "None" => m[2] > 0 /\ m # <<"furuno", 1, FALSE, 252>>
          /\ radar' = [brand |-> m[1], mode |-> mode,
                       params |-> Params(t, m[2], m[3], m[4])]
    /\ UNCHANGED <<geometryVars, file>>

Build ==
    /\ Place \/ Write \/ ChooseRadar
    /\ UNCHANGED <<subject, frameVars, headingVars, askVars, trailVars, rangeVars>>

Picture ==
    /\ subject = "frames"
    /\ FramesNext
    /\ UNCHANGED <<subject, inputs, headingVars, askVars, trailVars, rangeVars>>

Bearing ==
    /\ subject = "headings"
    /\ HeadingsNext
    /\ UNCHANGED <<subject, inputs, frameVars, askVars, trailVars, rangeVars>>

RequestControl ==
    /\ subject = "controls"
    /\ AskNext
    /\ UNCHANGED <<subject, inputs, frameVars, headingVars, trailVars, rangeVars>>

Paint ==
    /\ subject = "trails"
    /\ TrailsNext
    /\ UNCHANGED <<subject, inputs, frameVars, headingVars, askVars, rangeVars>>

TurnDial ==
    /\ subject = "ranges"
    /\ RangesNext
    /\ UNCHANGED <<subject, inputs, frameVars, headingVars, askVars, trailVars>>

Next == Build \/ Picture \/ Bearing \/ RequestControl \/ Paint \/ TurnDial

Spec == Init /\ [][Next]_vars

-----------------------------------------------------------------------------
(* The legend *)

\* What clients take a value of a pixel for.
PixelType(legend, v) ==
    CASE v \in 0 .. legend.pixel_colors - 1 -> "Normal"
      [] v \in legend.approaching -> "DopplerApproaching"
      [] v \in legend.receding -> "DopplerReceding"
      [] v \in legend.rain -> "DopplerRain"
      [] OTHER -> "Other"

\* What the radar means by a value on the wire, in its mode.
WireType(byte) ==
    CASE radar.brand = "navico" /\ radar.mode # "None" ->
            IF byte = 15 THEN "DopplerApproaching"
            ELSE IF byte = 14 /\ radar.mode = "Both" THEN "DopplerReceding" ELSE "Normal"
      [] radar.brand = "garmin_xhd" /\ radar.mode # "None" ->
            IF byte >= 248 THEN "DopplerReceding"
            ELSE IF byte >= 240 THEN "DopplerApproaching" ELSE "Normal"
      [] radar.brand = "quantum" /\ radar.params.levels > 0 /\ byte >= 254 ->
            IF byte = 255 THEN "DopplerApproaching" ELSE "DopplerReceding"
      [] radar.brand = "furuno" /\ radar.mode # "None" ->
            IF byte >= 192 \/ byte % 64 > 60 THEN "Unused"
            ELSE IF byte = 0 \/ byte \in 64 .. 127 THEN "Normal"
            ELSE IF byte < 64 THEN "DopplerRain" ELSE "DopplerApproaching"
      [] OTHER -> "Normal"

WireValues ==
    CASE radar.brand = "navico" -> 0 .. 15
      [] radar.brand = "garmin_hd" -> {0, 255}
      [] OTHER -> U8

Lookup(legend, byte) ==
    CASE radar.brand = "navico" -> navico_lookup(legend, radar.mode, byte)
      [] radar.brand = "garmin_hd" -> garmin_lookup(legend, FALSE, FALSE, byte)
      [] radar.brand = "garmin_xhd" ->
            garmin_lookup(legend, TRUE, radar.mode # "None", byte)
      [] radar.brand = "quantum" -> raymarine_lookup(legend, byte)
      [] OTHER -> IF radar.mode = "None" THEN furuno_lookup_off(legend, byte)
                  ELSE furuno_lookup_on(legend, byte)

\* The classes of a legend (default_legend) never overlap, leave no gap, fit
\* the 256 values of a byte, and its three thresholds are intensities in
\* order, whatever the model and the target mode.
LegendIsAPartition ==
    radar.brand # "none" =>
        LET legend == default_legend(radar.params)
            classes == <<0 .. legend.pixel_colors - 1, legend.static_background,
                         legend.approaching, legend.receding, legend.rain,
                         legend.history>>
        IN  /\ \A i, j \in DOMAIN classes : i # j => classes[i] \cap classes[j] = {}
            /\ UNION {classes[i] : i \in DOMAIN classes} = 0 .. legend.length - 1
            /\ legend.length - 1 \in U8
            /\ legend.medium_return <= legend.strong_return
            /\ legend.strong_return < legend.pixel_colors

\* "the legend that provides a lookup table for each byte of data in the spoke"
\* (RadarMessage.proto): the table of every brand takes each value on the wire
\* to an entry of the class the radar means, and within a class a stronger
\* echo never to a weaker entry (wire_to_legend); and the legend itself is
\* sound.  Two exceptions: the echoes of a Garmin HD are 255, past the end of its
\* legend, and the two strongest of a Quantum without Doppler are transparent.
LookupKeepsMeaning ==
    /\ LegendIsAPartition
    /\ radar.brand \notin {"none", "garmin_hd"} =>
        LET legend == default_legend(radar.params)
            lut == [b \in WireValues |-> Lookup(legend, b)]
        IN  \A b \in WireValues :
                IF WireType(b) = "Unused" THEN lut[b] = 0
                ELSE /\ PixelType(legend, lut[b]) = WireType(b)
                     /\ \A c \in WireValues :
                           \/ c < b \/ WireType(c) # WireType(b) \/ lut[b] <= lut[c]
                           \/ radar.brand = "quantum" /\ radar.params.levels = 0
                                /\ c >= 254
=============================================================================
