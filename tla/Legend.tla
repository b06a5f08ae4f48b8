------------------------------- MODULE Legend -------------------------------
(***************************************************************************)
(* The legend of a radar, which gives each of the 256 values of a pixel    *)
(* that clients see a meaning, and the tables with which each brand's      *)
(* receiver turns what is on the wire into such values.                    *)
(*                                                                         *)
(* A legend is made from its parameters: p.targets is "None", "Trails" or  *)
(* "Arpa", p.levels the Doppler levels per direction, p.rain whether there *)
(* is a class for rain, and p.pixels the intensities the radar sends.      *)
(* Colours are left out.                                                   *)
(***************************************************************************)
EXTENDS Integers, FiniteSets

BLOB_HISTORY_COLORS == 32
U8 == 0 .. 255

LesserU8(a, b) == IF a <= b THEN a ELSE b
GreaterU8(a, b) == IF a >= b THEN a ELSE b

Params(targets, levels, rain, pixels) ==
    [targets |-> targets, levels |-> levels, rain |-> rain, pixels |-> pixels]

RainLevels(p) == IF p.rain THEN p.levels ELSE 0

PixelColors(p) ==
    LesserU8(p.pixels, 255 - (IF p.targets # "None" THEN BLOB_HISTORY_COLORS ELSE 0)
                           - 1 - (IF p.targets = "Arpa" THEN 1 ELSE 0)
                           - (2 * p.levels + RainLevels(p)))

Band(first, count) == first .. first + count - 1

\* The classes of a legend, in the order in which default_legend pushes them.
\* With no pixel values it returns early, with the transparent colour alone.
default_legend(p) ==
    LET n == PixelColors(p)
        third == (n - 1) \div 3
        background == IF p.targets = "Arpa" THEN 1 ELSE 0
        approaching == n + background
        receding == approaching + p.levels
        rain == receding + p.levels
        history == rain + RainLevels(p)
    IN  IF n = 0
        THEN [pixel_colors |-> 0, low_return |-> 0, medium_return |-> 0,
              strong_return |-> 0, history_start |-> 0, static_background |-> {},
              approaching |-> {}, receding |-> {}, rain |-> {}, history |-> {},
              length |-> 1]
        ELSE [pixel_colors |-> n, low_return |-> GreaterU8(1, third \div 3),
              medium_return |-> third, strong_return |-> 2 * third,
              history_start |-> IF p.targets = "None" THEN 0 ELSE history,
              static_background |-> Band(n, background),
              approaching |-> Band(approaching, p.levels),
              receding |-> Band(receding, p.levels),
              rain |-> Band(rain, RainLevels(p)),
              history |-> IF p.targets = "None" THEN {}
                          ELSE Band(history, BLOB_HISTORY_COLORS),
              length |-> history + IF p.targets = "None" THEN 0
                                   ELSE BLOB_HISTORY_COLORS]

\* Setters of RadarInfo; the legend is made again from the parameters.
set_doppler(p, doppler) ==
    IF doppler = (p.levels > 0) THEN p ELSE [p EXCEPT !.levels = IF doppler THEN 1 ELSE 0]
set_doppler_levels(p, levels) == [p EXCEPT !.levels = levels]
set_has_rain_class(p, rain) == [p EXCEPT !.rain = rain]
set_pixel_values(p, pixels) == [p EXCEPT !.pixels = pixels]

\* The first of a class, or 0: map(|(s, _)| s).unwrap_or(0).
First(class) == IF class = {} THEN 0 ELSE CHOOSE i \in class : \A j \in class : i <= j

-----------------------------------------------------------------------------
(* wire_to_legend of each brand, for one value on the wire *)

\* A nibble of a Navico spoke; mode is "None", "Both" or "Approaching".
navico_lookup(legend, mode, nibble) ==
    CASE mode = "None" -> nibble
      [] mode # "None" /\ legend.approaching = {} -> 0
      [] OTHER -> IF nibble = 15 THEN First(legend.approaching)
                  ELSE IF mode = "Approaching" \/ nibble < 8 THEN nibble + 1
                  ELSE IF nibble = 14 THEN First(legend.receding)
                  ELSE nibble + 2

\* Mutant: the levels on the wire are taken for those of the legend.
GarminEightLevels(legend, is_xhd, doppler, byte) ==
    CASE ~is_xhd -> byte
      [] is_xhd /\ doppler /\ byte >= 248 -> First(legend.receding) + byte - 248
      [] is_xhd /\ doppler /\ byte \in 240 .. 247 -> First(legend.approaching) + byte - 240
      [] OTHER -> byte \div 2

\* A byte of a Garmin spoke: with MotionScope on, eight approaching and eight
\* receding levels at the top.  HD sends bits, made 0 and 255 by the unpacker.
garmin_lookup(legend, is_xhd, doppler, byte) ==
    CASE ~is_xhd -> byte
      [] is_xhd /\ doppler /\ byte >= 248 ->
            First(legend.receding)
                + ((byte - 248) * Cardinality(legend.receding)) \div 8
      [] is_xhd /\ doppler /\ byte \in 240 .. 247 ->
            First(legend.approaching)
                + ((byte - 240) * Cardinality(legend.approaching)) \div 8
      [] OTHER -> byte \div 2

\* A byte of a Quantum spoke; its frames always use the Doppler table.
raymarine_lookup(legend, byte) ==
    CASE byte = 255 -> First(legend.approaching)
      [] byte = 254 -> First(legend.receding)
      [] OTHER -> IF legend.pixel_colors >= 128 THEN byte \div 2 ELSE byte

ECHO_FLOOR == 10
FURUNO_PIXEL_VALUES == 252

Saturating(a, b) == GreaterU8(0, a - b)

\* Full-power radars; the curve of the others is not modelled.
furuno_lookup_off(legend, byte) ==
    LET pixel_max == Saturating(legend.pixel_colors, 1)
        usable == Saturating(pixel_max, ECHO_FLOOR)
    IN  IF byte = 0 THEN 0
        ELSE LesserU8(ECHO_FLOOR + (byte * usable) \div FURUNO_PIXEL_VALUES, pixel_max)

\* Three bands of 64 values, the last three of each unused: rain, stationary
\* and approaching.
furuno_lookup_on(legend, byte) ==
    LET b == byte % 64
        stationary == furuno_lookup_off(legend, 64 + b)
        InClass(class) ==
            IF class = {} THEN stationary
            ELSE First(class) + ((b \div 4) * Cardinality(class)) \div 16
    IN  IF byte = 0 \/ byte >= 192 \/ b > 60 THEN 0
        ELSE CASE byte < 64 -> InClass(legend.rain)
               [] byte \in 64 .. 127 -> stationary
               [] byte >= 128 -> InClass(legend.approaching)
=============================================================================
