------------------------------- MODULE Zones -------------------------------
(***************************************************************************)
(* Guard and exclusion zones: their angles and distances in the spokes and *)
(* pixels of a picture, and the bit mask of what is excluded.              *)
(*                                                                         *)
(* An angle is an integer number of steps, StepsPerSpoke to a spoke, from  *)
(* -180 to 180 degrees as set by the client; a distance is in metres.      *)
(***************************************************************************)
EXTENDS Circle, FiniteSets

CONSTANTS
    StepsPerSpoke,      \* resolution of the angles a client sends
    MaxUsize            \* bound: usize::MAX, what infinity is cast to

ASSUME ZonesAssumption ==
    /\ StepsPerSpoke \in Nat \ {0}
    /\ MaxUsize \in Nat

Steps == SpokesPerRevolution * StepsPerSpoke    \* a full circle
Angles == -(Steps \div 2) .. Steps \div 2

LesserOf(a, b) == IF a <= b THEN a ELSE b

\* A cast of a float to an integer drops the fraction.
Truncated(a) ==
    IF a >= 0 THEN a \div StepsPerSpoke ELSE -((-a) \div StepsPerSpoke)

-----------------------------------------------------------------------------
\* The cast of a guard zone's angle is to u16: below 0 it saturates.
guard_spoke(a) ==
    (IF a < 0 THEN 0 ELSE Truncated(a)) % SpokesPerRevolution

\* Mutant: % of the machine: the sign stays, and the cast to u16 drops it.
ExclusionSpokeSigned(a) ==
    (IF a < 0 THEN 0 ELSE Truncated(a)) % SpokesPerRevolution

\* That of an exclusion zone's is to i32, then rem_euclid.
exclusion_spoke(a) == Truncated(a) % SpokesPerRevolution

\* distance / meters_per_pixel; with range 0 it is 0/0 or infinite.
to_pixel(distance, range, len) ==
    IF range # 0 THEN (distance * len) \div range
    ELSE IF distance = 0 THEN 0 ELSE MaxUsize

guard_to_internal(z, range, len) ==
    [start_spoke |-> guard_spoke(z.start_angle),
     end_spoke |-> guard_spoke(z.end_angle),
     start_pixel |-> to_pixel(z.start_distance, range, len),
     end_pixel |-> to_pixel(z.end_distance, range, len)]

zone_to_internal(z, range, len) ==
    [start_spoke |-> exclusion_spoke(z.start_angle),
     end_spoke |-> exclusion_spoke(z.end_angle),
     start_pixel |-> to_pixel(z.start_distance, range, len),
     end_pixel |-> LesserOf(to_pixel(z.end_distance, range, len), len)]

in_angle(zone, spoke) ==
    IF zone.start_spoke <= zone.end_spoke
    THEN spoke \in zone.start_spoke .. zone.end_spoke
    ELSE spoke >= zone.start_spoke \/ spoke <= zone.end_spoke

-----------------------------------------------------------------------------
BytesPerSpoke(pixels) == (pixels + 7) \div 8

\* The pixels of a spoke for which new() sets a bit.
Covered(zones, pixels, s) ==
    {p \in 0 .. pixels : \E z \in zones :
        /\ in_angle(z, s)
        /\ p \in LesserOf(z.start_pixel, pixels) .. LesserOf(z.end_pixel, pixels)}

\* The bits: spoke, byte and bit in the byte.
MaskBits(zones, pixels) ==
    UNION {{<<s, p \div 8, p % 8>> : p \in Covered(zones, pixels, s)} : s \in Spokes}

\* An index past the end of a spoke's bytes panics.
MaskPanics(zones, pixels) ==
    \E b \in MaskBits(zones, pixels) : b[2] >= BytesPerSpoke(pixels)

NewMask(zones, pixels) == [bits |-> MaskBits(zones, pixels), pixels |-> pixels]

is_excluded(mask, spoke, pixel) ==
    /\ pixel < mask.pixels
    /\ <<spoke, pixel \div 8, pixel % 8>> \in mask.bits
=============================================================================
