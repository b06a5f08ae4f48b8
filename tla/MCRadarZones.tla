---------------------------- MODULE MCRadarZones ----------------------------
(* Instances of RadarZones. *)
EXTENDS RadarZones

Zone(a, b, d, e, on) == [start_angle |-> a, end_angle |-> b,
                         start_distance |-> d, end_distance |-> e, enabled |-> on]

\* One across the bow that reaches beyond the range, one that does not start
\* at the antenna, and it switched off.
FewZones == {Zone(-2, 2, 0, 30, TRUE), Zone(2, 4, 5, 9, TRUE), Zone(2, 4, 5, 9, FALSE)}
=============================================================================
