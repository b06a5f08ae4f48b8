------------------------------ MODULE Geometry ------------------------------
(***************************************************************************)
(* Where targets, blobs and zones lie: the merge of duplicate targets, the *)
(* arc of a blob and the sector of a zone, each with what it is meant to   *)
(* compute.  An input is built step by step.                               *)
(***************************************************************************)
EXTENDS TargetTracker, SpokeArc, Zones

CONSTANTS
    TargetIds,      \* ids of the targets to be merged
    Updates         \* their update counts, some below and some above Confirmed

VARIABLES
    targets,    \* the targets before a merge: position and update_count
    removed,    \* the ids a merge removed
    touched,    \* the spokes of a blob's pixels
    zone        \* an exclusion zone as a client sets it

geometryVars == <<targets, removed, touched, zone>>

Sector(a, b) == [start_angle |-> a, end_angle |-> b,
                 start_distance |-> 0, end_distance |-> 10]

GeometryInit ==
    /\ targets = [i \in {} |-> 0]
    /\ removed = {}
    /\ touched = {}
    /\ zone = Sector(0, 0)

\* Up to Cardinality(TargetIds) targets, then one merge.
AddTarget ==
    /\ removed = {}
    /\ \E i \in TargetIds \ DOMAIN targets, pos \in Positions, n \in Updates :
          /\ \A j \in DOMAIN targets : j < i
          /\ targets' = Insert(targets, i, [pos |-> pos, updates |-> n])
    /\ UNCHANGED <<removed, touched, zone>>

\* The order is any: HashMap::keys.
MergeTargets ==
    /\ removed = {}
    /\ \E order \in Orders(DOMAIN targets) : removed' = MergeAll(targets, order)
    /\ UNCHANGED <<targets, touched, zone>>

Touch ==
    /\ \E s \in Spokes : touched' = touched \cup {s}
    /\ UNCHANGED <<targets, removed, zone>>

SetSector ==
    /\ \E a, b \in Angles : zone' = Sector(a, b)
    /\ UNCHANGED <<targets, removed, touched>>

GeometryNext == AddTarget \/ MergeTargets \/ Touch \/ SetSector

GeometrySpec == GeometryInit /\ [][GeometryNext]_geometryVars

-----------------------------------------------------------------------------
(* deduplicate_targets *)

Near(a, b) == Distance(targets[a].pos, targets[b].pos) <= MergeDistance

\* Targets that no other target is near to: one cluster, or several.
IsApart(S) == \A a \in S, b \in DOMAIN targets : Near(a, b) => b \in S

\* A merge of duplicates never loses a ship, whatever the order of the HashMap
\* (deduplicate_targets): only young targets are removed, and every cluster of
\* nearby targets keeps one, as both partners of a merge are present.
ClusterSurvives ==
    /\ \A i \in removed : Young(targets[i])
    /\ \A S \in SUBSET DOMAIN targets : S # {} /\ IsApart(S) => ~(S \subseteq removed)

-----------------------------------------------------------------------------
(* SpokeArc *)

\* The extent spokes from start on, around the circle.
ArcFrom(start, extent) ==
    {(start + k) % SpokesPerRevolution : k \in 0 .. extent - 1}

\* "The smallest circular arc on the spoke domain that covers every spoke a
\* blob touches" (SpokeArc): some arc of this extent covers the blob and has
\* its center "floor(extent / 2) positions forward from the arc's starting
\* spoke", and no arc that is shorter covers it.
ArcIsSmallest ==
    touched # {} =>
        LET arc == from_blob(touched) IN
        /\ \E start \in Spokes :
              /\ touched \subseteq ArcFrom(start, arc.extent)
              /\ arc.center = (start + arc.extent \div 2) % SpokesPerRevolution
        /\ \A start \in Spokes, extent \in 1 .. arc.extent - 1 :
              ~(touched \subseteq ArcFrom(start, extent))

-----------------------------------------------------------------------------
(* Exclusion zones *)

\* Clockwise from start to end, in steps: what a client means by a zone.
Width(z) ==
    z.end_angle - z.start_angle + (IF z.end_angle < z.start_angle THEN Steps ELSE 0)

InSector(z, a) == (a - z.start_angle) % Steps <= Width(z)

\* The spokes of the sector, and at most one more at either end.
Covers(internal) ==
    \A s \in Spokes :
        /\ InSector(zone, s * StepsPerSpoke) => in_angle(internal, s)
        /\ in_angle(internal, s) =>
              \E a \in -(StepsPerSpoke - 1) .. StepsPerSpoke - 1 :
                  InSector(zone, s * StepsPerSpoke + a)

\* "Wraparound case: zone spans 0": an exclusion zone covers the spokes of its
\* sector, from the start angle clockwise to the end angle, negative angles and
\* sectors across the bow included, if it leaves two spokes out
\* (zone_to_internal, in_angle): both angles of a zone that leaves out less may
\* be cut down to the bow itself.  A guard zone does so, too, if neither angle
\* is negative (to_internal casts to an unsigned integer).
ZonesCoverTheirSector ==
    Width(zone) < Steps - 2 * (StepsPerSpoke - 1) =>
        /\ Covers(zone_to_internal(zone, 1, 1))
        /\ zone.start_angle >= 0 /\ zone.end_angle >= 0 =>
              Covers(guard_to_internal(zone, 1, 1))

=============================================================================
