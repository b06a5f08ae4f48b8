----------------------------- MODULE RadarZones -----------------------------
(***************************************************************************)
(* The zones of one radar: clients store them in the shared controls and   *)
(* announce the change on a broadcast channel; the radar's task copies     *)
(* them and caches what they mean at the current range, for the guard      *)
(* zones in the blob detector and for the exclusion zones in a mask.       *)
(*                                                                         *)
(* Storing and announcing are two steps of a client's task.  The radar's   *)
(* task handles one announcement or one spoke at a time.                   *)
(***************************************************************************)
EXTENDS Zones, Sequences

CONSTANTS
    GuardIds,           \* GuardZone1, GuardZone2
    ExclusionIds,       \* ExclusionZone1 .. 4
    Clients,            \* tasks of clients
    ZoneValues,         \* the zones clients set
    Ranges,             \* ranges of spokes in metres, 0 if not yet known
    SpokeLens,          \* pixels per spoke
    ChannelCapacity,    \* of the broadcast channel (32)
    MaxSets,            \* bound: zones set
    NoZone, NoMask

ASSUME ChannelAssumption == ChannelCapacity \in Nat \ {0} /\ MaxSets \in Nat

ASSUME SpokeAssumption == Ranges \subseteq Nat /\ SpokeLens \subseteq Nat

Ids == GuardIds \cup ExclusionIds

ASSUME IdsAssumption == GuardIds \cap ExclusionIds = {} /\ NoZone \notin Ids

ASSUME ZoneValuesAssumption ==
    ZoneValues \subseteq [start_angle : Angles, end_angle : Angles,
                          start_distance : Nat, end_distance : Nat, enabled : BOOLEAN]

ASSUME MaskAssumption ==
    NoMask \notin [bits : SUBSET (Spokes \X Nat \X Nat), pixels : Nat]

VARIABLES
    controls,           \* the zones in the shared controls
    storing,            \* the zone a client has stored and not yet announced
    updates,            \* ids on the channel
    dropped,            \* history: ids whose last announcement was dropped
    sets,               \* zones set so far
    \* blob detector
    guard_zone, guard_zones, range, spoke_len,
    \* exclusion mask
    exclusion_zones, mask, mask_range, mask_len,
    blanked,            \* the cells of the last spoke that were set to 0
    dead                \* the task has panicked

client_vars == <<controls, storing, sets>>
guard_vars == <<guard_zone, guard_zones, range, spoke_len>>
mask_vars == <<exclusion_zones, mask, mask_range, mask_len>>
vars == <<client_vars, updates, dropped, guard_vars, mask_vars, blanked, dead>>

\* new_zone: all 0 and not enabled.
DefaultZone == [start_angle |-> 0, end_angle |-> 0,
                start_distance |-> 0, end_distance |-> 0, enabled |-> FALSE]

Init ==
    /\ controls = [i \in Ids |-> DefaultZone]
    /\ storing = [c \in Clients |-> NoZone]
    /\ updates = <<>>
    /\ dropped = {}
    /\ sets = 0
    /\ guard_zone = [i \in GuardIds |-> controls[i]]
    /\ guard_zones = [i \in GuardIds |-> NoZone]
    /\ range = 0
    /\ spoke_len = 0
    /\ exclusion_zones = [i \in ExclusionIds |-> controls[i]]
    /\ mask = NoMask
    /\ mask_range = 0
    /\ mask_len = 0
    /\ blanked = {}
    /\ dead = FALSE

-----------------------------------------------------------------------------
set_zone(c, i, z) ==
    /\ storing[c] = NoZone
    /\ sets < MaxSets
    /\ sets' = sets + 1
    /\ controls' = [controls EXCEPT ![i] = z]
    /\ storing' = [storing EXCEPT ![c] = i]
    /\ UNCHANGED <<updates, dropped, guard_vars, mask_vars, blanked, dead>>

\* A full channel drops its oldest message; the receiver is told that it
\* lagged, which it ignores.
Full == Len(updates) = ChannelCapacity
Queued(i) == Append(IF Full THEN Tail(updates) ELSE updates, i)

send_to_command_handler(c) ==
    /\ storing[c] # NoZone
    /\ updates' = IF dead THEN updates ELSE Queued(storing[c])
    /\ dropped' = (dropped \cup IF Full THEN {Head(updates)} ELSE {})
                     \ {updates'[k] : k \in DOMAIN updates'}
    /\ storing' = [storing EXCEPT ![c] = NoZone]
    /\ UNCHANGED <<controls, sets, guard_vars, mask_vars, blanked, dead>>

refresh_guard_zones(zone, r, len) ==
    [i \in GuardIds |->
        IF r = 0 \/ len = 0 \/ ~zone[i].enabled THEN NoZone
        ELSE guard_to_internal(zone[i], r, len)]

\* What was announced is not looked at: the zone is read from the controls.
set_guard_zone(i) ==
    /\ guard_zone' = [guard_zone EXCEPT ![i] = controls[i]]
    /\ guard_zones' = refresh_guard_zones(guard_zone', range, spoke_len)
    /\ UNCHANGED <<range, spoke_len, mask_vars>>

set_exclusion_zone(i) ==
    /\ exclusion_zones' = [exclusion_zones EXCEPT ![i] = controls[i]]
    /\ mask_range' = 0
    /\ UNCHANGED <<mask, mask_len, guard_vars>>

\* Mutant: only guard zones are copied.
UpdateGuardOnly ==
    /\ ~dead
    /\ updates # <<>>
    /\ updates' = Tail(updates)
    /\ IF Head(updates) \in GuardIds THEN set_guard_zone(Head(updates))
       ELSE UNCHANGED <<guard_vars, mask_vars>>
    /\ UNCHANGED <<client_vars, dropped, blanked, dead>>

process_control_update ==
    /\ ~dead
    /\ updates # <<>>
    /\ updates' = Tail(updates)
    /\ \/ Head(updates) \in GuardIds /\ set_guard_zone(Head(updates))
       \/ Head(updates) \in ExclusionIds /\ set_exclusion_zone(Head(updates))
    /\ UNCHANGED <<client_vars, dropped, blanked, dead>>

-----------------------------------------------------------------------------
Internal(r, len) ==
    {zone_to_internal(exclusion_zones[i], r, len) :
        i \in {j \in ExclusionIds : exclusion_zones[j].enabled}}

\* Mutant: a change of the spoke length alone does not rebuild the mask.
MaskKeptOnLength(r, len) == r = mask_range /\ mask # NoMask

MaskIsKept(r, len) == r = mask_range /\ len = mask_len /\ mask # NoMask

refresh_exclusion_mask(r, len) ==
    IF MaskIsKept(r, len)
    THEN UNCHANGED <<mask, mask_range, mask_len, dead>>
    ELSE /\ mask_range' = r
         /\ mask_len' = len
         /\ dead' = MaskPanics(Internal(r, len), len)
         /\ mask' = IF Internal(r, len) = {} \/ dead' THEN NoMask
                    ELSE NewMask(Internal(r, len), len)

\* Mutant: the guard zones wait for the range, whatever the spoke length.
DetectorSeesRange(r, len) ==
    /\ range' = IF r # 0 THEN r ELSE range
    /\ spoke_len' = IF len # 0 THEN len ELSE spoke_len
    /\ guard_zones' = IF range' # range
                      THEN refresh_guard_zones(guard_zone, range', spoke_len')
                      ELSE guard_zones
    /\ UNCHANGED guard_zone

\* The part of process_spoke that is about zones.
DetectorSees(r, len) ==
    /\ range' = IF r # 0 THEN r ELSE range
    /\ spoke_len' = IF len # 0 THEN len ELSE spoke_len
    /\ guard_zones' = IF range' # range \/ spoke_len' # spoke_len
                      THEN refresh_guard_zones(guard_zone, range', spoke_len')
                      ELSE guard_zones
    /\ UNCHANGED guard_zone

add_spoke(r, angle, len) ==
    /\ ~dead
    /\ refresh_exclusion_mask(r, len)
    /\ IF dead' THEN UNCHANGED <<guard_vars, blanked>>
       ELSE /\ blanked' = IF mask' = NoMask THEN {}
                          ELSE {p \in 0 .. len - 1 : is_excluded(mask', angle, p)}
            /\ DetectorSees(r, len)
    /\ UNCHANGED <<client_vars, updates, dropped, exclusion_zones>>

Next ==
    \/ \E c \in Clients, i \in Ids, z \in ZoneValues : set_zone(c, i, z)
    \/ \E c \in Clients : send_to_command_handler(c)
    \/ process_control_update
    \/ \E r \in Ranges, s \in Spokes, len \in SpokeLens : add_spoke(r, s, len)

Spec == Init /\ [][Next]_vars

-----------------------------------------------------------------------------
Internals == [start_spoke : Spokes, end_spoke : Spokes,
              start_pixel : Nat, end_pixel : Nat]

SetZones == ZoneValues \cup {DefaultZone}

TypeOK ==
    /\ controls \in [Ids -> SetZones]
    /\ storing \in [Clients -> Ids \cup {NoZone}]
    /\ updates \in Seq(Ids) /\ Len(updates) <= ChannelCapacity
    /\ guard_zone \in [GuardIds -> SetZones]
    /\ guard_zones \in [GuardIds -> Internals \cup {NoZone}]
    /\ range \in Nat /\ spoke_len \in Nat
    /\ exclusion_zones \in [ExclusionIds -> SetZones]
    /\ mask = NoMask \/ mask.pixels = mask_len

\* What the radar's task has copied of a zone.
Copied(i) == IF i \in GuardIds THEN guard_zone[i] ELSE exclusion_zones[i]

Quiet == updates = <<>> /\ \A c \in Clients : storing[c] = NoZone

\* The detector's cached zones are those of the settings it has copied at the
\* range and spoke length it has seen, whichever changed last.  "Broadcast the
\* update to the radar so blob detector gets updated": when no announcement is
\* under way the radar has copied what the controls hold, although clients store
\* and announce in two steps; only a zone whose last announcement was dropped by
\* a full channel escapes it, as being told that it lagged is ignored.
ZonesAreCurrent ==
    /\ TypeOK
    /\ guard_zones = refresh_guard_zones(guard_zone, range, spoke_len)
    /\ (Quiet /\ ~dead) => \A i \in Ids \ dropped : controls[i] = Copied(i)

\* A zone that reaches the end of a spoke of whole bytes: the mask has a byte
\* too few for it.
Overruns(r, len) == len % 8 = 0 /\ \E z \in Internal(r, len) : z.end_pixel = len

\* A spoke is blanked where the enabled exclusion zones are, by the settings
\* copied last and at the range of this very spoke.  The mask is indexed past
\* its end in one case only.
BlanksExactly ==
    \A r \in Ranges \ {0}, s \in Spokes, len \in SpokeLens :
        add_spoke(r, s, len) =>
            \/ dead' /\ Overruns(r, len)
            \/ /\ ~dead'
               /\ blanked' = {p \in 0 .. len - 1 :
                     \E z \in Internal(r, len) :
                         in_angle(z, s) /\ p \in z.start_pixel .. z.end_pixel}
EverySpokeIsBlankedExactly == [][BlanksExactly]_vars

\* "Set bits for all pixels in the distance range", "Indexed by
\* [spoke][pixel / 8]": building the mask never indexes past its end.
NeverDies == ~dead
=============================================================================
