--------------------------- MODULE TrackerManager ---------------------------
(***************************************************************************)
(* The target tracker task (radar/target/manager.rs): one task owns every  *)
(* tracker, takes blobs from the radars and commands from the web server,  *)
(* and broadcasts target deltas to the Signal K clients.                   *)
(*                                                                         *)
(* The blob and command queues are not kept: select! takes from either in  *)
(* any order, the blob queue is FIFO, and a blob dropped because it was    *)
(* full is a blob that never came.  A command is therefore an action of    *)
(* its own, enabled at any time.                                           *)
(*                                                                         *)
(* shown is what a client that receives every delta displays: a map from   *)
(* the path radars.{key}.targets.{id} to the last status received.         *)
(* antenna and turns describe the world: the angle of the last blob of a   *)
(* radar, and how often an antenna that feeds the tracker has passed north *)
(* since a target was last seen.                                           *)
(***************************************************************************)
EXTENDS TargetTracker

CONSTANTS
    Radars,         \* radar keys
    MergeMode,      \* --merge-targets
    SpokesOf,       \* spokes_per_revolution of each radar
    DefaultSpokes,  \* the 2048 of new() and process_marpa
    BlobAngles      \* the angles at which a radar's surroundings give a blob

VARIABLES
    trackers,         \* per_radar_trackers, or shared_tracker under Shared
    radar_indices,    \* 0 where no index is assigned yet
    next_radar_index,
    shown,
    antenna,
    turns

vars == <<trackers, radar_indices, next_radar_index, shown, antenna, turns>>

Shared == "shared"
NoKey == ""          \* String::new()

ASSUME ManagerAssumption ==
    /\ MergeMode \in BOOLEAN
    /\ Shared \notin Radars
    /\ NoKey \notin Radars
    /\ SpokesOf \in [Radars -> Nat \ {0}]
    /\ DefaultSpokes \in Nat \ {0}
    /\ BlobAngles \in [Radars -> SUBSET Nat]
    /\ \A r \in Radars : \A a \in BlobAngles[r] : a < SpokesOf[r]

Keys == IF MergeMode THEN {Shared} ELSE Radars
KeyOf(r) == IF MergeMode THEN Shared ELSE r
\* CandidateSource: a guard zone or Doppler blob may start a target.
Sources == {"acquiring", "anywhere"}

\* The trackers that exist.
Active == DOMAIN trackers
Targets(k) == IF k \in Active THEN trackers[k].targets ELSE [i \in {} |-> 0]
Live(k) == DOMAIN Targets(k)

-----------------------------------------------------------------------------
(* What the clients see *)

Show(view, r, T, ids) ==
    [p \in DOMAIN view \cup ({r} \X ids) |->
        IF p \in {r} \X ids THEN T[p[2]].status ELSE view[p]]

Hide(view, paths) == [p \in DOMAIN view \ paths |-> view[p]]

\* The targets get_targets_api and broadcast_all_targets report.
Reported(T) == {i \in DOMAIN T : T[i].updates >= Confirmed}

broadcast_all_targets(view, r, T) == Show(view, r, T, Reported(T))

-----------------------------------------------------------------------------

\* new: the shared tracker exists from the start.
Init ==
    /\ trackers = [k \in (IF MergeMode THEN {Shared} ELSE {}) |->
                      NewTracker(0, DefaultSpokes)]
    /\ radar_indices = [r \in Radars |-> 0]
    /\ next_radar_index = 1
    /\ shown = [p \in {} |-> 0]
    /\ antenna = [r \in Radars |-> 0]
    /\ turns = [k \in Keys |-> [i \in {} |-> 0]]

get_radar_index(r) ==
    IF radar_indices[r] # 0 THEN radar_indices[r] ELSE next_radar_index

get_or_create_tracker(r, spokes) ==
    IF KeyOf(r) \in Active THEN trackers[KeyOf(r)]
    ELSE NewTracker(get_radar_index(r), spokes)

AssignIndex(r) ==
    IF KeyOf(r) \notin Active /\ radar_indices[r] = 0
    THEN /\ radar_indices' = [radar_indices EXCEPT ![r] = next_radar_index]
         /\ next_radar_index' = next_radar_index + 1
    ELSE UNCHANGED <<radar_indices, next_radar_index>>

\* Bound: next_id wraps after 99,999,999 ids; the model lets it wrap only
\* onto an id whose target is gone.
IdFree(t) == AllocatedId(t) \notin DOMAIN t.targets

\* The turns of a tracker's targets once its targets are T: a target seen in
\* this step starts at zero, the others gain the turn the antenna just made.
TurnsAfter(k, T, seen, wrapped) ==
    [turns EXCEPT ![k] =
        [i \in DOMAIN T |->
            IF i \in seen THEN 0
            ELSE IF wrapped THEN Bump(turns[k][i], AgeCap) ELSE turns[k][i]]]

\* The tracker of a blob, what its merge of duplicates may remove if the blob
\* completes a revolution, and the tracker after check_revolution.
BlobTracker(r) == get_or_create_tracker(r, SpokesOf[r])

Merges(r, angle) ==
    IF IsBoundary(BlobTracker(r), angle)
    THEN deduplicate_targets(BlobTracker(r).targets) ELSE {{}}

Turned(r, angle, merged) == check_revolution(BlobTracker(r), angle, merged)

\* process_candidate and the broadcasts that follow it.
process_turned(r, angle, t1, cand, m, rejected, slow) ==
    LET t2 == process_candidate(t1, cand, m, rejected, slow)
        view == IF Promotes(t1, cand, m, rejected, slow)
                THEN Show(shown, r, t2.targets, {m}) ELSE shown
        seen == IF Accepted(m, rejected) THEN {m}
                ELSE DOMAIN t2.targets \ DOMAIN t1.targets
    IN /\ rejected => m # NoMatch /\ MayRejectTurn(t1.targets[m])
       /\ Acquires(cand, m, rejected) => IdFree(t1)
       /\ trackers' = Insert(trackers, KeyOf(r), t2)
       /\ AssignIndex(r)
       /\ shown' = IF IsBoundary(BlobTracker(r), angle)
                   THEN broadcast_all_targets(view, r, t2.targets) ELSE view
       /\ antenna' = [antenna EXCEPT ![r] = angle]
       /\ turns' = TurnsAfter(KeyOf(r), t2.targets, seen, angle < antenna[r])

\* process_blob of a blob that has a position.
process_blob(r) ==
    \E angle \in BlobAngles[r] : \E merged \in Merges(r, angle) :
        LET t1 == Turned(r, angle, merged)
        IN \E cand \in [pos : Positions, source : Sources, radar : {r}],
              m \in DOMAIN t1.targets \cup {NoMatch},
              rejected \in BOOLEAN, slow \in BOOLEAN :
                  process_turned(r, angle, t1, cand, m, rejected, slow)

process_marpa(r) ==
    \E pos \in Positions :
        LET k == KeyOf(r)
            t0 == get_or_create_tracker(r, DefaultSpokes)
            id == AllocatedId(t0)
            t1 == create_target(t0, [pos |-> pos, source |-> "acquiring", radar |-> r])
        IN /\ IdFree(t0)
           /\ trackers' = Insert(trackers, k, t1)
           /\ AssignIndex(r)
           /\ shown' = Show(shown, r, t1.targets, {id})
           /\ turns' = TurnsAfter(k, t1.targets, {id}, FALSE)
           /\ UNCHANGED antenna

\* Removes ids of the tracker of r, broadcasting each under r.
RemoveTargets(r, ids) ==
    LET k == KeyOf(r)
        left == Without(trackers[k].targets, ids)
    IN /\ trackers' = [trackers EXCEPT ![k].targets = left]
       /\ shown' = Hide(shown, {r} \X ids)
       /\ turns' = TurnsAfter(k, left, {}, FALSE)
       /\ UNCHANGED <<radar_indices, next_radar_index, antenna>>

clear_all_targets(r) ==
    /\ Live(KeyOf(r)) # {}
    /\ RemoveTargets(r, Live(KeyOf(r)))

delete_target(r) ==
    \E id \in Live(KeyOf(r)) : RemoveTargets(r, {id})

\* The radar key under which a timeout is broadcast.  In merged mode the
\* lost update uses last_radar_key; the deletion looks the target up after
\* check_timeouts removed it, and falls back to the empty key.
LostKey(k, tg) == IF MergeMode THEN tg.radar ELSE k
DeletionKey(k) == IF MergeMode THEN NoKey ELSE k

\* Mutant: only confirmed targets are announced as lost.
LostPathsConfirmed ==
    UNION {{<<LostKey(k, Targets(k)[i]), i>> :
                i \in Overdue(trackers[k]) \cap Reported(Targets(k))} :
               k \in Active}

LostPaths ==
    UNION {{<<LostKey(k, Targets(k)[i]), i>> : i \in Overdue(trackers[k])} :
               k \in Active}

DeletedPaths == UNION {{DeletionKey(k)} \X Expired(trackers[k]) : k \in Active}

ShowLost(view, paths) ==
    [p \in DOMAIN view \cup paths |-> IF p \in paths THEN "lost" ELSE view[p]]

check_all_timeouts ==
    /\ trackers' = [k \in Active |-> check_timeouts(trackers[k])]
    /\ shown' = Hide(ShowLost(shown, LostPaths), DeletedPaths)
    /\ turns' = [k \in Keys |-> IF k \in Active
                                THEN Without(turns[k], Expired(trackers[k]))
                                ELSE turns[k]]
    /\ UNCHANGED <<radar_indices, next_radar_index, antenna>>

\* process_blob returns early: no position, heading or bearing is known.
process_blob_unplaced(r) ==
    \E angle \in BlobAngles[r] :
        /\ antenna' = [antenna EXCEPT ![r] = angle]
        /\ turns' = TurnsAfter(KeyOf(r), Targets(KeyOf(r)), {},
                               angle < antenna[r])
        /\ UNCHANGED <<trackers, radar_indices, next_radar_index, shown>>

Next ==
    \/ \E r \in Radars :
        \/ process_blob(r)
        \/ process_blob_unplaced(r)
        \/ process_marpa(r)
        \/ delete_target(r)
        \/ clear_all_targets(r)
    \/ check_all_timeouts

Spec == Init /\ [][Next]_vars

-----------------------------------------------------------------------------
(* Fairness: run() checks the timeouts at least once a second, and the     *)
(* surroundings of a radar keep giving blobs, with a position, at each of  *)
(* the angles where there is something to see.                             *)

PlacedBlobAt(r, angle) == process_blob(r) /\ antenna'[r] = angle

FairSpec ==
    /\ Spec
    /\ WF_vars(check_all_timeouts)
    /\ \A r \in Radars : \A angle \in BlobAngles[r] :
            SF_vars(PlacedBlobAt(r, angle))

-----------------------------------------------------------------------------
(* Properties *)

Paths == (Radars \cup {NoKey}) \X Nat

TargetType ==
    [pos : Positions, updates : 1 .. UpdateCap, status : Status,
     slow : BOOLEAN, age : 0 .. AgeCap, lost_age : 0 .. AgeCap, radar : Radars]

TrackerType(t) ==
    /\ t \in [targets : {t.targets}, next_id : 1 .. MaxIdOffset, id_base : Nat,
              spokes : Nat, last_angle : Nat]
    /\ DOMAIN t.targets \subseteq Nat
    /\ \A i \in DOMAIN t.targets : t.targets[i] \in TargetType

ViewType(view) ==
    /\ DOMAIN view \subseteq Paths
    /\ \A p \in DOMAIN view : view[p] \in Status

\* Every value of the model stays in its type; next_id wraps before it leaves
\* the range of its tracker.
TypeOK ==
    /\ Active \subseteq Keys
    /\ \A k \in Active : TrackerType(trackers[k])
    /\ radar_indices \in [Radars -> Nat]
    /\ next_radar_index \in Nat \ {0}
    /\ ViewType(shown)
    /\ antenna \in [Radars -> Nat]
    /\ DOMAIN turns = Keys
    /\ \A k \in Keys : turns[k] \in [Live(k) -> 0 .. AgeCap]

\* What the status of a target says of its history.
Consistent(tg) ==
    /\ tg.status = "tracking" => ~Young(tg)
    /\ tg.status = "acquiring" => Young(tg)
    /\ tg.status = "lost" => \/ tg.age = AgeCap
                             \/ tg.age >= tg.lost_age + LostLimit(tg)

\* The status of a target agrees with its history (update, check_timeouts): a
\* tracking target has its four observations, an acquiring one has not, and a
\* lost one went unseen for the revolutions its kind is allowed.
StatusMatchesHistory ==
    /\ TypeOK
    /\ \A k \in Active : \A i \in Live(k) : Consistent(Targets(k)[i])

\* A target id names one target of one radar, over all trackers
\* (get_radar_index, next_target_id): clients address targets by id.
IdsAreDisjoint ==
    \A k, l \in Active : k # l => Live(k) \cap Live(l) = {}

\* A step in which confirmed targets disappear only because the user asked for
\* it, or after the lost and delete periods of their kind.
ConfirmedStep ==
    \A k \in Keys : \A i \in Live(k) :
        (~Young(Targets(k)[i]) /\ i \notin Live(k)') =>
            \/ \E r \in Radars : delete_target(r) \/ clear_all_targets(r)
            \/ Targets(k)[i].age >= LostLimit(Targets(k)[i])
                                      + DeleteLimit(Targets(k)[i])

\* A confirmed target disappears only because the user asked for it or because
\* it went unseen for the lost period and then the delete period of its kind:
\* no merge of duplicates, revolution or blob ever removes it.
ConfirmedOutlivesMerges == [][ConfirmedStep]_vars

\* A client knows every target that is tracked, and knows of every lost target
\* that it is lost: the promotion, the batches and the lost updates together
\* leave no gap, not even for a target that is lost before its fourth
\* observation and recovers.  And what a client shows as tracked is alive: the
\* deletions leave no ghost.
ClientsFollow ==
    /\ \A p \in DOMAIN shown :
          shown[p] = "tracking" => p[2] \in Live(KeyOf(p[1]))
    /\ \A k \in Active : \A i \in Live(k) :
          LET tg == Targets(k)[i]
              seen == {r \in Radars : <<r, i>> \in DOMAIN shown}
          IN /\ tg.status = "tracking" => seen # {}
             /\ tg.status = "lost" => \E r \in seen : shown[<<r, i>>] = "lost"

\* A target the antenna keeps passing over without seeing it is eventually
\* dropped: check_timeouts runs when idle, and revolutions keep being counted.
UnseenIsDropped ==
    \A k \in Keys : \A i \in 1 .. (Cardinality(Radars) + 1) * (MaxIdOffset + 1) :
        []<>(i \in Live(k) => turns[k][i] = 0)
=============================================================================
