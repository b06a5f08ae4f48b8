---------------------------- MODULE TargetTracker ----------------------------
(***************************************************************************)
(* The ARPA tracker of one radar, or of all radars in merged mode          *)
(* (radar/target/tracker.rs): the data of a TargetTracker and what each of *)
(* its methods does to it.  TrackerManager turns them into actions.        *)
(*                                                                         *)
(* Positions are points of a line.  The motion model (Kalman, IMM) is not  *)
(* modelled: what it decides (the target a blob matches, an implausible    *)
(* turn, a speed below 0.5 m/s) is a free choice of the caller.            *)
(*                                                                         *)
(* revolution_count is only ever compared with an earlier value of itself, *)
(* so a target keeps the two differences the code computes, age and        *)
(* lost_age, saturating at AgeCap; lost_revolution is read only while a    *)
(* target is lost, so lost_age is 0 otherwise.  update_count is compared   *)
(* with at most MinUpdatesForStationary and saturates at UpdateCap.        *)
(***************************************************************************)
EXTENDS Integers, Sequences, FiniteSets, Functions

CONSTANTS
    Positions,          \* a finite set of integers
    MergeDistance,      \* DUPLICATE_MERGE_DISTANCE_M
    MaxIdOffset,        \* RADAR_ID_MULTIPLIER - 1
    LostRevs,           \* LOST_REVOLUTION_COUNT
    StationaryLostRevs, \* STATIONARY_LOST_REVOLUTION_COUNT
    DeleteRevs,         \* DELETE_REVOLUTION_COUNT
    StationaryDeleteRevs, \* STATIONARY_DELETE_REVOLUTION_COUNT
    AgeCap,             \* bound on the revolution differences
    UpdateCap           \* bound on update_count

\* Observations before a target is confirmed (the literal 4 in the source).
Confirmed == 4
\* MIN_UPDATES_FOR_STATIONARY
MinUpdatesForStationary == 5

ASSUME TrackerAssumption ==
    /\ Positions \subseteq Int
    /\ MergeDistance \in Nat
    /\ MaxIdOffset \in Nat \ {0}
    /\ LostRevs \in Nat \ {0}
    /\ StationaryLostRevs \in Nat \ {0}
    /\ DeleteRevs \in Nat \ {0}
    /\ StationaryDeleteRevs \in Nat \ {0}
    /\ LostRevs <= StationaryLostRevs
    /\ DeleteRevs <= StationaryDeleteRevs
    /\ AgeCap \in Nat
    /\ StationaryLostRevs + StationaryDeleteRevs <= AgeCap
    /\ UpdateCap \in Nat
    /\ MinUpdatesForStationary <= UpdateCap

Status == {"acquiring", "tracking", "lost"}
NoMatch == 0

Bump(n, cap) == IF n < cap THEN n + 1 ELSE cap

-----------------------------------------------------------------------------
(* ActiveTarget *)

new(cand) ==
    [pos |-> cand.pos, updates |-> 1, status |-> "acquiring", slow |-> FALSE,
     age |-> 0, lost_age |-> 0, radar |-> cand.radar]

Young(tg) == tg.updates < Confirmed

is_stationary(tg) == tg.updates >= MinUpdatesForStationary /\ tg.slow

\* Only an early track that is not slow can reject a turn.
MayRejectTurn(tg) == tg.updates \in 2 .. 4 /\ ~tg.slow

\* Mutant: a lost target stays lost until it is confirmed.
UpdateKeepsLost(tg, cand, slow) ==
    LET n == Bump(tg.updates, UpdateCap)
    IN  [tg EXCEPT !.pos = cand.pos, !.updates = n, !.slow = slow,
                   !.radar = cand.radar, !.age = 0, !.lost_age = 0,
                   !.status = IF n >= Confirmed THEN "tracking" ELSE @]

\* ActiveTarget::update, then set_last_update_revolution.
update(tg, cand, slow) ==
    LET n == Bump(tg.updates, UpdateCap)
    IN  [pos |-> cand.pos, updates |-> n, slow |-> slow, radar |-> cand.radar,
         age |-> 0, lost_age |-> 0,
         status |-> IF n >= Confirmed THEN "tracking"
                    ELSE IF tg.status = "lost" THEN "acquiring" ELSE tg.status]

-----------------------------------------------------------------------------
(* TargetTracker *)

NewTracker(index, spokes) ==
    [targets |-> [i \in {} |-> 0], next_id |-> 1,
     id_base |-> index * (MaxIdOffset + 1), spokes |-> spokes, last_angle |-> 0]

AllocatedId(t) == t.id_base + t.next_id

\* Mutant: the offset never wraps.
NextIdUnbounded(t) == [t EXCEPT !.next_id = @ + 1]

next_target_id(t) ==
    [t EXCEPT !.next_id = IF @ + 1 > MaxIdOffset THEN 1 ELSE @ + 1]

Insert(targets, id, tg) ==
    [i \in DOMAIN targets \cup {id} |-> IF i = id THEN tg ELSE targets[i]]

Without(targets, ids) == Restrict(targets, DOMAIN targets \ ids)

\* create_acquiring_target and add_active_target differ only in the
\* uncertainty they give to the motion model.
create_target(t, cand) ==
    [next_target_id(t) EXCEPT
        !.targets = Insert(@, AllocatedId(t), new(cand))]

-----------------------------------------------------------------------------
(* deduplicate_targets: the ids are visited in the order of a HashMap.     *)

Distance(p, q) == IF p < q THEN q - p ELSE p - q

Discard(T, a, b) == IF T[b].updates >= T[a].updates THEN a ELSE b

\* Mutant: a target may be merged into one that is already removed.
MergeableWithRemoved(T, removed, a, b) ==
    /\ b # a
    /\ Distance(T[a].pos, T[b].pos) <= MergeDistance
    /\ Young(T[Discard(T, a, b)])

Mergeable(T, removed, a, b) ==
    /\ b # a
    /\ b \notin removed
    /\ Distance(T[a].pos, T[b].pos) <= MergeDistance
    /\ Young(T[Discard(T, a, b)])

\* The outer loop's body for a: the first partner decides, then break.
MergeOne(T, order, removed, a) ==
    LET partners == {n \in DOMAIN order : Mergeable(T, removed, a, order[n])}
        first == CHOOSE n \in partners : \A m \in partners : n <= m
    IN  IF a \in removed \/ ~Young(T[a]) \/ partners = {}
        THEN removed
        ELSE removed \cup {Discard(T, a, order[first])}

MergeAll(T, order) ==
    LET after[n \in 0 .. Len(order)] ==
            IF n = 0 THEN {} ELSE MergeOne(T, order, after[n - 1], order[n])
    IN  after[Len(order)]

\* The orders in which a HashMap may hand out the keys ids.
Orders(ids) == Bijection(1 .. Cardinality(ids), ids)

\* Every set of young targets that some iteration order removes.
deduplicate_targets(T) ==
    {R \in SUBSET {i \in DOMAIN T : Young(T[i])} :
        \E order \in Orders(DOMAIN T) : R = MergeAll(T, order)}

-----------------------------------------------------------------------------
(* Revolutions and timeouts *)

IsBoundary(t, angle) ==
    /\ angle < t.last_angle
    /\ t.last_angle - angle > t.spokes \div 2

\* revolution_count += 1, as every target sees it.
Aged(T) ==
    [i \in DOMAIN T |->
        [T[i] EXCEPT !.age = Bump(@, AgeCap),
                     !.lost_age = IF T[i].status = "lost"
                                  THEN Bump(@, AgeCap) ELSE @]]

on_revolution_complete(t, merged) ==
    [t EXCEPT !.targets = Aged(Without(@, merged))]

check_revolution(t, angle, merged) ==
    [(IF IsBoundary(t, angle) THEN on_revolution_complete(t, merged) ELSE t)
        EXCEPT !.last_angle = angle]

LostLimit(tg) ==
    IF is_stationary(tg) THEN StationaryLostRevs ELSE LostRevs

DeleteLimit(tg) ==
    IF is_stationary(tg) THEN StationaryDeleteRevs ELSE DeleteRevs

\* Mutant: the time since the last update decides the deletion.
ExpiredByAge(t) ==
    {i \in DOMAIN t.targets :
        /\ t.targets[i].status = "lost"
        /\ t.targets[i].age >= DeleteLimit(t.targets[i])}

\* The ids check_timeouts deletes, and the ids it marks as lost.
Expired(t) ==
    {i \in DOMAIN t.targets :
        /\ t.targets[i].status = "lost"
        /\ t.targets[i].lost_age >= DeleteLimit(t.targets[i])}

\* Mutant: a lost target is marked lost again by every check.
OverdueAgain(t) ==
    {i \in DOMAIN t.targets : t.targets[i].age >= LostLimit(t.targets[i])}

Overdue(t) ==
    {i \in DOMAIN t.targets :
        /\ t.targets[i].status # "lost"
        /\ t.targets[i].age >= LostLimit(t.targets[i])}

MarkLost(tg) == [tg EXCEPT !.status = "lost", !.lost_age = 0]

check_timeouts(t) ==
    LET T == t.targets
    IN  [t EXCEPT !.targets =
            [i \in DOMAIN T \ Expired(t) |->
                IF i \in Overdue(t) THEN MarkLost(T[i]) ELSE T[i]]]

-----------------------------------------------------------------------------
(* process_candidate: m is the closest target within reach, or NoMatch.    *)

Accepted(m, rejected) == m # NoMatch /\ ~rejected

Acquires(cand, m, rejected) ==
    ~Accepted(m, rejected) /\ cand.source # "anywhere"

process_candidate(t, cand, m, rejected, slow) ==
    IF Accepted(m, rejected)
    THEN [t EXCEPT !.targets[m] = update(@, cand, slow)]
    ELSE IF Acquires(cand, m, rejected) THEN create_target(t, cand) ELSE t

\* ProcessResult::Promoted(m)
Promotes(t, cand, m, rejected, slow) ==
    /\ Accepted(m, rejected)
    /\ t.targets[m].status = "acquiring"
    /\ update(t.targets[m], cand, slow).status = "tracking"
=============================================================================
