------------------------ MODULE TrackerManagerProofs ------------------------
(***************************************************************************)
(* Proofs about TrackerManager.  The inductive invariant is TypeOK,        *)
(* a per-tracker part (statuses are consistent, ids lie in the tracker's   *)
(* range) and IndexInv (each radar's tracker has an index of its own).     *)
(* What clients show is related to the targets by ViewInv.                 *)
(***************************************************************************)
EXTENDS TrackerManager, TLAPS

Candidate == [pos : Positions, source : Sources, radar : Radars]

IdRange(t) ==
    \A i \in DOMAIN t.targets : t.id_base < i /\ i <= t.id_base + MaxIdOffset

\* What every method of TargetTracker preserves.
TrackerInv(t) ==
    /\ TrackerType(t)
    /\ IdRange(t)
    /\ \A i \in DOMAIN t.targets : Consistent(t.targets[i])

IndexInv ==
    /\ \A r \in Radars : radar_indices[r] < next_radar_index
    /\ \A r, s \in Radars :
           r # s /\ radar_indices[r] = radar_indices[s] => radar_indices[r] = 0
    /\ ~MergeMode =>
           \A k \in Active :
               /\ radar_indices[k] # 0
               /\ trackers[k].id_base = radar_indices[k] * (MaxIdOffset + 1)

IInv ==
    /\ TypeOK
    /\ \A k \in Active : TrackerInv(trackers[k])
    /\ IndexInv

-----------------------------------------------------------------------------
(* Targets *)

\* A new target is consistent.
LEMMA NewTarget ==
    ASSUME NEW cand \in Candidate
    PROVE  new(cand) \in TargetType /\ Consistent(new(cand))
  BY TrackerAssumption
     DEF new, TargetType, Consistent, Young, Confirmed, Candidate, Status,
         MinUpdatesForStationary

\* An update keeps a target consistent: in particular it takes a target out of
\* the lost status, whatever its age was.
LEMMA UpdateTarget ==
    ASSUME NEW tg \in TargetType, Consistent(tg),
           NEW cand \in Candidate, NEW slow \in BOOLEAN
    PROVE  update(tg, cand, slow) \in TargetType
           /\ Consistent(update(tg, cand, slow))
  <1> DEFINE n == Bump(tg.updates, UpdateCap)
  <1>1. n \in 1 .. UpdateCap /\ n >= tg.updates
    BY TrackerAssumption DEF TargetType, Bump, MinUpdatesForStationary
  <1>2. update(tg, cand, slow) \in TargetType
    BY <1>1, TrackerAssumption DEF update, TargetType, Candidate, Status
  <1>3. /\ update(tg, cand, slow).updates = n
        /\ update(tg, cand, slow).status =
              IF n >= 4 THEN "tracking"
              ELSE IF tg.status = "lost" THEN "acquiring" ELSE tg.status
    BY DEF update, TargetType, Confirmed
  <1>4. tg.updates \in Nat /\ tg.status \in Status
    BY DEF TargetType
  <1> HIDE DEF n
  <1>5. Consistent(update(tg, cand, slow))
    BY <1>1, <1>3, <1>4 DEF Consistent, Young, Confirmed, Status
  <1>6. QED
    BY <1>2, <1>5

\* A target grows older by a revolution.
LEMMA AgeTargets ==
    ASSUME NEW T, NEW i \in DOMAIN T, T[i] \in TargetType, Consistent(T[i])
    PROVE  Aged(T)[i] \in TargetType /\ Consistent(Aged(T)[i])
  <1> DEFINE tg == T[i]
             a == Bump(tg.age, AgeCap)
             l == IF tg.status = "lost" THEN Bump(tg.lost_age, AgeCap)
                  ELSE tg.lost_age
  <1>1. Aged(T)[i] = [tg EXCEPT !.age = a, !.lost_age = l]
    BY DEF Aged
  <1>2. tg.age \in 0 .. AgeCap /\ tg.lost_age \in 0 .. AgeCap
    BY DEF TargetType
  <1>3. a \in 0 .. AgeCap /\ l \in 0 .. AgeCap
    BY <1>2, TrackerAssumption DEF Bump
  <1> HIDE DEF a, l
  <1>4. Aged(T)[i] \in TargetType
    BY <1>1, <1>3, Zenon DEF TargetType
  <1>5. /\ Aged(T)[i].age = a
        /\ Aged(T)[i].lost_age = l
        /\ Aged(T)[i].updates = tg.updates
        /\ Aged(T)[i].slow = tg.slow
        /\ Aged(T)[i].status = tg.status
    BY <1>1 DEF TargetType
  <1>6. Consistent(Aged(T)[i])
    BY <1>2, <1>3, <1>5, TrackerAssumption
       DEF Consistent, Young, LostLimit, is_stationary, a, l, Bump
  <1>7. QED
    BY <1>4, <1>6

\* A target that is marked lost was unseen for its limit.
LEMMA LoseTarget ==
    ASSUME NEW tg \in TargetType, tg.age >= LostLimit(tg)
    PROVE  MarkLost(tg) \in TargetType /\ Consistent(MarkLost(tg))
  <1>0. "lost" \in Status /\ 0 \in 0 .. AgeCap
    BY TrackerAssumption DEF Status
  <1>1. MarkLost(tg) \in TargetType
    BY <1>0, Zenon DEF MarkLost, TargetType
  <1>2. /\ MarkLost(tg).age = tg.age
        /\ MarkLost(tg).lost_age = 0
        /\ MarkLost(tg).updates = tg.updates
        /\ MarkLost(tg).slow = tg.slow
        /\ MarkLost(tg).status = "lost"
    BY DEF MarkLost, TargetType
  <1>3. LostLimit(MarkLost(tg)) = LostLimit(tg) /\ LostLimit(tg) \in Nat
    BY <1>2, TrackerAssumption DEF LostLimit, is_stationary
  <1>4. Consistent(MarkLost(tg))
    BY <1>2, <1>3 DEF Consistent, Young
  <1>5. QED
    BY <1>1, <1>4

-----------------------------------------------------------------------------
(* Trackers: every method preserves TrackerInv and keeps the id base. *)

\* A tracker starts empty, with an id range of its own.
LEMMA StartTracker ==
    ASSUME NEW index \in Nat, NEW spokes \in Nat
    PROVE  /\ TrackerInv(NewTracker(index, spokes))
           /\ DOMAIN NewTracker(index, spokes).targets = {}
           /\ NewTracker(index, spokes).id_base = index * (MaxIdOffset + 1)
  <1>1. index * (MaxIdOffset + 1) \in Nat
    BY TrackerAssumption
  <1>2. QED
    BY <1>1, TrackerAssumption
       DEF NewTracker, TrackerInv, TrackerType, IdRange

\* Replacing the targets of a tracker by targets with known ids.
LEMMA ReplaceTargets ==
    ASSUME NEW t, TrackerInv(t), NEW T,
           NEW n \in 1 .. MaxIdOffset, NEW angle \in Nat,
           \A i \in DOMAIN T :
               /\ T[i] \in TargetType
               /\ Consistent(T[i])
               /\ i \in DOMAIN t.targets \/ i = t.id_base + t.next_id
    PROVE  TrackerInv([t EXCEPT !.targets = T, !.next_id = n, !.last_angle = angle])
  <1> DEFINE u == [t EXCEPT !.targets = T, !.next_id = n, !.last_angle = angle]
  <1>1. \A i \in DOMAIN T : t.id_base < i /\ i <= t.id_base + MaxIdOffset
                             /\ i \in Nat
    BY TrackerAssumption DEF TrackerInv, TrackerType, IdRange
  <1>2. /\ u \in [targets : {T}, next_id : 1 .. MaxIdOffset, id_base : Nat,
                  spokes : Nat, last_angle : Nat]
        /\ u.targets = T
        /\ u.id_base = t.id_base
    BY Zenon DEF TrackerInv, TrackerType
  <1> HIDE DEF u
  <1>3. TrackerInv(u)
    BY <1>1, <1>2 DEF TrackerInv, TrackerType, IdRange
  <1>4. QED
    BY <1>3 DEF u

\* Removing targets.
LEMMA RemoveIds ==
    ASSUME NEW t, TrackerInv(t), NEW ids
    PROVE  LET u == [t EXCEPT !.targets = Without(@, ids)]
           IN  /\ TrackerInv(u)
               /\ DOMAIN u.targets = DOMAIN t.targets \ ids
               /\ u.id_base = t.id_base
  <1> DEFINE T == Without(t.targets, ids)
             u == [t EXCEPT !.targets = Without(@, ids)]
  <1>1. /\ DOMAIN T = DOMAIN t.targets \ ids
        /\ \A i \in DOMAIN T : T[i] = t.targets[i]
    BY DEF Without, Restrict
  <1>2. /\ t.next_id \in 1 .. MaxIdOffset /\ t.last_angle \in Nat
        /\ \A i \in DOMAIN T :
               /\ T[i] \in TargetType
               /\ Consistent(T[i])
               /\ i \in DOMAIN t.targets \/ i = t.id_base + t.next_id
    BY <1>1 DEF TrackerInv, TrackerType
  <1>3. u = [t EXCEPT !.targets = T, !.next_id = t.next_id,
                      !.last_angle = t.last_angle]
    BY Zenon DEF TrackerInv, TrackerType
  <1>5. u.targets = T /\ u.id_base = t.id_base
    BY DEF TrackerInv, TrackerType
  <1> HIDE DEF T, u
  <1>4. TrackerInv(u)
    BY <1>2, <1>3, ReplaceTargets, Zenon
  <1>6. QED
    BY <1>1, <1>4, <1>5 DEF u, T

\* A merge at a revolution boundary removes young targets and ages the others.
LEMMA Revolution ==
    ASSUME NEW t, TrackerInv(t), NEW angle \in Nat,
           NEW merged \in (IF IsBoundary(t, angle)
                           THEN deduplicate_targets(t.targets) ELSE {{}})
    PROVE  LET u == check_revolution(t, angle, merged)
           IN  /\ TrackerInv(u)
               /\ DOMAIN u.targets \subseteq DOMAIN t.targets
               /\ \A i \in DOMAIN t.targets \ DOMAIN u.targets :
                      Young(t.targets[i])
               /\ u.id_base = t.id_base
               /\ u.next_id = t.next_id
  <1> DEFINE u == check_revolution(t, angle, merged)
             left == Without(t.targets, merged)
  <1>0. t \in [targets : {t.targets}, next_id : 1 .. MaxIdOffset, id_base : Nat,
               spokes : Nat, last_angle : Nat]
    BY DEF TrackerInv, TrackerType
  <1>1. CASE IsBoundary(t, angle)
    <2>1. u = [t EXCEPT !.targets = Aged(left), !.next_id = t.next_id,
                        !.last_angle = angle]
      BY <1>0, <1>1, Zenon DEF check_revolution, on_revolution_complete
    <2>2. /\ DOMAIN Aged(left) = DOMAIN t.targets \ merged
          /\ \A i \in DOMAIN left : i \in DOMAIN t.targets /\ left[i] = t.targets[i]
          /\ DOMAIN left = DOMAIN t.targets \ merged
      BY DEF Aged, Without, Restrict
    <2>3. /\ \A i \in DOMAIN Aged(left) :
                 /\ Aged(left)[i] \in TargetType
                 /\ Consistent(Aged(left)[i])
                 /\ i \in DOMAIN t.targets \/ i = t.id_base + t.next_id
          /\ t.next_id \in 1 .. MaxIdOffset
      BY <2>2, AgeTargets DEF TrackerInv, TrackerType
    <2>4. TrackerInv(u)
      <3> HIDE DEF u, left
      <3> QED
        BY <2>1, <2>3, ReplaceTargets, Zenon
    <2>5. \A i \in merged : Young(t.targets[i])
      BY <1>1 DEF deduplicate_targets
    <2>6. u.targets = Aged(left) /\ u.id_base = t.id_base /\ u.next_id = t.next_id
      BY <1>0, <2>1
    <2>7. QED
      BY <2>2, <2>4, <2>5, <2>6
  <1>2. CASE ~IsBoundary(t, angle)
    <2>1. u = [t EXCEPT !.targets = t.targets, !.next_id = t.next_id,
                        !.last_angle = angle]
      BY <1>0, <1>2, Zenon DEF check_revolution
    <2>2. TrackerInv(u)
      <3>1. /\ \A i \in DOMAIN t.targets :
                   /\ t.targets[i] \in TargetType
                   /\ Consistent(t.targets[i])
                   /\ i \in DOMAIN t.targets \/ i = t.id_base + t.next_id
            /\ t.next_id \in 1 .. MaxIdOffset
        BY DEF TrackerInv, TrackerType
      <3> HIDE DEF u
      <3>2. QED
        BY <2>1, <3>1, ReplaceTargets, Zenon
    <2>3. u.targets = t.targets /\ u.id_base = t.id_base /\ u.next_id = t.next_id
      BY <1>0, <2>1
    <2>4. QED
      BY <2>2, <2>3
  <1>3. QED
    BY <1>1, <1>2

\* check_timeouts: what it deletes was unseen for the lost period and then for
\* the delete period of its kind.
LEMMA Timeouts ==
    ASSUME NEW t, TrackerInv(t)
    PROVE  LET u == check_timeouts(t)
           IN  /\ TrackerInv(u)
               /\ DOMAIN u.targets = DOMAIN t.targets \ Expired(t)
               /\ u.id_base = t.id_base
               /\ \A i \in Expired(t) :
                      t.targets[i].age >= LostLimit(t.targets[i])
                                            + DeleteLimit(t.targets[i])
  <1> DEFINE u == check_timeouts(t)
             T == [i \in DOMAIN t.targets \ Expired(t) |->
                      IF i \in Overdue(t) THEN MarkLost(t.targets[i])
                      ELSE t.targets[i]]
  <1>0. t \in [targets : {t.targets}, next_id : 1 .. MaxIdOffset, id_base : Nat,
               spokes : Nat, last_angle : Nat]
    BY DEF TrackerInv, TrackerType
  <1>1. u = [t EXCEPT !.targets = T, !.next_id = t.next_id,
                      !.last_angle = t.last_angle]
    BY <1>0, Zenon DEF check_timeouts
  <1>2. \A i \in DOMAIN t.targets :
            t.targets[i] \in TargetType /\ Consistent(t.targets[i])
    BY DEF TrackerInv, TrackerType
  <1>3. \A i \in Overdue(t) : /\ i \in DOMAIN t.targets
                              /\ t.targets[i].age >= LostLimit(t.targets[i])
    BY DEF Overdue
  <1>4. /\ \A i \in DOMAIN T :
               /\ T[i] \in TargetType
               /\ Consistent(T[i])
               /\ i \in DOMAIN t.targets \/ i = t.id_base + t.next_id
        /\ t.next_id \in 1 .. MaxIdOffset
        /\ t.last_angle \in Nat
        /\ DOMAIN T = DOMAIN t.targets \ Expired(t)
    BY <1>0, <1>2, <1>3, LoseTarget
  <1>5. u.targets = T /\ u.id_base = t.id_base
    BY <1>0, <1>1
  <1> HIDE DEF u, T
  <1>6. TrackerInv(u)
    BY <1>1, <1>4, ReplaceTargets, Zenon
  <1>7. ASSUME NEW i \in Expired(t)
        PROVE  t.targets[i].age >= LostLimit(t.targets[i])
                                     + DeleteLimit(t.targets[i])
    <2> DEFINE tg == t.targets[i]
    <2>1. tg \in TargetType /\ Consistent(tg)
      BY <1>2 DEF Expired
    <2>2. tg.status = "lost" /\ tg.lost_age >= DeleteLimit(tg)
      BY DEF Expired
    <2>3. tg.age \in 0 .. AgeCap /\ tg.lost_age \in 0 .. AgeCap
      BY <2>1 DEF TargetType
    <2>4. /\ LostLimit(tg) \in Nat /\ DeleteLimit(tg) \in Nat
          /\ LostLimit(tg) + DeleteLimit(tg) <= AgeCap
      BY TrackerAssumption DEF LostLimit, DeleteLimit
    <2> HIDE DEF tg
    <2>5. tg.age >= LostLimit(tg) + DeleteLimit(tg)
      BY <2>1, <2>2, <2>3, <2>4, TrackerAssumption DEF Consistent
    <2>6. QED
      BY <2>5 DEF tg
  <1>8. QED
    BY <1>4, <1>5, <1>6, <1>7 DEF u

\* A new target takes an id of the tracker's range.
LEMMA Create ==
    ASSUME NEW t, TrackerInv(t), NEW cand \in Candidate
    PROVE  LET u == create_target(t, cand)
           IN  /\ TrackerInv(u)
               /\ DOMAIN u.targets = DOMAIN t.targets \cup {AllocatedId(t)}
               /\ \A i \in DOMAIN t.targets :
                      i # AllocatedId(t) => u.targets[i] = t.targets[i]
               /\ u.targets[AllocatedId(t)] = new(cand)
               /\ u.id_base = t.id_base
  <1> DEFINE u == create_target(t, cand)
             T == Insert(t.targets, AllocatedId(t), new(cand))
             n == IF t.next_id + 1 > MaxIdOffset THEN 1 ELSE t.next_id + 1
  <1>0. t \in [targets : {t.targets}, next_id : 1 .. MaxIdOffset, id_base : Nat,
               spokes : Nat, last_angle : Nat]
    BY DEF TrackerInv, TrackerType
  <1>1. u = [t EXCEPT !.targets = T, !.next_id = n, !.last_angle = t.last_angle]
    BY <1>0, Zenon DEF create_target, next_target_id
  <1>2. n \in 1 .. MaxIdOffset /\ t.last_angle \in Nat
    BY <1>0, TrackerAssumption
  <1>3. /\ DOMAIN T = DOMAIN t.targets \cup {AllocatedId(t)}
        /\ T[AllocatedId(t)] = new(cand)
        /\ \A i \in DOMAIN t.targets : i # AllocatedId(t) => T[i] = t.targets[i]
    BY DEF Insert
  <1>4. \A i \in DOMAIN T :
            /\ T[i] \in TargetType
            /\ Consistent(T[i])
            /\ i \in DOMAIN t.targets \/ i = t.id_base + t.next_id
    <2> HIDE DEF T
    <2> QED
      BY <1>3, NewTarget DEF TrackerInv, TrackerType, AllocatedId
  <1>5. u.targets = T /\ u.id_base = t.id_base
    BY <1>0, <1>1
  <1> HIDE DEF u, T, n
  <1>6. TrackerInv(u)
    BY <1>1, <1>2, <1>4, ReplaceTargets, Zenon
  <1>7. QED
    BY <1>3, <1>5, <1>6 DEF u

\* process_candidate updates the target it matched, or creates one, or
\* changes nothing.
LEMMA ProcessCandidate ==
    ASSUME NEW t, TrackerInv(t), NEW cand \in Candidate,
           NEW m \in DOMAIN t.targets \cup {NoMatch},
           NEW rejected \in BOOLEAN, NEW slow \in BOOLEAN
    PROVE  LET u == process_candidate(t, cand, m, rejected, slow)
           IN  /\ TrackerInv(u)
               /\ DOMAIN t.targets \subseteq DOMAIN u.targets
               /\ u.id_base = t.id_base
  <1> DEFINE u == process_candidate(t, cand, m, rejected, slow)
  <1>0. t \in [targets : {t.targets}, next_id : 1 .. MaxIdOffset, id_base : Nat,
               spokes : Nat, last_angle : Nat]
    BY DEF TrackerInv, TrackerType
  <1>1. CASE Accepted(m, rejected)
    <2> DEFINE T == [t.targets EXCEPT ![m] = update(@, cand, slow)]
    <2>1. u = [t EXCEPT !.targets = T, !.next_id = t.next_id,
                        !.last_angle = t.last_angle]
      BY <1>0, <1>1, Zenon DEF process_candidate
    <2>2. m \in DOMAIN t.targets
      BY <1>1 DEF Accepted
    <2>3. /\ DOMAIN T = DOMAIN t.targets
          /\ T[m] = update(t.targets[m], cand, slow)
          /\ \A i \in DOMAIN T : i # m => T[i] = t.targets[i]
      BY <2>2
    <2> HIDE DEF T
    <2>4. /\ \A i \in DOMAIN T :
                 /\ T[i] \in TargetType
                 /\ Consistent(T[i])
                 /\ i \in DOMAIN t.targets \/ i = t.id_base + t.next_id
          /\ t.next_id \in 1 .. MaxIdOffset
          /\ t.last_angle \in Nat
      BY <1>0, <2>2, <2>3, UpdateTarget DEF TrackerInv, TrackerType
    <2>5. u.targets = T /\ u.id_base = t.id_base
      BY <1>0, <2>1
    <2>6. TrackerInv(u)
      <3> HIDE DEF u
      <3> QED
        BY <2>1, <2>4, ReplaceTargets, Zenon
    <2>7. QED
      BY <2>3, <2>5, <2>6
  <1>2. CASE ~Accepted(m, rejected) /\ Acquires(cand, m, rejected)
    <2>1. u = create_target(t, cand)
      BY <1>2 DEF process_candidate
    <2>2. QED
      BY <2>1, Create
  <1>3. CASE ~Accepted(m, rejected) /\ ~Acquires(cand, m, rejected)
    BY <1>3 DEF process_candidate
  <1>4. QED
    BY <1>1, <1>2, <1>3

-----------------------------------------------------------------------------
(* The parts of a step *)

\* A batch of target updates keeps the view typed.
LEMMA ShowKeepsType ==
    ASSUME NEW view, ViewType(view), NEW r \in Radars, NEW t, TrackerInv(t),
           NEW ids \in SUBSET DOMAIN t.targets
    PROVE  ViewType(Show(view, r, t.targets, ids))
  <1>1. /\ ids \subseteq Nat
        /\ \A i \in ids : t.targets[i].status \in Status
    BY DEF TrackerInv, TrackerType, TargetType
  <1>2. QED
    BY <1>1 DEF Show, ViewType, Paths

\* Deleting paths keeps the view typed.
LEMMA HideKeepsType ==
    ASSUME NEW view, ViewType(view), NEW paths
    PROVE  ViewType(Hide(view, paths))
  BY DEF Hide, ViewType

\* The turns of the targets a tracker has after a step.
LEMMA TurnsKeepType ==
    ASSUME TypeOK, NEW k \in Keys, NEW T, NEW seen, NEW wrapped \in BOOLEAN,
           DOMAIN T \ seen \subseteq Live(k)
    PROVE  LET turned == TurnsAfter(k, T, seen, wrapped)
           IN  /\ DOMAIN turned = Keys
               /\ turned[k] \in [DOMAIN T -> 0 .. AgeCap]
               /\ \A l \in Keys : l # k => turned[l] = turns[l]
  <1>1. turns[k] \in [Live(k) -> 0 .. AgeCap] /\ DOMAIN turns = Keys
    BY DEF TypeOK
  <1>2. \A i \in DOMAIN T :
            (IF i \in seen THEN 0
             ELSE IF wrapped THEN Bump(turns[k][i], AgeCap) ELSE turns[k][i])
            \in 0 .. AgeCap
    BY <1>1, TrackerAssumption DEF Bump
  <1>3. QED
    BY <1>1, <1>2 DEF TurnsAfter

\* get_or_create_tracker and get_radar_index: the tracker a blob or a MARPA
\* request goes to.
LEMMA ExistingOrNew ==
    ASSUME IInv, NEW r \in Radars, NEW spokes \in Nat
    PROVE  LET t == get_or_create_tracker(r, spokes)
           IN  /\ TrackerInv(t)
               /\ t.targets = Targets(KeyOf(r))
               /\ KeyOf(r) \in Keys
               /\ KeyOf(r) \in Active => t.id_base = trackers[KeyOf(r)].id_base
               /\ KeyOf(r) \notin Active =>
                      t.id_base = get_radar_index(r) * (MaxIdOffset + 1)
  <1>1. KeyOf(r) \in Keys
    BY DEF KeyOf, Keys
  <1>2. CASE KeyOf(r) \in Active
    BY <1>1, <1>2 DEF get_or_create_tracker, IInv, Targets
  <1>3. CASE KeyOf(r) \notin Active
    <2>1. get_radar_index(r) \in Nat
      BY DEF get_radar_index, IInv, TypeOK
    <2>2. NewTracker(get_radar_index(r), spokes).targets = [i \in {} |-> 0]
      BY DEF NewTracker
    <2>3. QED
      BY <1>1, <1>3, <2>1, <2>2, StartTracker DEF get_or_create_tracker, Targets
  <1>4. QED
    BY <1>2, <1>3

\* A step that writes back the tracker of one radar, assigning an index when
\* the tracker is new.
LEMMA WriteTracker ==
    ASSUME IInv, NEW r \in Radars, NEW spokes \in Nat, NEW u, TrackerInv(u),
           u.id_base = get_or_create_tracker(r, spokes).id_base,
           trackers' = Insert(trackers, KeyOf(r), u),
           AssignIndex(r)
    PROVE  /\ Active' = Active \cup {KeyOf(r)}
           /\ Active' \subseteq Keys
           /\ \A k \in Active' : TrackerInv(trackers'[k])
           /\ radar_indices' \in [Radars -> Nat]
           /\ next_radar_index' \in Nat \ {0}
           /\ IndexInv'
           /\ Live(KeyOf(r))' = DOMAIN u.targets
           /\ \A k \in Keys : k # KeyOf(r) => Live(k)' = Live(k)
  <1> DEFINE key == KeyOf(r)
             base == get_or_create_tracker(r, spokes).id_base
  <1>1. /\ Active' = Active \cup {key}
        /\ trackers'[key] = u
        /\ \A k \in Active : k # key => trackers'[k] = trackers[k]
    BY DEF Active, Insert
  <1>2. /\ key \in Keys
        /\ key \in Active => base = trackers[key].id_base
        /\ key \notin Active => base = get_radar_index(r) * (MaxIdOffset + 1)
    BY ExistingOrNew
  <1> HIDE DEF key, base
  <1>3. /\ Active' \subseteq Keys
        /\ \A k \in Active' : TrackerInv(trackers'[k])
    BY <1>1, <1>2 DEF IInv, TypeOK
  <1>4. /\ Live(key)' = DOMAIN u.targets
        /\ \A k \in Keys : k # key => Live(k)' = Live(k)
    BY <1>1, <1>2 DEF Live, Targets
  <1>5. /\ radar_indices \in [Radars -> Nat]
        /\ next_radar_index \in Nat \ {0}
        /\ IndexInv
    BY DEF IInv, TypeOK
  <1>6. CASE key \notin Active /\ radar_indices[r] = 0
    <2>1. /\ radar_indices' = [radar_indices EXCEPT ![r] = next_radar_index]
          /\ next_radar_index' = next_radar_index + 1
          /\ get_radar_index(r) = next_radar_index
      BY <1>6 DEF AssignIndex, get_radar_index, key
    <2>2. /\ \A s \in Radars : radar_indices'[s] < next_radar_index'
          /\ \A s, q \in Radars :
                 s # q /\ radar_indices'[s] = radar_indices'[q]
                 => radar_indices'[s] = 0
      BY <1>5, <2>1 DEF IndexInv
    <2>3. ASSUME ~MergeMode, NEW k \in Active'
          PROVE  /\ radar_indices'[k] # 0
                 /\ trackers'[k].id_base = radar_indices'[k] * (MaxIdOffset + 1)
      <3>1. key = r
        BY <2>3 DEF key, KeyOf
      <3>2. CASE k = key
        BY <1>1, <1>2, <1>5, <1>6, <2>1, <3>1, <3>2 DEF base
      <3>3. CASE k # key
        BY <1>1, <1>5, <2>1, <2>3, <3>1, <3>3 DEF IndexInv
      <3>4. QED
        BY <3>2, <3>3
    <2>4. QED
      BY <1>1, <1>3, <1>4, <1>5, <2>1, <2>2, <2>3 DEF IndexInv, key
  <1>7. CASE ~(key \notin Active /\ radar_indices[r] = 0)
    <2>1. UNCHANGED <<radar_indices, next_radar_index>>
      BY <1>7 DEF AssignIndex, key
    <2>2. ASSUME ~MergeMode, NEW k \in Active'
          PROVE  /\ radar_indices[k] # 0
                 /\ trackers'[k].id_base = radar_indices[k] * (MaxIdOffset + 1)
      <3>1. key = r
        BY <2>2 DEF key, KeyOf
      <3>2. CASE k = key
        BY <1>1, <1>2, <1>5, <1>7, <2>1, <2>2, <3>1, <3>2
           DEF base, IndexInv, get_radar_index
      <3>3. CASE k # key
        BY <1>1, <1>5, <2>2, <3>3 DEF IndexInv
      <3>4. QED
        BY <3>2, <3>3
    <2>3. QED
      BY <1>1, <1>3, <1>4, <1>5, <2>1, <2>2 DEF IndexInv, key
  <1>8. QED
    BY <1>6, <1>7

-----------------------------------------------------------------------------
(* The actions *)

\* The typing of a state follows from its parts.
LEMMA TypeFromParts ==
    ASSUME Active \subseteq Keys,
           \A k \in Active : TrackerInv(trackers[k]),
           radar_indices \in [Radars -> Nat], next_radar_index \in Nat \ {0},
           ViewType(shown), antenna \in [Radars -> Nat],
           DOMAIN turns = Keys,
           \A k \in Keys : turns[k] \in [Live(k) -> 0 .. AgeCap]
    PROVE  TypeOK
  BY DEF TypeOK, TrackerInv

\* Initially there is no target and no index.
LEMMA InitInv == Init => IInv
  <1> SUFFICES ASSUME Init PROVE IInv
    OBVIOUS
  <1>1. /\ Active \subseteq Keys
        /\ \A k \in Active : trackers[k] = NewTracker(0, DefaultSpokes)
        /\ ~MergeMode => Active = {}
    BY DEF Init, Active, Keys
  <1>2. TrackerInv(NewTracker(0, DefaultSpokes))
        /\ DOMAIN NewTracker(0, DefaultSpokes).targets = {}
    BY StartTracker, ManagerAssumption
  <1>3. \A k \in Keys : Live(k) = {}
    BY <1>1, <1>2 DEF Live, Targets
  <1>4. TypeOK
    <2>1. \A k \in Keys : turns[k] \in [Live(k) -> 0 .. AgeCap]
      BY <1>3 DEF Init
    <2>2. ViewType(shown)
      BY DEF Init, ViewType
    <2>3. /\ radar_indices \in [Radars -> Nat]
          /\ next_radar_index \in Nat \ {0}
          /\ antenna \in [Radars -> Nat]
          /\ DOMAIN turns = Keys
      BY DEF Init
    <2>4. QED
      BY <1>1, <1>2, <2>1, <2>2, <2>3, TypeFromParts
  <1>5. IndexInv
    BY <1>1 DEF Init, IndexInv
  <1>6. QED
    BY <1>1, <1>2, <1>4, <1>5 DEF IInv

\* What becomes of a radar's tracker (t0) when a blob is processed: first a
\* revolution (t1), then the candidate (t2).
BlobEffect(r, t0, t1, t2, m, rejected) ==
    /\ t0.targets = Targets(KeyOf(r))
    /\ DOMAIN t1.targets \subseteq DOMAIN t0.targets
    /\ \A i \in DOMAIN t0.targets \ DOMAIN t1.targets : Young(t0.targets[i])
    /\ TrackerInv(t2)
    /\ DOMAIN t1.targets \subseteq DOMAIN t2.targets
    /\ Accepted(m, rejected) => DOMAIN t2.targets = DOMAIN t1.targets
    /\ t2.id_base = t0.id_base

\* A blob: the steps up to the tracker it leaves.
LEMMA BlobTrackers ==
    ASSUME IInv, NEW r \in Radars, NEW angle \in BlobAngles[r],
           NEW merged \in Merges(r, angle),
           NEW cand \in [pos : Positions, source : Sources, radar : {r}],
           NEW m \in DOMAIN Turned(r, angle, merged).targets \cup {NoMatch},
           NEW rejected \in BOOLEAN, NEW slow \in BOOLEAN
    PROVE  LET t0 == BlobTracker(r)
               t1 == Turned(r, angle, merged)
               t2 == process_candidate(t1, cand, m, rejected, slow)
           IN  BlobEffect(r, t0, t1, t2, m, rejected)
  <1> DEFINE t0 == BlobTracker(r)
             t1 == Turned(r, angle, merged)
             t2 == process_candidate(t1, cand, m, rejected, slow)
  <1>1. angle \in Nat /\ SpokesOf[r] \in Nat /\ cand \in Candidate
    BY ManagerAssumption DEF Candidate
  <1>2. TrackerInv(t0) /\ t0.targets = Targets(KeyOf(r))
    BY <1>1, ExistingOrNew DEF BlobTracker
  <1>3. /\ TrackerInv(t1)
        /\ DOMAIN t1.targets \subseteq DOMAIN t0.targets
        /\ \A i \in DOMAIN t0.targets \ DOMAIN t1.targets : Young(t0.targets[i])
        /\ t1.id_base = t0.id_base
    BY <1>1, <1>2, Revolution DEF Merges, Turned
  <1> HIDE DEF t1
  <1>4. m \in DOMAIN t1.targets \cup {NoMatch}
    BY DEF t1
  <1>5. /\ TrackerInv(t2)
        /\ DOMAIN t1.targets \subseteq DOMAIN t2.targets
        /\ t2.id_base = t1.id_base
    BY <1>1, <1>3, <1>4, ProcessCandidate
  <1>6. Accepted(m, rejected) => DOMAIN t2.targets = DOMAIN t1.targets
    BY <1>3 DEF process_candidate, TrackerInv, TrackerType
  <1>7. QED
    BY <1>2, <1>3, <1>5, <1>6, ZenonT(40) DEF t1, BlobEffect

\* A blob.
LEMMA BlobInv ==
    ASSUME IInv, NEW r \in Radars, process_blob(r)
    PROVE  IInv'
  <1>1. PICK angle \in BlobAngles[r] : \E merged \in Merges(r, angle) :
             \E cand \in [pos : Positions, source : Sources, radar : {r}],
                m \in DOMAIN Turned(r, angle, merged).targets \cup {NoMatch},
                rejected \in BOOLEAN, slow \in BOOLEAN :
                    process_turned(r, angle, Turned(r, angle, merged),
                                   cand, m, rejected, slow)
    BY DEF process_blob
  <1>0. PICK merged \in Merges(r, angle) :
             \E cand \in [pos : Positions, source : Sources, radar : {r}],
                m \in DOMAIN Turned(r, angle, merged).targets \cup {NoMatch},
                rejected \in BOOLEAN, slow \in BOOLEAN :
                    process_turned(r, angle, Turned(r, angle, merged),
                                   cand, m, rejected, slow)
    BY <1>1
  <1>2. PICK cand \in [pos : Positions, source : Sources, radar : {r}],
             m \in DOMAIN Turned(r, angle, merged).targets \cup {NoMatch},
             rejected \in BOOLEAN, slow \in BOOLEAN :
                process_turned(r, angle, Turned(r, angle, merged),
                               cand, m, rejected, slow)
    BY <1>0
  <1> DEFINE k == KeyOf(r)
             t0 == BlobTracker(r)
             t1 == Turned(r, angle, merged)
             t2 == process_candidate(t1, cand, m, rejected, slow)
             view == IF Promotes(t1, cand, m, rejected, slow)
                     THEN Show(shown, r, t2.targets, {m}) ELSE shown
             seen == IF Accepted(m, rejected) THEN {m}
                     ELSE DOMAIN t2.targets \ DOMAIN t1.targets
  <1>3. /\ trackers' = Insert(trackers, k, t2)
        /\ AssignIndex(r)
        /\ shown' = (IF IsBoundary(t0, angle)
                     THEN broadcast_all_targets(view, r, t2.targets) ELSE view)
        /\ antenna' = [antenna EXCEPT ![r] = angle]
        /\ turns' = TurnsAfter(k, t2.targets, seen, angle < antenna[r])
    BY <1>2, Zenon DEF process_turned
  <1>4. /\ t0.targets = Targets(k)
        /\ DOMAIN t1.targets \subseteq DOMAIN t0.targets
        /\ TrackerInv(t2)
        /\ DOMAIN t1.targets \subseteq DOMAIN t2.targets
        /\ Accepted(m, rejected) => DOMAIN t2.targets = DOMAIN t1.targets
        /\ t2.id_base = t0.id_base
    <2>1. BlobEffect(r, t0, t1, t2, m, rejected)
      BY BlobTrackers, ZenonT(40)
    <2> HIDE DEF t0, t1, t2
    <2>2. QED
      BY <2>1, Zenon DEF BlobEffect, k
  <1>5. k \in Keys /\ angle \in Nat /\ SpokesOf[r] \in Nat
    BY ManagerAssumption DEF k, KeyOf, Keys
  <1>6. m \in DOMAIN t1.targets \cup {NoMatch}
    OBVIOUS
  <1> HIDE DEF t2, t1
  <1>7. ViewType(shown')
    <2>1. ViewType(shown)
      BY DEF IInv, TypeOK
    <2>2. ViewType(view)
      <3>1. CASE Promotes(t1, cand, m, rejected, slow)
        <4>1. {m} \in SUBSET DOMAIN t2.targets
          BY <1>4, <1>6, <3>1, ZenonT(40) DEF Promotes, Accepted
        <4>2. ViewType(Show(shown, r, t2.targets, {m}))
          BY <1>4, <2>1, <4>1, ShowKeepsType, ZenonT(40)
        <4>3. QED
          BY <3>1, <4>2, ZenonT(40)
      <3>2. CASE ~Promotes(t1, cand, m, rejected, slow)
        BY <2>1, <3>2
      <3>3. QED
        BY <3>1, <3>2
    <2> HIDE DEF view
    <2>3. Reported(t2.targets) \in SUBSET DOMAIN t2.targets
      BY DEF Reported
    <2>4. ViewType(broadcast_all_targets(view, r, t2.targets))
      BY <1>4, <2>2, <2>3, ShowKeepsType, Zenon DEF broadcast_all_targets
    <2>5. QED
      BY <1>3, <2>2, <2>4
  <1>8. DOMAIN t2.targets \ seen \subseteq Live(k)
    BY <1>4 DEF Live
  <1>9. /\ Active' \subseteq Keys
        /\ \A l \in Active' : TrackerInv(trackers'[l])
        /\ radar_indices' \in [Radars -> Nat]
        /\ next_radar_index' \in Nat \ {0}
        /\ IndexInv'
        /\ Live(k)' = DOMAIN t2.targets
        /\ \A l \in Keys : l # k => Live(l)' = Live(l)
    BY <1>3, <1>4, <1>5, WriteTracker, ZenonT(40) DEF BlobTracker
  <1>10. /\ DOMAIN turns' = Keys
         /\ \A l \in Keys : turns'[l] \in [Live(l)' -> 0 .. AgeCap]
    <2> DEFINE wrapped == angle < antenna[r]
    <2>1. wrapped \in BOOLEAN
      OBVIOUS
    <2>2. TypeOK
      BY DEF IInv
    <2> HIDE DEF seen, k, wrapped
    <2>3. LET turned == TurnsAfter(k, t2.targets, seen, wrapped)
          IN  /\ DOMAIN turned = Keys
              /\ turned[k] \in [DOMAIN t2.targets -> 0 .. AgeCap]
              /\ \A l \in Keys : l # k => turned[l] = turns[l]
      BY <1>5, <1>8, <2>1, <2>2, TurnsKeepType
    <2>4. turns' = TurnsAfter(k, t2.targets, seen, wrapped)
      BY <1>3, ZenonT(40) DEF wrapped
    <2>5. QED
      BY <1>9, <2>2, <2>3, <2>4, Zenon DEF TypeOK
  <1>11. antenna' \in [Radars -> Nat]
    BY <1>3, <1>5, ZenonT(40) DEF IInv, TypeOK
  <1>12. TypeOK'
    BY <1>7, <1>9, <1>10, <1>11, ZenonT(40) DEF TypeOK, TrackerInv
  <1>13. QED
    BY <1>9, <1>12 DEF IInv

\* A blob without a position.
LEMMA UnplacedInv ==
    ASSUME IInv, NEW r \in Radars, process_blob_unplaced(r)
    PROVE  IInv'
  <1>1. PICK angle \in BlobAngles[r] :
            /\ antenna' = [antenna EXCEPT ![r] = angle]
            /\ turns' = TurnsAfter(KeyOf(r), Targets(KeyOf(r)), {},
                                   angle < antenna[r])
            /\ UNCHANGED <<trackers, radar_indices, next_radar_index, shown>>
    BY Zenon DEF process_blob_unplaced
  <1>2. antenna' \in [Radars -> Nat]
    BY <1>1, ManagerAssumption, Zenon DEF IInv, TypeOK
  <1> DEFINE k == KeyOf(r)
             wrapped == angle < antenna[r]
  <1>3. k \in Keys /\ wrapped \in BOOLEAN /\ DOMAIN Targets(k) = Live(k)
    BY DEF KeyOf, Keys, Live
  <1> HIDE DEF k, wrapped
  <1>4. LET turned == TurnsAfter(k, Targets(k), {}, wrapped)
        IN  /\ DOMAIN turned = Keys
            /\ turned[k] \in [DOMAIN Targets(k) -> 0 .. AgeCap]
            /\ \A l \in Keys : l # k => turned[l] = turns[l]
    BY <1>3, TurnsKeepType DEF IInv
  <1>5. /\ DOMAIN turns' = Keys
        /\ \A l \in Keys : turns'[l] \in [Live(l) -> 0 .. AgeCap]
    BY <1>1, <1>3, <1>4, ZenonT(40) DEF IInv, TypeOK, k, wrapped
  <1>6. \A l \in Keys : Live(l)' = Live(l)
    BY <1>1 DEF Live, Targets, Active
  <1>7. QED
    BY <1>1, <1>2, <1>5, <1>6, ZenonT(40) DEF IInv, TypeOK, IndexInv, Active

\* A manual acquisition.
LEMMA MarpaInv ==
    ASSUME IInv, NEW r \in Radars, process_marpa(r)
    PROVE  IInv'
  <1> DEFINE k == KeyOf(r)
             t0 == get_or_create_tracker(r, DefaultSpokes)
             id == AllocatedId(t0)
             C(pos) == [pos |-> pos, source |-> "acquiring", radar |-> r]
  <1>1. PICK pos \in Positions :
            LET t1 == create_target(t0, C(pos))
            IN  /\ trackers' = Insert(trackers, k, t1)
                /\ AssignIndex(r)
                /\ shown' = Show(shown, r, t1.targets, {id})
                /\ turns' = TurnsAfter(k, t1.targets, {id}, FALSE)
                /\ UNCHANGED antenna
    BY Zenon DEF process_marpa
  <1> DEFINE t1 == create_target(t0, C(pos))
  <1>2. C(pos) \in Candidate /\ DefaultSpokes \in Nat
    BY ManagerAssumption DEF Candidate, Sources
  <1>3. TrackerInv(t0) /\ t0.targets = Targets(k) /\ k \in Keys
    BY <1>2, ExistingOrNew
  <1>4. /\ TrackerInv(t1)
        /\ DOMAIN t1.targets = DOMAIN t0.targets \cup {id}
        /\ t1.id_base = t0.id_base
    <2> HIDE DEF t0, C
    <2> QED
      BY <1>2, <1>3, Create
  <1> HIDE DEF t1
  <1>5. ViewType(shown')
    <2>1. {id} \in SUBSET DOMAIN t1.targets /\ ViewType(shown)
      BY <1>4, ZenonT(40) DEF IInv, TypeOK
    <2>2. QED
      BY <1>1, <1>4, <2>1, ShowKeepsType, ZenonT(40) DEF t1
  <1>6. /\ Active' \subseteq Keys
        /\ \A l \in Active' : TrackerInv(trackers'[l])
        /\ radar_indices' \in [Radars -> Nat]
        /\ next_radar_index' \in Nat \ {0}
        /\ IndexInv'
        /\ Live(k)' = DOMAIN t1.targets
        /\ \A l \in Keys : l # k => Live(l)' = Live(l)
    BY <1>1, <1>2, <1>4, WriteTracker, ZenonT(40) DEF t1
  <1>7. DOMAIN t1.targets \ {id} \subseteq Live(k) /\ TypeOK
    BY <1>3, <1>4 DEF Live, IInv
  <1>8. /\ DOMAIN turns' = Keys
        /\ \A l \in Keys : turns'[l] \in [Live(l)' -> 0 .. AgeCap]
    <2>0. turns' = TurnsAfter(k, t1.targets, {id}, FALSE)
      BY <1>1 DEF t1
    <2> HIDE DEF k, id
    <2>1. LET turned == TurnsAfter(k, t1.targets, {id}, FALSE)
          IN  /\ DOMAIN turned = Keys
              /\ turned[k] \in [DOMAIN t1.targets -> 0 .. AgeCap]
              /\ \A l \in Keys : l # k => turned[l] = turns[l]
      BY <1>3, <1>7, TurnsKeepType, ZenonT(40)
    <2>2. QED
      BY <1>6, <1>7, <2>0, <2>1, Zenon DEF TypeOK
  <1>9. TypeOK'
    BY <1>1, <1>5, <1>6, <1>7, <1>8, Zenon DEF TypeOK, TrackerInv
  <1>10. QED
    BY <1>6, <1>9 DEF IInv

\* delete_target and clear_all_targets.
LEMMA RemoveInv ==
    ASSUME IInv, NEW r \in Radars, KeyOf(r) \in Active, NEW ids,
           RemoveTargets(r, ids)
    PROVE  IInv'
  <1> DEFINE k == KeyOf(r)
             left == Without(trackers[k].targets, ids)
             u == [trackers[k] EXCEPT !.targets = Without(@, ids)]
  <1>1. /\ trackers' = [trackers EXCEPT ![k].targets = left]
        /\ shown' = Hide(shown, {r} \X ids)
        /\ turns' = TurnsAfter(k, left, {}, FALSE)
        /\ UNCHANGED <<radar_indices, next_radar_index, antenna>>
    BY DEF RemoveTargets
  <1>2. k \in Keys /\ TrackerInv(trackers[k]) /\ TypeOK
    BY DEF KeyOf, Keys, IInv
  <1>3. /\ TrackerInv(u)
        /\ DOMAIN u.targets = DOMAIN trackers[k].targets \ ids
        /\ u.id_base = trackers[k].id_base
    BY <1>2, RemoveIds
  <1>4. u.targets = left
    BY <1>2 DEF TrackerInv, TrackerType
  <1>5. trackers' = [trackers EXCEPT ![k] = u]
    BY <1>1, <1>2 DEF TrackerInv, TrackerType
  <1> HIDE DEF u, left
  <1>6. /\ Active' = Active
        /\ trackers'[k] = u
        /\ \A l \in Active : l # k => trackers'[l] = trackers[l]
    BY <1>5 DEF Active
  <1>7. /\ Live(k)' = DOMAIN left
        /\ DOMAIN left \subseteq Live(k)
        /\ \A l \in Keys : l # k => Live(l)' = Live(l)
    BY <1>3, <1>4, <1>6 DEF Live, Targets
  <1>8. /\ \A l \in Active' : TrackerInv(trackers'[l])
        /\ IndexInv'
    BY <1>1, <1>3, <1>6 DEF IInv, IndexInv
  <1>9. ViewType(shown')
    BY <1>1, <1>2, HideKeepsType DEF TypeOK
  <1>10. /\ DOMAIN turns' = Keys
         /\ \A l \in Keys : turns'[l] \in [Live(l)' -> 0 .. AgeCap]
    <2> HIDE DEF k
    <2>1. LET turned == TurnsAfter(k, left, {}, FALSE)
          IN  /\ DOMAIN turned = Keys
              /\ turned[k] \in [DOMAIN left -> 0 .. AgeCap]
              /\ \A l \in Keys : l # k => turned[l] = turns[l]
      BY <1>2, <1>7, TurnsKeepType, Zenon
    <2>2. QED
      BY <1>1, <1>2, <1>7, <2>1, Zenon DEF TypeOK
  <1>11. TypeOK'
    BY <1>1, <1>2, <1>6, <1>8, <1>9, <1>10, Zenon DEF TypeOK, TrackerInv
  <1>12. QED
    BY <1>8, <1>11 DEF IInv

\* The periodic check of all trackers.
LEMMA TimeoutsInv ==
    ASSUME IInv, check_all_timeouts
    PROVE  IInv'
  <1>1. /\ trackers' = [k \in Active |-> check_timeouts(trackers[k])]
        /\ shown' = Hide(ShowLost(shown, LostPaths), DeletedPaths)
        /\ turns' = [k \in Keys |-> IF k \in Active
                                    THEN Without(turns[k], Expired(trackers[k]))
                                    ELSE turns[k]]
        /\ UNCHANGED <<radar_indices, next_radar_index, antenna>>
    BY DEF check_all_timeouts
  <1>2. /\ Active' = Active
        /\ \A k \in Active : trackers'[k] = check_timeouts(trackers[k])
    BY <1>1 DEF Active
  <1>3. \A k \in Active :
            /\ TrackerInv(trackers'[k])
            /\ DOMAIN trackers'[k].targets
                   = DOMAIN trackers[k].targets \ Expired(trackers[k])
            /\ trackers'[k].id_base = trackers[k].id_base
    BY <1>2, Timeouts DEF IInv
  <1>4. IndexInv'
    BY <1>1, <1>2, <1>3 DEF IInv, IndexInv
  <1>5. LostPaths \subseteq Paths
    <2>1. ASSUME NEW k \in Active, NEW i \in Overdue(trackers[k])
          PROVE  <<LostKey(k, Targets(k)[i]), i>> \in Paths
      <3>1. /\ i \in DOMAIN trackers[k].targets
            /\ Targets(k) = trackers[k].targets
        BY DEF Overdue, Targets
      <3>2. i \in Nat /\ Targets(k)[i].radar \in Radars
        BY <3>1 DEF IInv, TrackerInv, TrackerType, TargetType
      <3>3. LostKey(k, Targets(k)[i]) \in Radars
        BY <3>2 DEF LostKey, IInv, TypeOK, Keys
      <3>4. QED
        BY <3>2, <3>3 DEF Paths
    <2>2. QED
      BY <2>1 DEF LostPaths
  <1>6. ViewType(shown')
    <2>1. ViewType(ShowLost(shown, LostPaths))
      BY <1>5 DEF IInv, TypeOK, ViewType, ShowLost, Status
    <2>2. QED
      BY <1>1, <2>1, HideKeepsType
  <1>7. /\ DOMAIN turns' = Keys
        /\ \A k \in Keys : turns'[k] \in [Live(k)' -> 0 .. AgeCap]
    <2>1. ASSUME NEW k \in Keys
          PROVE  turns'[k] \in [Live(k)' -> 0 .. AgeCap]
      <3>1. turns[k] \in [Live(k) -> 0 .. AgeCap]
        BY DEF IInv, TypeOK
      <3>2. CASE k \in Active
        <4>1. Live(k)' = Live(k) \ Expired(trackers[k])
          BY <1>2, <1>3, <3>2 DEF Live, Targets
        <4>2. turns'[k] = Without(turns[k], Expired(trackers[k]))
          BY <1>1, <3>2
        <4>3. QED
          BY <3>1, <4>1, <4>2 DEF Without, Restrict
      <3>3. CASE k \notin Active
        BY <1>1, <1>2, <3>1, <3>3 DEF Live, Targets
      <3>4. QED
        BY <3>2, <3>3
    <2>2. QED
      BY <1>1, <2>1
  <1>8. TypeOK'
    BY <1>1, <1>2, <1>3, <1>6, <1>7, ZenonT(40) DEF IInv, TypeOK, TrackerInv
  <1>9. QED
    BY <1>2, <1>3, <1>4, <1>8 DEF IInv

-----------------------------------------------------------------------------
(* The theorems *)

\* Every step of the tracker task preserves the inductive invariant.
LEMMA NextInv == IInv /\ [Next]_vars => IInv'
  <1> SUFFICES ASSUME IInv, [Next]_vars PROVE IInv'
    OBVIOUS
  <1>1. ASSUME NEW r \in Radars, process_blob(r) PROVE IInv'
    BY <1>1, BlobInv
  <1>2. ASSUME NEW r \in Radars, process_blob_unplaced(r) PROVE IInv'
    BY <1>2, UnplacedInv
  <1>3. ASSUME NEW r \in Radars, process_marpa(r) PROVE IInv'
    BY <1>3, MarpaInv
  <1>4. ASSUME NEW r \in Radars, delete_target(r) PROVE IInv'
    BY <1>4, RemoveInv DEF delete_target, Live, Targets
  <1>5. ASSUME NEW r \in Radars, clear_all_targets(r) PROVE IInv'
    BY <1>5, RemoveInv DEF clear_all_targets, Live, Targets
  <1>6. CASE check_all_timeouts
    BY <1>6, TimeoutsInv
  <1>7. CASE UNCHANGED vars
    BY <1>7 DEF vars, IInv, TypeOK, IndexInv, Active, Live, Targets
  <1>8. QED
    BY <1>1, <1>2, <1>3, <1>4, <1>5, <1>6, <1>7 DEF Next

\* The inductive invariant holds throughout.
THEOREM Invariance == Spec => []IInv
  BY InitInv, NextInv, PTL DEF Spec

\* Type correctness, for any number of radars and any limits.
THEOREM TypeCorrect == Spec => []TypeOK
  <1>1. IInv => TypeOK
    BY DEF IInv
  <1>2. QED
    BY <1>1, Invariance, PTL

\* The status of every target agrees with its history.
THEOREM StatusCorrect == Spec => []StatusMatchesHistory
  <1>1. IInv => StatusMatchesHistory
    BY DEF IInv, TrackerInv, StatusMatchesHistory, Live, Targets
  <1>2. QED
    BY <1>1, Invariance, PTL

\* The id ranges of two radar indices do not meet.
LEMMA RangesDisjoint ==
    ASSUME NEW a \in Nat, NEW b \in Nat, NEW M \in Nat, a < b
    PROVE  a * (M + 1) + M < b * (M + 1)
  <1>1. b * (M + 1) >= (a + 1) * (M + 1)
    OBVIOUS
  <1>2. (a + 1) * (M + 1) = a * (M + 1) + M + 1
    OBVIOUS
  <1>3. a * (M + 1) \in Nat /\ b * (M + 1) \in Nat
    OBVIOUS
  <1>4. QED
    BY <1>1, <1>2, <1>3

\* Target ids of different radars never clash, whatever the number of radars
\* and however often the id counters wrap.
THEOREM IdsNeverClash == Spec => []IdsAreDisjoint
  <1>1. IInv => IdsAreDisjoint
    <2> SUFFICES ASSUME IInv, NEW k \in Active, NEW l \in Active, k # l,
                        NEW i \in Live(k) \cap Live(l)
                 PROVE  FALSE
      BY DEF IdsAreDisjoint
    <2>1. ~MergeMode /\ k \in Radars /\ l \in Radars
      BY DEF IInv, TypeOK, Keys
    <2> DEFINE a == radar_indices[k]
               b == radar_indices[l]
    <2>2. /\ a \in Nat /\ b \in Nat /\ a # b
          /\ trackers[k].id_base = a * (MaxIdOffset + 1)
          /\ trackers[l].id_base = b * (MaxIdOffset + 1)
      BY <2>1 DEF IInv, TypeOK, IndexInv
    <2>3. /\ i \in Nat
          /\ trackers[k].id_base < i /\ i <= trackers[k].id_base + MaxIdOffset
          /\ trackers[l].id_base < i /\ i <= trackers[l].id_base + MaxIdOffset
      BY DEF IInv, TrackerInv, TrackerType, IdRange, Live, Targets
    <2>4. MaxIdOffset \in Nat
      BY TrackerAssumption
    <2> HIDE DEF a, b
    <2>5. /\ a < b => a * (MaxIdOffset + 1) + MaxIdOffset < b * (MaxIdOffset + 1)
          /\ b < a => b * (MaxIdOffset + 1) + MaxIdOffset < a * (MaxIdOffset + 1)
          /\ a * (MaxIdOffset + 1) \in Nat /\ b * (MaxIdOffset + 1) \in Nat
      BY <2>2, <2>4, RangesDisjoint
    <2>6. a < b \/ b < a
      BY <2>2
    <2>7. QED
      BY <2>2, <2>3, <2>4, <2>5, <2>6
  <1>2. QED
    BY <1>1, Invariance, PTL

\* A confirmed target is never merged away, nor dropped by a blob or a
\* revolution: only the user or the full timeout removes it.
THEOREM ConfirmedIsKept == Spec => ConfirmedOutlivesMerges
  <1>1. IInv /\ [Next]_vars => [ConfirmedStep]_vars
    <2> SUFFICES ASSUME IInv, Next, NEW k \in Keys, NEW i \in Live(k),
                        ~Young(Targets(k)[i]), i \notin Live(k)'
                 PROVE  \/ \E r \in Radars : delete_target(r) \/ clear_all_targets(r)
                        \/ Targets(k)[i].age >= LostLimit(Targets(k)[i])
                                                  + DeleteLimit(Targets(k)[i])
      BY DEF ConfirmedStep
    <2>0. k \in Active /\ Targets(k) = trackers[k].targets
          /\ i \in DOMAIN trackers[k].targets
      BY DEF Live, Targets
    <2>1. ASSUME NEW r \in Radars, process_blob(r) PROVE FALSE
      <3>1. PICK angle \in BlobAngles[r] : \E merged \in Merges(r, angle) :
                 \E cand \in [pos : Positions, source : Sources, radar : {r}],
                    m \in DOMAIN Turned(r, angle, merged).targets \cup {NoMatch},
                    rejected \in BOOLEAN, slow \in BOOLEAN :
                        process_turned(r, angle, Turned(r, angle, merged),
                                       cand, m, rejected, slow)
        BY <2>1 DEF process_blob
      <3>2. PICK merged \in Merges(r, angle) :
                 \E cand \in [pos : Positions, source : Sources, radar : {r}],
                    m \in DOMAIN Turned(r, angle, merged).targets \cup {NoMatch},
                    rejected \in BOOLEAN, slow \in BOOLEAN :
                        process_turned(r, angle, Turned(r, angle, merged),
                                       cand, m, rejected, slow)
        BY <3>1
      <3>3. PICK cand \in [pos : Positions, source : Sources, radar : {r}],
                 m \in DOMAIN Turned(r, angle, merged).targets \cup {NoMatch},
                 rejected \in BOOLEAN, slow \in BOOLEAN :
                     process_turned(r, angle, Turned(r, angle, merged),
                                    cand, m, rejected, slow)
        BY <3>2
      <3> DEFINE t0 == BlobTracker(r)
                 t1 == Turned(r, angle, merged)
                 t2 == process_candidate(t1, cand, m, rejected, slow)
      <3>4. /\ t0.targets = Targets(KeyOf(r))
            /\ \A j \in DOMAIN t0.targets \ DOMAIN t1.targets : Young(t0.targets[j])
            /\ DOMAIN t1.targets \subseteq DOMAIN t2.targets
        <4>1. BlobEffect(r, t0, t1, t2, m, rejected)
          BY BlobTrackers
        <4> HIDE DEF t0, t1, t2
        <4>2. QED
          BY <4>1, Zenon DEF BlobEffect
      <3>5. trackers' = Insert(trackers, KeyOf(r), t2)
        BY <3>3, Zenon DEF process_turned
      <3> HIDE DEF t0, t1, t2
      <3>6. /\ Live(KeyOf(r))' = DOMAIN t2.targets
            /\ k # KeyOf(r) => Live(k)' = Live(k)
        BY <2>0, <3>5, Zenon DEF Insert, Live, Targets, Active
      <3>7. QED
        BY <2>0, <3>4, <3>6 DEF Live
    <2>2. ASSUME NEW r \in Radars, process_blob_unplaced(r) PROVE FALSE
      BY <2>0, <2>2, Zenon DEF process_blob_unplaced, Live, Targets, Active
    <2>3. ASSUME NEW r \in Radars, process_marpa(r) PROVE FALSE
      <3> DEFINE t0 == get_or_create_tracker(r, DefaultSpokes)
                 C(pos) == [pos |-> pos, source |-> "acquiring", radar |-> r]
      <3>1. PICK pos \in Positions :
                trackers' = Insert(trackers, KeyOf(r), create_target(t0, C(pos)))
        BY <2>3 DEF process_marpa
      <3>2. C(pos) \in Candidate /\ DefaultSpokes \in Nat
        BY ManagerAssumption DEF Candidate, Sources
      <3>3. TrackerInv(t0) /\ t0.targets = Targets(KeyOf(r))
        BY <3>2, ExistingOrNew
      <3> DEFINE t1 == create_target(t0, C(pos))
      <3>4. DOMAIN t0.targets \subseteq DOMAIN t1.targets
        <4> HIDE DEF t0, C
        <4> QED
          BY <3>2, <3>3, Create
      <3> HIDE DEF t0, t1, C
      <3>5. /\ Live(KeyOf(r))' = DOMAIN t1.targets
            /\ k # KeyOf(r) => Live(k)' = Live(k)
        BY <2>0, <3>1, ZenonT(40) DEF Insert, Live, Targets, Active, t1
      <3>6. QED
        BY <2>0, <3>3, <3>4, <3>5 DEF Live
    <2>4. CASE check_all_timeouts
      <3>1. trackers' = [l \in Active |-> check_timeouts(trackers[l])]
        BY <2>4, ZenonT(40) DEF check_all_timeouts
      <3>2. /\ DOMAIN trackers'[k].targets
                   = DOMAIN trackers[k].targets \ Expired(trackers[k])
            /\ \A j \in Expired(trackers[k]) :
                   trackers[k].targets[j].age
                       >= LostLimit(trackers[k].targets[j])
                            + DeleteLimit(trackers[k].targets[j])
        BY <2>0, <3>1, Timeouts DEF IInv
      <3>3. Live(k)' = DOMAIN trackers'[k].targets
        BY <2>0, <3>1 DEF Live, Targets, Active
      <3>4. QED
        BY <2>0, <3>2, <3>3
    <2>5. QED
      BY <2>1, <2>2, <2>3, <2>4 DEF Next
  <1>2. QED
    BY <1>1, Invariance, PTL DEF Spec, ConfirmedOutlivesMerges

-----------------------------------------------------------------------------
(* What the clients see.  A tracker that serves one radar broadcasts all   *)
(* it says under one key; in merged mode with several radars it does not,  *)
(* and a client may keep a path that no delta will touch again.            *)

\* Every tracker serves one radar: the default mode with any number of radars,
\* or --merge-targets with a single one.
SoleRadars == \A r, s \in Radars : KeyOf(r) = KeyOf(s) => r = s

\* What a client shows of target i of r, against the targets T of its tracker.
\* A path shown as tracking needs a confirmed target, not just a live one: the
\* next merge of duplicates removes only the young.
FollowsAt(view, r, T, i) ==
    /\ <<r, i>> \in DOMAIN view /\ view[<<r, i>>] = "tracking" =>
           i \in DOMAIN T /\ ~Young(T[i])
    /\ i \in DOMAIN T /\ T[i].status = "tracking" => <<r, i>> \in DOMAIN view
    /\ i \in DOMAIN T /\ T[i].status = "lost" =>
           <<r, i>> \in DOMAIN view /\ view[<<r, i>>] = "lost"

Follows(view, r, T) == \A i \in Nat : FollowsAt(view, r, T, i)

ViewInv ==
    /\ \A p \in DOMAIN shown : p[1] \in Radars
    /\ \A r \in Radars : Follows(shown, r, Targets(KeyOf(r)))

\* The paths of r are the same in both views.
SameFor(view, new_view, r) ==
    \A i \in Nat :
        /\ <<r, i>> \in DOMAIN new_view <=> <<r, i>> \in DOMAIN view
        /\ <<r, i>> \in DOMAIN view => new_view[<<r, i>>] = view[<<r, i>>]

\* A batch for the targets ids of r makes the view right for them.
LEMMA ShowFollows ==
    ASSUME NEW view, NEW r, NEW T, NEW ids \in SUBSET DOMAIN T,
           \A i \in DOMAIN T : Consistent(T[i]),
           \A i \in Nat : i \notin ids => FollowsAt(view, r, T, i)
    PROVE  Follows(Show(view, r, T, ids), r, T)
  <1> DEFINE new_view == Show(view, r, T, ids)
  <1>1. /\ DOMAIN new_view = DOMAIN view \cup ({r} \X ids)
        /\ \A i \in ids : new_view[<<r, i>>] = T[i].status
        /\ \A p \in DOMAIN view : p \notin {r} \X ids => new_view[p] = view[p]
    BY DEF Show
  <1> HIDE DEF new_view
  <1> SUFFICES ASSUME NEW i \in Nat PROVE FollowsAt(new_view, r, T, i)
    BY DEF Follows, new_view
  <1>2. CASE i \in ids
    <2>1. <<r, i>> \in DOMAIN new_view /\ new_view[<<r, i>>] = T[i].status
      BY <1>1, <1>2
    <2>2. i \in DOMAIN T /\ Consistent(T[i])
      BY <1>2
    <2>3. QED
      BY <2>1, <2>2, Zenon DEF FollowsAt, Consistent
  <1>3. CASE i \notin ids
    <2>1. /\ <<r, i>> \in DOMAIN new_view <=> <<r, i>> \in DOMAIN view
          /\ <<r, i>> \in DOMAIN view => new_view[<<r, i>>] = view[<<r, i>>]
      BY <1>1, <1>3
    <2>2. FollowsAt(view, r, T, i)
      BY <1>3
    <2>3. QED
      BY <2>1, <2>2, Zenon DEF FollowsAt
  <1>4. QED
    BY <1>2, <1>3

\* A batch leaves the paths of the other radars alone.
LEMMA ShowOthers ==
    ASSUME NEW view, NEW r, NEW T, NEW ids, NEW s, s # r
    PROVE  SameFor(view, Show(view, r, T, ids), s)
  BY DEF SameFor, Show

\* A step of one radar's tracker, which speaks under that radar's key only.
LEMMA OneRadarStep ==
    ASSUME SoleRadars, ViewInv, NEW r \in Radars,
           \A k : k # KeyOf(r) => Targets(k)' = Targets(k),
           \A s \in Radars : s # r => SameFor(shown, shown', s),
           \A p \in DOMAIN shown' : p[1] \in Radars,
           Follows(shown', r, Targets(KeyOf(r))')
    PROVE  ViewInv'
  <1> SUFFICES ASSUME NEW s \in Radars
               PROVE  Follows(shown', s, Targets(KeyOf(s))')
    BY DEF ViewInv, KeyOf
  <1>1. CASE s = r
    BY <1>1
  <1>2. CASE s # r
    <2>1. Targets(KeyOf(s))' = Targets(KeyOf(s))
      BY <1>2 DEF SoleRadars
    <2>2. Follows(shown, s, Targets(KeyOf(s))) /\ SameFor(shown, shown', s)
      BY <1>2 DEF ViewInv
    <2> DEFINE T == Targets(KeyOf(s))
    <2>3. T' = T
      BY <2>1
    <2> HIDE DEF T
    <2>4. Follows(shown', s, T)
      BY <2>2, Zenon DEF Follows, FollowsAt, SameFor, T
    <2>5. QED
      BY <2>1, <2>4 DEF T
  <1>3. QED
    BY <1>1, <1>2

KeepsStatus(T, U) ==
    \A i \in DOMAIN U :
        i \in DOMAIN T /\ U[i].status = T[i].status /\ U[i].updates = T[i].updates

\* A revolution changes neither the status nor the observations of what it
\* leaves.
LEMMA RevolutionKeepsStatus ==
    ASSUME NEW t, TrackerInv(t), NEW angle, NEW merged
    PROVE  KeepsStatus(t.targets, check_revolution(t, angle, merged).targets)
  <1> DEFINE u == check_revolution(t, angle, merged)
             left == Without(t.targets, merged)
  <1> SUFFICES ASSUME NEW i \in DOMAIN u.targets
               PROVE  /\ i \in DOMAIN t.targets
                      /\ u.targets[i].status = t.targets[i].status
                      /\ u.targets[i].updates = t.targets[i].updates
    BY ZenonT(40) DEF KeepsStatus
  <1>0. t \in [targets : {t.targets}, next_id : 1 .. MaxIdOffset, id_base : Nat,
               spokes : Nat, last_angle : Nat]
    BY DEF TrackerInv, TrackerType
  <1>1. CASE IsBoundary(t, angle)
    <2>1. u.targets = Aged(left)
      BY <1>0, <1>1 DEF check_revolution, on_revolution_complete
    <2>2. /\ i \in DOMAIN t.targets
          /\ i \in DOMAIN left /\ left[i] = t.targets[i]
      BY <2>1, Zenon DEF Aged, Without, Restrict
    <2>3. left[i] \in TargetType
      BY <2>2 DEF TrackerInv, TrackerType
    <2> HIDE DEF left
    <2>4. /\ Aged(left)[i].status = left[i].status
          /\ Aged(left)[i].updates = left[i].updates
      BY <2>2, <2>3, Zenon DEF Aged, TargetType
    <2>5. QED
      BY <2>1, <2>2, <2>4, Zenon
  <1>2. CASE ~IsBoundary(t, angle)
    <2>1. u.targets = t.targets
      BY <1>0, <1>2 DEF check_revolution
    <2>2. QED
      BY <2>1
  <1>3. QED
    BY <1>1, <1>2

\* A merge of duplicates and a revolution leave the view right: what they
\* remove is young, and what is shown as tracking is not.
LEMMA TurnedFollows ==
    ASSUME NEW view, NEW r, NEW t, TrackerInv(t), NEW angle \in Nat,
           NEW merged \in (IF IsBoundary(t, angle)
                           THEN deduplicate_targets(t.targets) ELSE {{}}),
           Follows(view, r, t.targets)
    PROVE  Follows(view, r, check_revolution(t, angle, merged).targets)
  <1> DEFINE T == t.targets
             U == check_revolution(t, angle, merged).targets
  <1>1. /\ DOMAIN U \subseteq DOMAIN T
        /\ \A i \in DOMAIN T \ DOMAIN U : Young(T[i])
    BY Revolution
  <1>2. KeepsStatus(T, U)
    BY RevolutionKeepsStatus, ZenonT(40)
  <1>3. Follows(view, r, T)
    OBVIOUS
  <1> HIDE DEF T, U
  <1>4. \A i \in DOMAIN U : Young(U[i]) <=> Young(T[i])
    BY <1>2 DEF Young, KeepsStatus
  <1>5. Follows(view, r, U)
    BY <1>1, <1>2, <1>3, <1>4, ZenonT(40) DEF Follows, FollowsAt, KeepsStatus
  <1>6. QED
    BY <1>5 DEF U

\* An update counts up to the cap, so a confirmed target stays confirmed.
LEMMA OldStaysOld ==
    ASSUME NEW tg, NEW new_tg, tg.updates \in 1 .. UpdateCap,
           new_tg.updates = Bump(tg.updates, UpdateCap)
    PROVE  ~Young(tg) => ~Young(new_tg)
  BY TrackerAssumption DEF Young, Confirmed, Bump, MinUpdatesForStationary

\* A blob's candidate leaves the view right for every target except one it
\* promotes: what it takes out of the lost status was shown already, and what
\* it creates has an id that no client shows as tracking.
LEMMA CandidateFollows ==
    ASSUME NEW view, NEW r, NEW t, TrackerInv(t), NEW cand \in Candidate,
           NEW m \in DOMAIN t.targets \cup {NoMatch},
           NEW rejected \in BOOLEAN, NEW slow \in BOOLEAN,
           Acquires(cand, m, rejected) => IdFree(t),
           Follows(view, r, t.targets),
           NEW i \in Nat, ~(Promotes(t, cand, m, rejected, slow) /\ i = m)
    PROVE  FollowsAt(view, r,
                     process_candidate(t, cand, m, rejected, slow).targets, i)
  <1> DEFINE T == t.targets
             U == process_candidate(t, cand, m, rejected, slow).targets
  <1>0. t \in [targets : {t.targets}, next_id : 1 .. MaxIdOffset, id_base : Nat,
               spokes : Nat, last_angle : Nat]
    BY DEF TrackerInv, TrackerType
  <1>1. FollowsAt(view, r, T, i)
    BY ZenonT(40) DEF Follows
  <1>2. CASE Accepted(m, rejected)
    <2>1. m \in DOMAIN T /\ U = [T EXCEPT ![m] = update(T[m], cand, slow)]
      BY <1>0, <1>2 DEF process_candidate, Accepted
    <2>2. CASE i # m
      <3>1. (i \in DOMAIN U <=> i \in DOMAIN T) /\ (i \in DOMAIN T => U[i] = T[i])
        BY <2>1, <2>2, ZenonT(40)
      <3> HIDE DEF T, U
      <3>2. FollowsAt(view, r, U, i)
        BY <1>1, <3>1, Zenon DEF FollowsAt
      <3>3. QED
        BY <3>2 DEF U
    <2>3. CASE i = m
      <3> DEFINE tg == T[m]
                 new_tg == update(tg, cand, slow)
      <3>1. i \in DOMAIN U /\ U[i] = new_tg /\ i \in DOMAIN T /\ T[i] = tg
        BY <2>1, <2>3, ZenonT(40)
      <3>2. tg \in TargetType
        BY <2>1 DEF TrackerInv, TrackerType
      <3>3. ~(tg.status = "acquiring" /\ new_tg.status = "tracking")
        BY <1>2, <2>3, ZenonT(40) DEF Promotes
      <3>4. /\ new_tg.updates = Bump(tg.updates, UpdateCap)
            /\ new_tg.status # "lost"
        BY <3>2, ZenonT(40) DEF update, TargetType, Status
      <3>5. tg.updates \in 1 .. UpdateCap /\ tg.status \in Status
        BY <3>2, ZenonT(40) DEF TargetType
      <3>6. ~Young(tg) => ~Young(new_tg)
        BY <3>4, <3>5, OldStaysOld, ZenonT(40)
      <3>7. new_tg.status = "tracking" => tg.status \in {"tracking", "lost"}
        BY <3>3, <3>5, ZenonT(40) DEF Status
      <3> HIDE DEF tg, new_tg, T, U
      <3>8. new_tg.status = "tracking" => tg.status = "tracking" \/ tg.status = "lost"
        BY <3>7
      <3>9. FollowsAt(view, r, U, i)
        BY <1>1, <3>1, <3>4, <3>6, <3>8, Zenon DEF FollowsAt
      <3>10. QED
        BY <3>9 DEF U
    <2>4. QED
      BY <2>2, <2>3, ZenonT(40)
  <1>3. CASE Acquires(cand, m, rejected)
    <2> DEFINE id == AllocatedId(t)
    <2>1. U = create_target(t, cand).targets
      BY <1>3 DEF process_candidate, Acquires
    <2>2. /\ DOMAIN U = DOMAIN T \cup {id}
          /\ U[id] = new(cand)
          /\ \A j \in DOMAIN T : j # id => U[j] = T[j]
      BY <2>1, Create, ZenonT(40)
    <2>3. id \notin DOMAIN T
      BY <1>3, ZenonT(40) DEF IdFree
    <2>4. new(cand).status # "tracking" /\ new(cand).status # "lost"
      BY ZenonT(40) DEF new
    <2> HIDE DEF T, U, id
    <2>5. FollowsAt(view, r, U, i)
      <3>1. CASE i = id
        BY <1>1, <2>2, <2>3, <2>4, <3>1, Zenon DEF FollowsAt
      <3>2. CASE i # id
        <4>1. (i \in DOMAIN U <=> i \in DOMAIN T) /\ (i \in DOMAIN T => U[i] = T[i])
          BY <2>2, <3>2
        <4>2. QED
          BY <1>1, <4>1, Zenon DEF FollowsAt
      <3>3. QED
        BY <3>1, <3>2
    <2>6. QED
      BY <2>5 DEF U
  <1>4. CASE ~Accepted(m, rejected) /\ ~Acquires(cand, m, rejected)
    BY <1>1, <1>4 DEF process_candidate
  <1>5. QED
    BY <1>2, <1>3, <1>4, ZenonT(40)

\* A path that is shown after a batch for r was shown before, or is of r.
LEMMA ShowKeepsRadars ==
    ASSUME NEW view, \A p \in DOMAIN view : p[1] \in Radars,
           NEW r \in Radars, NEW T, NEW ids
    PROVE  \A p \in DOMAIN Show(view, r, T, ids) : p[1] \in Radars
  BY DEF Show

\* Writing back the tracker of r leaves the other trackers alone.
LEMMA OtherTargets ==
    ASSUME NEW key, NEW u, trackers' = Insert(trackers, key, u)
    PROVE  /\ Targets(key)' = u.targets
           /\ \A k : k # key => Targets(k)' = Targets(k)
  <1>1. /\ Active' = Active \cup {key}
        /\ trackers'[key] = u
        /\ \A k \in Active : k # key => trackers'[k] = trackers[k]
    BY DEF Active, Insert
  <1>2. Targets(key)' = u.targets
    BY <1>1, Zenon DEF Targets
  <1>3. ASSUME NEW k, k # key PROVE Targets(k)' = Targets(k)
    <2>1. k \in Active' <=> k \in Active
      BY <1>1, <1>3
    <2>2. k \in Active => trackers'[k] = trackers[k]
      BY <1>1, <1>3
    <2>3. QED
      BY <2>1, <2>2, Zenon DEF Targets
  <1>4. QED
    BY <1>2, <1>3

\* A blob: the promotion and, at a revolution, the batch.
LEMMA BlobFollows ==
    ASSUME SoleRadars, IInv, ViewInv, NEW r \in Radars, process_blob(r)
    PROVE  ViewInv'
  <1>1. PICK angle \in BlobAngles[r] : \E merged \in Merges(r, angle) :
             \E cand \in [pos : Positions, source : Sources, radar : {r}],
                m \in DOMAIN Turned(r, angle, merged).targets \cup {NoMatch},
                rejected \in BOOLEAN, slow \in BOOLEAN :
                    process_turned(r, angle, Turned(r, angle, merged),
                                   cand, m, rejected, slow)
    BY DEF process_blob
  <1>2. PICK merged \in Merges(r, angle) :
             \E cand \in [pos : Positions, source : Sources, radar : {r}],
                m \in DOMAIN Turned(r, angle, merged).targets \cup {NoMatch},
                rejected \in BOOLEAN, slow \in BOOLEAN :
                    process_turned(r, angle, Turned(r, angle, merged),
                                   cand, m, rejected, slow)
    BY <1>1
  <1>3. PICK cand \in [pos : Positions, source : Sources, radar : {r}],
             m \in DOMAIN Turned(r, angle, merged).targets \cup {NoMatch},
             rejected \in BOOLEAN, slow \in BOOLEAN :
                process_turned(r, angle, Turned(r, angle, merged),
                               cand, m, rejected, slow)
    BY <1>2
  <1> DEFINE k == KeyOf(r)
             t0 == BlobTracker(r)
             t1 == Turned(r, angle, merged)
             t2 == process_candidate(t1, cand, m, rejected, slow)
             T2 == t2.targets
             promotes == Promotes(t1, cand, m, rejected, slow)
             view == IF promotes THEN Show(shown, r, T2, {m}) ELSE shown
  <1>4. /\ Acquires(cand, m, rejected) => IdFree(t1)
        /\ trackers' = Insert(trackers, k, t2)
        /\ shown' = (IF IsBoundary(t0, angle)
                     THEN Show(view, r, T2, Reported(T2)) ELSE view)
    BY <1>3, Zenon DEF process_turned, broadcast_all_targets
  <1>5. angle \in Nat /\ SpokesOf[r] \in Nat /\ cand \in Candidate
    BY ManagerAssumption DEF Candidate
  <1>6. TrackerInv(t0) /\ t0.targets = Targets(k)
    BY <1>5, ExistingOrNew, ZenonT(40) DEF BlobTracker
  <1>7. Follows(shown, r, t0.targets)
    BY <1>6, ZenonT(40) DEF ViewInv
  <1>8. TrackerInv(t1) /\ Follows(shown, r, t1.targets)
    BY <1>5, <1>6, <1>7, Revolution, TurnedFollows, ZenonT(40) DEF Merges, Turned
  <1>9. m \in DOMAIN t1.targets \cup {NoMatch}
    OBVIOUS
  <1> HIDE DEF t1, t0, k
  <1>10. TrackerInv(t2) /\ DOMAIN t1.targets \subseteq DOMAIN T2
    BY <1>5, <1>8, <1>9, ProcessCandidate, Zenon
  <1>11. \A i \in Nat : ~(promotes /\ i = m) => FollowsAt(shown, r, T2, i)
    BY <1>4, <1>5, <1>8, <1>9, CandidateFollows, Zenon
  <1> HIDE DEF t2
  <1>12. \A i \in DOMAIN T2 : Consistent(T2[i])
    BY <1>10 DEF TrackerInv
  <1>13. promotes => {m} \in SUBSET DOMAIN T2
    BY <1>9, <1>10 DEF Promotes, Accepted
  <1> HIDE DEF T2, promotes
  <1>14. Follows(view, r, T2)
    <2>1. CASE promotes
      <3>1. \A i \in Nat : i \notin {m} => FollowsAt(shown, r, T2, i)
        BY <1>11
      <3>2. QED
        BY <1>12, <1>13, <2>1, <3>1, ShowFollows, ZenonT(40)
    <2>2. CASE ~promotes
      BY <1>11, <2>2 DEF Follows
    <2>3. QED
      BY <2>1, <2>2
  <1>15. \A s \in Radars : s # r => SameFor(shown, view, s)
    <2>1. CASE promotes
      BY <2>1, ShowOthers
    <2>2. CASE ~promotes
      BY <2>2, Zenon DEF SameFor
    <2>3. QED
      BY <2>1, <2>2, Zenon
  <1>16. \A p \in DOMAIN view : p[1] \in Radars
    BY ShowKeepsRadars, ZenonT(40) DEF ViewInv
  <1> HIDE DEF view
  <1>17. Follows(shown', r, T2)
    <2>1. Reported(T2) \in SUBSET DOMAIN T2
      BY ZenonT(40) DEF Reported
    <2>2. Follows(Show(view, r, T2, Reported(T2)), r, T2)
      BY <1>12, <1>14, <2>1, ShowFollows, ZenonT(40) DEF Follows
    <2>3. QED
      BY <1>4, <1>14, <2>2, ZenonT(40)
  <1>18. ASSUME NEW s \in Radars, s # r PROVE SameFor(shown, shown', s)
    <2>1. SameFor(view, Show(view, r, T2, Reported(T2)), s)
      BY <1>18, ShowOthers, ZenonT(40)
    <2>2. SameFor(shown, Show(view, r, T2, Reported(T2)), s)
      BY <1>15, <1>18, <2>1, Zenon DEF SameFor
    <2>3. QED
      BY <1>4, <1>15, <1>18, <2>2, ZenonT(40)
  <1>19. \A p \in DOMAIN shown' : p[1] \in Radars
    BY <1>4, <1>16, ShowKeepsRadars, ZenonT(40)
  <1>20. Targets(k)' = T2 /\ \A l : l # k => Targets(l)' = Targets(l)
    BY <1>4, OtherTargets, ZenonT(40) DEF T2
  <1>21. QED
    BY <1>17, <1>18, <1>19, <1>20, OneRadarStep, ZenonT(40) DEF k

\* A manual acquisition is shown at once.
LEMMA MarpaFollows ==
    ASSUME SoleRadars, IInv, ViewInv, NEW r \in Radars, process_marpa(r)
    PROVE  ViewInv'
  <1> DEFINE k == KeyOf(r)
             t0 == get_or_create_tracker(r, DefaultSpokes)
             id == AllocatedId(t0)
             C(pos) == [pos |-> pos, source |-> "acquiring", radar |-> r]
  <1>1. PICK pos \in Positions :
            LET t1 == create_target(t0, C(pos))
            IN  /\ trackers' = Insert(trackers, k, t1)
                /\ shown' = Show(shown, r, t1.targets, {id})
    BY Zenon DEF process_marpa
  <1> DEFINE t1 == create_target(t0, C(pos))
             T1 == t1.targets
  <1>2. C(pos) \in Candidate /\ DefaultSpokes \in Nat
    BY ManagerAssumption DEF Candidate, Sources
  <1>3. TrackerInv(t0) /\ t0.targets = Targets(k)
    BY <1>2, ExistingOrNew
  <1>4. Follows(shown, r, t0.targets)
    BY <1>3 DEF ViewInv
  <1>5. /\ trackers' = Insert(trackers, k, t1)
        /\ shown' = Show(shown, r, T1, {id})
    BY <1>1
  <1> HIDE DEF t0, C
  <1>6. /\ TrackerInv(t1)
        /\ DOMAIN T1 = DOMAIN t0.targets \cup {id}
        /\ \A i \in DOMAIN t0.targets : i # id => T1[i] = t0.targets[i]
    BY <1>2, <1>3, Create
  <1> HIDE DEF t1, id
  <1>7. \A i \in DOMAIN T1 : Consistent(T1[i])
    BY <1>6 DEF TrackerInv
  <1> HIDE DEF T1
  <1>8. ASSUME NEW i \in Nat, i \notin {id} PROVE FollowsAt(shown, r, T1, i)
    <2>1. /\ i \in DOMAIN T1 <=> i \in DOMAIN t0.targets
          /\ i \in DOMAIN t0.targets => T1[i] = t0.targets[i]
      BY <1>6, <1>8
    <2>2. QED
      BY <1>4, <2>1, Zenon DEF Follows, FollowsAt
  <1>9. Follows(shown', r, T1)
    <2>1. {id} \in SUBSET DOMAIN T1
      BY <1>6
    <2>2. QED
      BY <1>5, <1>7, <1>8, <2>1, ShowFollows
  <1>10. /\ \A s \in Radars : s # r => SameFor(shown, shown', s)
         /\ \A p \in DOMAIN shown' : p[1] \in Radars
    BY <1>5, ShowOthers, ShowKeepsRadars, ZenonT(40) DEF ViewInv
  <1>11. Targets(k)' = T1 /\ \A l : l # k => Targets(l)' = Targets(l)
    BY <1>5, OtherTargets DEF T1
  <1>12. QED
    BY <1>9, <1>10, <1>11, OneRadarStep

\* What the user deletes is hidden.
LEMMA RemoveFollows ==
    ASSUME SoleRadars, IInv, ViewInv, NEW r \in Radars, KeyOf(r) \in Active,
           NEW ids, RemoveTargets(r, ids)
    PROVE  ViewInv'
  <1> DEFINE k == KeyOf(r)
             T == trackers[k].targets
             left == Without(T, ids)
  <1>1. /\ trackers' = [trackers EXCEPT ![k].targets = left]
        /\ shown' = Hide(shown, {r} \X ids)
    BY DEF RemoveTargets
  <1>2. TrackerInv(trackers[k]) /\ Targets(k) = T
    BY DEF IInv, Targets
  <1>3. /\ Active' = Active
        /\ trackers'[k].targets = left
        /\ \A l \in Active : l # k => trackers'[l] = trackers[l]
    BY <1>1, <1>2 DEF Active, TrackerInv, TrackerType
  <1>4. Targets(k)' = left
    BY <1>3, Zenon DEF Targets
  <1>5. \A l : l # k => Targets(l)' = Targets(l)
    BY <1>3, Zenon DEF Targets
  <1>6. /\ DOMAIN left = DOMAIN T \ ids
        /\ \A i \in DOMAIN left : left[i] = T[i]
    BY DEF Without, Restrict
  <1>7. /\ DOMAIN shown' = DOMAIN shown \ ({r} \X ids)
        /\ \A p \in DOMAIN shown' : shown'[p] = shown[p]
    BY <1>1 DEF Hide
  <1>8. Follows(shown, r, T)
    BY <1>2 DEF ViewInv
  <1> HIDE DEF T, left
  <1>9. Follows(shown', r, left)
    <2> SUFFICES ASSUME NEW i \in Nat PROVE FollowsAt(shown', r, left, i)
      BY DEF Follows
    <2>1. CASE i \in ids
      <3>1. <<r, i>> \notin DOMAIN shown' /\ i \notin DOMAIN left
        BY <1>6, <1>7, <2>1
      <3>2. QED
        BY <3>1, Zenon DEF FollowsAt
    <2>2. CASE i \notin ids
      <3>1. /\ <<r, i>> \in DOMAIN shown' <=> <<r, i>> \in DOMAIN shown
            /\ <<r, i>> \in DOMAIN shown => shown'[<<r, i>>] = shown[<<r, i>>]
            /\ i \in DOMAIN left <=> i \in DOMAIN T
            /\ i \in DOMAIN T => left[i] = T[i]
        BY <1>6, <1>7, <2>2
      <3>2. FollowsAt(shown, r, T, i)
        BY <1>8 DEF Follows
      <3>3. QED
        BY <3>1, <3>2, Zenon DEF FollowsAt
    <2>3. QED
      BY <2>1, <2>2
  <1>10. /\ \A s \in Radars : s # r => SameFor(shown, shown', s)
         /\ \A p \in DOMAIN shown' : p[1] \in Radars
    BY <1>7 DEF SameFor, ViewInv
  <1>11. QED
    BY <1>4, <1>5, <1>9, <1>10, OneRadarStep

\* A timeout is broadcast under the one radar of the tracker; a deletion under
\* that radar, or in merged mode under a key of no radar.
LEMMA TimeoutPaths ==
    ASSUME SoleRadars, IInv, NEW r \in Radars, NEW i
    PROVE  /\ <<r, i>> \in LostPaths <=>
                  KeyOf(r) \in Active /\ i \in Overdue(trackers[KeyOf(r)])
           /\ <<r, i>> \in DeletedPaths =>
                  KeyOf(r) \in Active /\ i \in Expired(trackers[KeyOf(r)])
  <1>1. \A l \in Active : \A j \in Overdue(trackers[l]) :
            /\ LostKey(l, Targets(l)[j]) \in Radars
            /\ KeyOf(LostKey(l, Targets(l)[j])) = l
    <2> SUFFICES ASSUME NEW l \in Active, NEW j \in Overdue(trackers[l])
                 PROVE  /\ LostKey(l, Targets(l)[j]) \in Radars
                        /\ KeyOf(LostKey(l, Targets(l)[j])) = l
      OBVIOUS
    <2>1. j \in DOMAIN trackers[l].targets /\ Targets(l) = trackers[l].targets
      BY DEF Overdue, Targets
    <2>2. Targets(l)[j].radar \in Radars
      BY <2>1 DEF IInv, TrackerInv, TrackerType, TargetType
    <2>3. QED
      BY <2>2 DEF LostKey, KeyOf, IInv, TypeOK, Keys
  <1>2. ASSUME <<r, i>> \in LostPaths
        PROVE  KeyOf(r) \in Active /\ i \in Overdue(trackers[KeyOf(r)])
    <2>1. PICK l \in Active :
              <<r, i>> \in {<<LostKey(l, Targets(l)[j]), j>> : j \in Overdue(trackers[l])}
      BY <1>2, Zenon DEF LostPaths
    <2>2. PICK j \in Overdue(trackers[l]) : <<r, i>> = <<LostKey(l, Targets(l)[j]), j>>
      BY <2>1
    <2>3. i = j /\ r = LostKey(l, Targets(l)[j])
      BY <2>2
    <2>4. KeyOf(r) = l
      BY <1>1, <2>3
    <2>5. QED
      BY <2>3, <2>4
  <1>3. ASSUME KeyOf(r) \in Active, i \in Overdue(trackers[KeyOf(r)])
        PROVE  <<r, i>> \in LostPaths
    <2> DEFINE l == KeyOf(r)
    <2>1. LostKey(l, Targets(l)[i]) = r
      BY <1>1, <1>3 DEF SoleRadars
    <2>2. QED
      BY <1>3, <2>1 DEF LostPaths
  <1>4. ASSUME <<r, i>> \in DeletedPaths
        PROVE  KeyOf(r) \in Active /\ i \in Expired(trackers[KeyOf(r)])
    <2>1. PICK l \in Active : <<r, i>> \in {DeletionKey(l)} \X Expired(trackers[l])
      BY <1>4, Zenon DEF DeletedPaths
    <2>2. r = DeletionKey(l) /\ i \in Expired(trackers[l])
      BY <2>1
    <2>3. KeyOf(r) = l
      BY <2>2, ManagerAssumption DEF DeletionKey, KeyOf
    <2>4. QED
      BY <2>2, <2>3
  <1>5. QED
    BY <1>2, <1>3, <1>4

\* The periodic check: what is lost is shown as lost, and what is deleted was.
LEMMA TimeoutsFollow ==
    ASSUME SoleRadars, IInv, ViewInv, check_all_timeouts
    PROVE  ViewInv'
  <1>1. /\ trackers' = [k \in Active |-> check_timeouts(trackers[k])]
        /\ shown' = Hide(ShowLost(shown, LostPaths), DeletedPaths)
    BY DEF check_all_timeouts
  <1>2. /\ DOMAIN shown' = (DOMAIN shown \cup LostPaths) \ DeletedPaths
        /\ \A p \in DOMAIN shown' :
               shown'[p] = IF p \in LostPaths THEN "lost" ELSE shown[p]
    BY <1>1 DEF Hide, ShowLost
  <1>3. \A p \in LostPaths : p[1] \in Radars
    <2>1. ASSUME NEW k \in Active, NEW i \in Overdue(trackers[k])
          PROVE  LostKey(k, Targets(k)[i]) \in Radars
      <3>1. /\ i \in DOMAIN trackers[k].targets
            /\ Targets(k) = trackers[k].targets
        BY DEF Overdue, Targets
      <3>2. Targets(k)[i].radar \in Radars
        BY <3>1 DEF IInv, TrackerInv, TrackerType, TargetType
      <3>3. QED
        BY <3>2 DEF LostKey, IInv, TypeOK, Keys
    <2>2. QED
      BY <2>1 DEF LostPaths
  <1>4. \A p \in DOMAIN shown' : p[1] \in Radars
    BY <1>2, <1>3 DEF ViewInv
  <1>5. ASSUME NEW r \in Radars, NEW i \in Nat
        PROVE  FollowsAt(shown', r, Targets(KeyOf(r))', i)
    <2> DEFINE k == KeyOf(r)
               T == Targets(k)
               U == T'
               p == <<r, i>>
    <2>1. FollowsAt(shown, r, T, i)
      BY DEF ViewInv, Follows
    <2>2. /\ p \in LostPaths <=> k \in Active /\ i \in Overdue(trackers[k])
          /\ p \in DeletedPaths => k \in Active /\ i \in Expired(trackers[k])
      BY TimeoutPaths
    <2>3. Active' = Active
      BY <1>1 DEF Active
    <2>4. CASE k \notin Active
      <3>1. U = T
        BY <2>3, <2>4, Zenon DEF Targets
      <3>2. /\ p \in DOMAIN shown' <=> p \in DOMAIN shown
            /\ p \in DOMAIN shown => shown'[p] = shown[p]
        BY <1>2, <2>2, <2>4
      <3> HIDE DEF T, U
      <3>3. FollowsAt(shown', r, U, i)
        BY <2>1, <3>1, <3>2, Zenon DEF FollowsAt
      <3>4. QED
        BY <3>3 DEF U, T
    <2>5. CASE k \in Active
      <3> DEFINE t == trackers[k]
      <3>1. T = t.targets /\ U = check_timeouts(t).targets
        BY <1>1, <2>3, <2>5 DEF Targets
      <3>2. TrackerInv(t)
        BY <2>5 DEF IInv
      <3>3. U = [j \in DOMAIN T \ Expired(t) |->
                    IF j \in Overdue(t) THEN MarkLost(T[j]) ELSE T[j]]
        BY <3>1, <3>2 DEF check_timeouts, TrackerInv, TrackerType
      <3>4. /\ \A j \in Overdue(t) : j \in DOMAIN T /\ T[j].status # "lost"
            /\ \A j \in Expired(t) : j \in DOMAIN T /\ T[j].status = "lost"
        BY <3>1, ZenonT(40) DEF Overdue, Expired
      <3>5. \A j \in DOMAIN T : MarkLost(T[j]).status = "lost"
        BY <3>1, <3>2 DEF MarkLost, TrackerInv, TrackerType, TargetType
      <3> HIDE DEF T, U, t
      <3>6. CASE i \in Overdue(t)
        <4>1. /\ i \in DOMAIN U /\ U[i].status = "lost"
              /\ p \in DOMAIN shown' /\ shown'[p] = "lost"
          BY <1>2, <2>2, <2>5, <3>3, <3>4, <3>5, <3>6, ZenonT(40) DEF t
        <4>2. QED
          BY <4>1 DEF FollowsAt, U, T
      <3>7. CASE i \in Expired(t)
        <4>1. i \in DOMAIN T /\ T[i].status = "lost" /\ i \notin DOMAIN U
          BY <3>3, <3>4, <3>7
        <4>2. shown[p] = "lost"
          BY <2>1, <4>1 DEF FollowsAt
        <4>3. p \in DOMAIN shown' => shown'[p] = "lost"
          BY <1>2, <4>2
        <4>4. QED
          BY <4>1, <4>3, ZenonT(40) DEF FollowsAt, U, T
      <3>8. CASE i \notin Overdue(t) /\ i \notin Expired(t)
        <4>1. /\ i \in DOMAIN U <=> i \in DOMAIN T
              /\ i \in DOMAIN T => U[i] = T[i]
          BY <3>3, <3>8
        <4>2. /\ p \in DOMAIN shown' <=> p \in DOMAIN shown
              /\ p \in DOMAIN shown => shown'[p] = shown[p]
          BY <1>2, <2>2, <3>8 DEF t
        <4>3. FollowsAt(shown', r, U, i)
          BY <2>1, <4>1, <4>2, Zenon DEF FollowsAt
        <4>4. QED
          BY <4>3 DEF U, T
      <3>9. QED
        BY <3>6, <3>7, <3>8
    <2>6. QED
      BY <2>4, <2>5
  <1>6. QED
    BY <1>4, <1>5, Zenon DEF ViewInv, Follows

\* A client that receives every delta knows every tracked target, knows of
\* every lost one that it is lost, and shows no ghost as tracked: for any
\* number of radars, each with its own tracker, or one radar in merged mode.
THEOREM ClientsAlwaysFollow ==
    ASSUME SoleRadars
    PROVE  Spec => []ClientsFollow
  <1>1. Init => ViewInv
    <2> SUFFICES ASSUME Init PROVE ViewInv
      OBVIOUS
    <2>1. DOMAIN shown = {}
      BY DEF Init
    <2>2. \A r \in Radars : DOMAIN Targets(KeyOf(r)) = {}
      BY DEF Init, Targets, Active, NewTracker
    <2>3. QED
      BY <2>1, <2>2, ZenonT(40) DEF ViewInv, Follows, FollowsAt
  <1>2. IInv /\ ViewInv /\ [Next]_vars => ViewInv'
    <2> SUFFICES ASSUME IInv, ViewInv, [Next]_vars PROVE ViewInv'
      OBVIOUS
    <2>1. ASSUME NEW r \in Radars, process_blob(r) PROVE ViewInv'
      BY <2>1, BlobFollows
    <2>2. ASSUME NEW r \in Radars, process_blob_unplaced(r) PROVE ViewInv'
      <3>1. UNCHANGED <<trackers, shown>>
        BY <2>2, Zenon DEF process_blob_unplaced
      <3>2. QED
        BY <3>1 DEF ViewInv, Targets, Active
    <2>3. ASSUME NEW r \in Radars, process_marpa(r) PROVE ViewInv'
      BY <2>3, MarpaFollows
    <2>4. ASSUME NEW r \in Radars, delete_target(r) PROVE ViewInv'
      BY <2>4, RemoveFollows DEF delete_target, Live, Targets
    <2>5. ASSUME NEW r \in Radars, clear_all_targets(r) PROVE ViewInv'
      BY <2>5, RemoveFollows DEF clear_all_targets, Live, Targets
    <2>6. CASE check_all_timeouts
      BY <2>6, TimeoutsFollow
    <2>7. CASE UNCHANGED vars
      BY <2>7 DEF vars, ViewInv, Targets, Active
    <2>8. QED
      BY <2>1, <2>2, <2>3, <2>4, <2>5, <2>6, <2>7 DEF Next
  <1>3. IInv /\ ViewInv => ClientsFollow
    <2> SUFFICES ASSUME IInv, ViewInv PROVE ClientsFollow
      OBVIOUS
    <2>1. ASSUME NEW p \in DOMAIN shown, shown[p] = "tracking"
          PROVE  p[2] \in Live(KeyOf(p[1]))
      <3>1. p[1] \in Radars /\ p[2] \in Nat /\ p = <<p[1], p[2]>>
        BY SMTT(30) DEF ViewInv, IInv, TypeOK, ViewType, Paths
      <3>2. FollowsAt(shown, p[1], Targets(KeyOf(p[1])), p[2])
        BY <3>1, Zenon DEF ViewInv, Follows
      <3>3. QED
        BY <2>1, <3>1, <3>2, ZenonT(40) DEF FollowsAt, Live
    <2>2. ASSUME NEW k \in Active, NEW i \in Live(k)
          PROVE  \E r \in Radars :
                     /\ Targets(k)[i].status = "tracking" => <<r, i>> \in DOMAIN shown
                     /\ Targets(k)[i].status = "lost" =>
                            <<r, i>> \in DOMAIN shown /\ shown[<<r, i>>] = "lost"
      <3>1. i \in Nat /\ i \in DOMAIN trackers[k].targets
            /\ Targets(k)[i].radar \in Radars
        BY ZenonT(40) DEF IInv, TrackerInv, TrackerType, TargetType, Live, Targets
      <3>2. PICK r \in Radars : KeyOf(r) = k
        BY <3>1, ZenonT(40) DEF IInv, TypeOK, Keys, KeyOf
      <3>3. FollowsAt(shown, r, Targets(k), i)
        BY <3>1, <3>2, Zenon DEF ViewInv, Follows
      <3>4. QED
        BY <3>3, Zenon DEF FollowsAt, Live
    <2>3. QED
      BY <2>1, <2>2, Zenon DEF ClientsFollow
  <1>4. QED
    BY <1>1, <1>2, <1>3, Invariance, PTL DEF Spec
=============================================================================
