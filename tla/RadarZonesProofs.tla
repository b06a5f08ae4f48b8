-------------------------- MODULE RadarZonesProofs --------------------------
(***************************************************************************)
(* Proofs about RadarZones, for any number of zones, clients, spokes and   *)
(* pixels and any capacity of the channel: the radar's task follows the    *)
(* controls, and a spoke is blanked exactly where it should be.            *)
(***************************************************************************)
EXTENDS RadarZones, TLAPS, SequenceTheorems

\* Nothing is forgotten: a zone the task has not copied is still on its way, by a
\* client that has stored it or on the channel, or its announcement was dropped.
OnItsWay(i) ==
    \/ \E k \in DOMAIN updates : updates[k] = i
    \/ \E c \in Clients : storing[c] = i

NothingForgotten ==
    ~dead => \A i \in Ids \ dropped : controls[i] = Copied(i) \/ OnItsWay(i)

\* A mask that may be used again is the one of the zones there are.
MaskIsCurrent ==
    /\ mask_range \in Nat /\ mask_len \in Nat
    /\ (mask # NoMask /\ mask_range # 0) =>
           /\ Internal(mask_range, mask_len) # {}
           /\ mask = NewMask(Internal(mask_range, mask_len), mask_len)

\* The inductive invariant.
IInv ==
    /\ TypeOK
    /\ dead \in BOOLEAN
    /\ guard_zones = refresh_guard_zones(guard_zone, range, spoke_len)
    /\ NothingForgotten
    /\ MaskIsCurrent

-----------------------------------------------------------------------------
\* A zone as a client sets it; the default is one.
ZoneType == [start_angle : Angles, end_angle : Angles,
             start_distance : Nat, end_distance : Nat, enabled : BOOLEAN]

\* What clients set, and the zone the controls begin with, are zones.
LEMMA ZonesTyped == SetZones \subseteq ZoneType
  <1>1. 0 \in Angles
    <2>1. Steps \in Nat
      BY CircleAssumption, ZonesAssumption DEF Steps
    <2>2. Steps \div 2 \in Nat
      BY <2>1
    <2>3. QED
      BY <2>2 DEF Angles
  <1>2. DefaultZone \in ZoneType
    BY <1>1 DEF DefaultZone, ZoneType
  <1>3. QED
    BY <1>2, ZoneValuesAssumption DEF SetZones, ZoneType

\* Both casts of an angle give a spoke of the picture, for every angle a client can
\* set (guard_spoke saturates at 0, exclusion_spoke wraps).
LEMMA SpokesTyped ==
  ASSUME NEW a \in Angles
  PROVE  guard_spoke(a) \in Spokes /\ exclusion_spoke(a) \in Spokes
  <1>1. a \in Int
    <2>1. Steps \div 2 \in Int
      BY CircleAssumption, ZonesAssumption DEF Steps
    <2>2. QED
      BY <2>1 DEF Angles
  <1>2. Truncated(a) \in Int
    <2>1. CASE a >= 0
      BY <1>1, <2>1, ZonesAssumption DEF Truncated
    <2>2. CASE ~(a >= 0)
      <3>1. -a \in Int /\ (-a) \div StepsPerSpoke \in Int
        BY <1>1, ZonesAssumption
      <3>2. QED
        BY <1>1, <2>2, <3>1 DEF Truncated
    <2>3. QED
      BY <2>1, <2>2
  <1>3. \A k \in Int : k % SpokesPerRevolution \in Spokes
    BY CircleAssumption DEF Spokes
  <1>4. QED
    BY <1>2, <1>3 DEF guard_spoke, exclusion_spoke

\* A distance is a pixel that is not negative, at range 0 too.
LEMMA PixelsTyped ==
  ASSUME NEW d \in Nat, NEW r \in Nat, NEW len \in Nat
  PROVE  to_pixel(d, r, len) \in Nat
  <1>1. d * len \in Nat
    OBVIOUS
  <1>2. r # 0 => (d * len) \div r \in Nat
    <2>1. \A n \in Nat, k \in Nat \ {0} : n \div k \in Nat
      OBVIOUS
    <2>2. QED
      BY <1>1, <2>1
  <1>3. QED
    BY <1>2, ZonesAssumption DEF to_pixel

\* A zone of either kind is an arc of spokes and a stretch of pixels; that of an
\* exclusion zone ends within the spoke.
LEMMA InternalsTyped ==
  ASSUME NEW z \in ZoneType, NEW r \in Nat, NEW len \in Nat
  PROVE  /\ guard_to_internal(z, r, len) \in Internals
         /\ zone_to_internal(z, r, len) \in Internals
         /\ zone_to_internal(z, r, len).end_pixel <= len
  <1>1. /\ z.start_angle \in Angles /\ z.end_angle \in Angles
        /\ z.start_distance \in Nat /\ z.end_distance \in Nat
    BY DEF ZoneType
  <1>2. /\ guard_spoke(z.start_angle) \in Spokes /\ guard_spoke(z.end_angle) \in Spokes
        /\ exclusion_spoke(z.start_angle) \in Spokes
        /\ exclusion_spoke(z.end_angle) \in Spokes
    BY <1>1, SpokesTyped
  <1>3. /\ to_pixel(z.start_distance, r, len) \in Nat
        /\ to_pixel(z.end_distance, r, len) \in Nat
    BY <1>1, PixelsTyped, Zenon
  <1>4. /\ LesserOf(to_pixel(z.end_distance, r, len), len) \in Nat
        /\ LesserOf(to_pixel(z.end_distance, r, len), len) <= len
    BY <1>3 DEF LesserOf
  <1>5. QED
    BY <1>2, <1>3, <1>4 DEF guard_to_internal, zone_to_internal, Internals

-----------------------------------------------------------------------------
\* The bit of a pixel stands for that pixel alone: it is set exactly for the pixels
\* of the zones, up to and including the one past the spoke's end.
LEMMA BitsAreExact ==
  ASSUME NEW zones, NEW pixels \in Nat, NEW s \in Spokes, NEW p \in Nat
  PROVE  <<s, p \div 8, p % 8>> \in MaskBits(zones, pixels) <=>
             p \in Covered(zones, pixels, s)
  <1>1. \A t \in Spokes : \A q \in Covered(zones, pixels, t) : q \in Nat
    BY DEF Covered
  <1>2. ASSUME NEW q \in Nat, p \div 8 = q \div 8, p % 8 = q % 8
        PROVE  p = q
    BY <1>2
  <1>3. ASSUME <<s, p \div 8, p % 8>> \in MaskBits(zones, pixels)
        PROVE  p \in Covered(zones, pixels, s)
    <2>1. PICK t \in Spokes : \E q \in Covered(zones, pixels, t) :
              <<s, p \div 8, p % 8>> = <<t, q \div 8, q % 8>>
      BY <1>3, Zenon DEF MaskBits
    <2>2. PICK q \in Covered(zones, pixels, t) :
              <<s, p \div 8, p % 8>> = <<t, q \div 8, q % 8>>
      BY <2>1
    <2>3. s = t /\ p \div 8 = q \div 8 /\ p % 8 = q % 8
      BY <2>2, Zenon
    <2>4. QED
      BY <2>3, <1>1, <1>2
  <1>4. ASSUME p \in Covered(zones, pixels, s)
        PROVE  <<s, p \div 8, p % 8>> \in MaskBits(zones, pixels)
    <2> DEFINE Bits(t) == {<<t, q \div 8, q % 8>> : q \in Covered(zones, pixels, t)}
    <2>1. <<s, p \div 8, p % 8>> \in Bits(s)
      BY <1>4
    <2>2. MaskBits(zones, pixels) = UNION {Bits(t) : t \in Spokes}
      BY Zenon DEF MaskBits
    <2>3. Bits(s) \in {Bits(t) : t \in Spokes}
      BY Zenon
    <2> HIDE DEF Bits
    <2>4. QED
      BY <2>1, <2>2, <2>3, Zenon
  <1>5. QED
    BY <1>3, <1>4

\* A mask is a record of bits, never NoMask.
LEMMA MaskTyped ==
  ASSUME NEW zones, NEW pixels \in Nat
  PROVE  NewMask(zones, pixels) # NoMask
  <1>1. \A s \in Spokes : \A p \in Covered(zones, pixels, s) :
            p \div 8 \in Nat /\ p % 8 \in Nat
    BY DEF Covered
  <1>2. MaskBits(zones, pixels) \in SUBSET (Spokes \X Nat \X Nat)
    <2>1. ASSUME NEW b \in MaskBits(zones, pixels)
          PROVE  b \in Spokes \X Nat \X Nat
      <3>1. PICK s \in Spokes : \E p \in Covered(zones, pixels, s) :
                b = <<s, p \div 8, p % 8>>
        BY Zenon DEF MaskBits
      <3>2. QED
        BY <3>1, <1>1
    <2>2. QED
      BY <2>1
  <1>3. NewMask(zones, pixels) \in [bits : SUBSET (Spokes \X Nat \X Nat), pixels : Nat]
    BY <1>2 DEF NewMask
  <1>4. QED
    BY <1>3, MaskAssumption

\* new() indexes past a spoke's bytes only when the spoke fills whole bytes and a
\* zone covers the pixel after its last one.
LEMMA PanicsOnlyAtTheEnd ==
  ASSUME NEW zones \in SUBSET Internals, NEW pixels \in Nat,
         \A z \in zones : z.end_pixel <= pixels,
         MaskPanics(zones, pixels)
  PROVE  pixels % 8 = 0 /\ \E z \in zones : z.end_pixel = pixels
  <1>1. PICK b \in MaskBits(zones, pixels) : b[2] >= BytesPerSpoke(pixels)
    BY DEF MaskPanics
  <1>2. PICK s \in Spokes : \E p \in Covered(zones, pixels, s) :
            b = <<s, p \div 8, p % 8>>
    BY <1>1, Zenon DEF MaskBits
  <1>3. PICK p \in Covered(zones, pixels, s) : b = <<s, p \div 8, p % 8>>
    BY <1>2
  <1>4. p \in 0 .. pixels /\ \E z \in zones : p <= LesserOf(z.end_pixel, pixels)
    BY <1>3 DEF Covered
  <1>5. p \div 8 >= (pixels + 7) \div 8
    BY <1>1, <1>3 DEF BytesPerSpoke
  <1>6. p = pixels /\ pixels % 8 = 0
    BY <1>4, <1>5
  <1>7. \A z \in zones : z.end_pixel \in Nat
    BY DEF Internals
  <1>8. PICK z \in zones : p <= LesserOf(z.end_pixel, pixels)
    BY <1>4
  <1>9. QED
    BY <1>6, <1>7, <1>8 DEF LesserOf

\* What a new mask excludes of a spoke is what lies in its zones: cutting a zone at
\* the spoke's end changes nothing on the spoke.
LEMMA MaskIsExact ==
  ASSUME NEW zones \in SUBSET Internals, NEW pixels \in Nat, NEW s \in Spokes
  PROVE  {p \in 0 .. pixels - 1 : is_excluded(NewMask(zones, pixels), s, p)} =
         {p \in 0 .. pixels - 1 : \E z \in zones :
              in_angle(z, s) /\ p \in z.start_pixel .. z.end_pixel}
  <1>1. ASSUME NEW p \in 0 .. pixels - 1
        PROVE  is_excluded(NewMask(zones, pixels), s, p) <=> p \in Covered(zones, pixels, s)
    <2>1. p \in Nat /\ p < pixels
      BY <1>1
    <2>2. is_excluded(NewMask(zones, pixels), s, p) <=>
              <<s, p \div 8, p % 8>> \in MaskBits(zones, pixels)
      BY <2>1 DEF is_excluded, NewMask
    <2>3. QED
      BY <2>1, <2>2, BitsAreExact
  <1>2. ASSUME NEW p \in 0 .. pixels - 1, NEW z \in zones
        PROVE  p \in LesserOf(z.start_pixel, pixels) .. LesserOf(z.end_pixel, pixels)
                   <=> p \in z.start_pixel .. z.end_pixel
    <2>1. z.start_pixel \in Nat /\ z.end_pixel \in Nat
      BY DEF Internals
    <2>2. QED
      BY <2>1 DEF LesserOf
  <1>3. ASSUME NEW p \in 0 .. pixels - 1
        PROVE  p \in Covered(zones, pixels, s) <=>
                   \E z \in zones : in_angle(z, s) /\ p \in z.start_pixel .. z.end_pixel
    <2>1. p \in 0 .. pixels
      OBVIOUS
    <2>2. QED
      BY <1>2, <2>1, Zenon DEF Covered
  <1>4. QED
    BY <1>1, <1>3

\* The exclusion zones at a range are zones of the picture and end within it.
LEMMA InternalTyped ==
  ASSUME exclusion_zones \in [ExclusionIds -> SetZones], NEW r \in Nat, NEW len \in Nat
  PROVE  /\ Internal(r, len) \in SUBSET Internals
         /\ \A z \in Internal(r, len) : z.end_pixel <= len
  <1>1. \A i \in ExclusionIds : exclusion_zones[i] \in ZoneType
    BY ZonesTyped
  <1>2. QED
    BY <1>1, InternalsTyped, Zenon DEF Internal

\* The detector's cache is a zone of the picture for each enabled guard zone.
LEMMA GuardsTyped ==
  ASSUME NEW zone \in [GuardIds -> SetZones], NEW r \in Nat, NEW len \in Nat
  PROVE  refresh_guard_zones(zone, r, len) \in [GuardIds -> Internals \cup {NoZone}]
  <1>1. \A i \in GuardIds : guard_to_internal(zone[i], r, len) \in Internals
    BY ZonesTyped, InternalsTyped, Zenon
  <1>2. QED
    BY <1>1 DEF refresh_guard_zones

-----------------------------------------------------------------------------
\* Announcing puts the id on the channel, within its capacity; of what was there
\* only the oldest may be gone.
LEMMA QueuedTyped ==
  ASSUME updates \in Seq(Ids), Len(updates) <= ChannelCapacity, NEW i \in Ids
  PROVE  /\ Queued(i) \in Seq(Ids) /\ Len(Queued(i)) <= ChannelCapacity
         /\ \E k \in DOMAIN Queued(i) : Queued(i)[k] = i
         /\ \A k \in DOMAIN updates :
                \/ Full /\ updates[k] = Head(updates)
                \/ \E j \in DOMAIN Queued(i) : Queued(i)[j] = updates[k]
  <1>1. CASE Full
    <2>1. updates # <<>> /\ Len(updates) = ChannelCapacity
      BY <1>1, ChannelAssumption DEF Full
    <2>2. /\ Tail(updates) \in Seq(Ids)
          /\ Len(Tail(updates)) = Len(updates) - 1
          /\ \A k \in 1 .. Len(updates) - 1 : Tail(updates)[k] = updates[k + 1]
      BY <2>1
    <2>3. Queued(i) = Append(Tail(updates), i)
      BY <1>1 DEF Queued
    <2>4. /\ Queued(i) \in Seq(Ids) /\ Len(Queued(i)) = Len(updates)
          /\ Queued(i)[Len(updates)] = i
          /\ \A k \in 1 .. Len(updates) - 1 : Queued(i)[k] = updates[k + 1]
      BY <2>1, <2>2, <2>3
    <2>5. DOMAIN Queued(i) = 1 .. Len(updates) /\ DOMAIN updates = 1 .. Len(updates)
      BY <2>4
    <2>6. ASSUME NEW k \in DOMAIN updates, k # 1
          PROVE  \E j \in DOMAIN Queued(i) : Queued(i)[j] = updates[k]
      <3>1. k - 1 \in 1 .. Len(updates) - 1 /\ (k - 1) + 1 = k /\ k - 1 \in DOMAIN Queued(i)
        BY <2>5, <2>6
      <3>2. QED
        BY <3>1, <2>4
    <2>7. updates[1] = Head(updates)
      BY <2>1
    <2>8. QED
      BY <1>1, <2>1, <2>4, <2>5, <2>6, <2>7, ChannelAssumption
  <1>2. CASE ~Full
    <2>1. Queued(i) = Append(updates, i) /\ Len(updates) < ChannelCapacity
      BY <1>2, ChannelAssumption DEF Queued, Full
    <2>2. /\ Queued(i) \in Seq(Ids) /\ Len(Queued(i)) = Len(updates) + 1
          /\ Queued(i)[Len(updates) + 1] = i
          /\ \A k \in 1 .. Len(updates) : Queued(i)[k] = updates[k]
      BY <2>1
    <2>3. /\ DOMAIN Queued(i) = 1 .. Len(updates) + 1
          /\ DOMAIN updates = 1 .. Len(updates)
      BY <2>2
    <2>4. QED
      BY <2>1, <2>2, <2>3, ChannelAssumption
  <1>3. QED
    BY <1>1, <1>2

-----------------------------------------------------------------------------
\* The inductive invariant holds when the radar's task has copied the controls.
LEMMA InitIInv == Init => IInv
  <1> SUFFICES ASSUME Init PROVE IInv
    OBVIOUS
  <1>1. DefaultZone \in SetZones
    BY DEF SetZones
  <1>2. /\ controls \in [Ids -> SetZones]
        /\ guard_zone \in [GuardIds -> SetZones]
        /\ exclusion_zones \in [ExclusionIds -> SetZones]
    BY <1>1 DEF Init, Ids
  <1>3. guard_zones = refresh_guard_zones(guard_zone, range, spoke_len)
    BY DEF Init, refresh_guard_zones
  <1>4. TypeOK
    BY <1>2, ChannelAssumption DEF Init, TypeOK
  <1>5. \A i \in Ids : controls[i] = Copied(i)
    BY DEF Init, Copied, Ids
  <1>6. QED
    <2>1. NothingForgotten
      BY <1>5, Zenon DEF NothingForgotten
    <2>2. MaskIsCurrent /\ dead \in BOOLEAN
      BY Zenon DEF Init, MaskIsCurrent
    <2>3. QED
      BY <1>3, <1>4, <2>1, <2>2 DEF IInv

\* Storing a zone: until it is announced, it is the client that keeps it in mind.
LEMMA SetKeeps ==
  ASSUME IInv, NEW c \in Clients, NEW i \in Ids, NEW z \in ZoneValues, set_zone(c, i, z)
  PROVE  IInv'
  <1>1. /\ controls' = [controls EXCEPT ![i] = z]
        /\ storing' = [storing EXCEPT ![c] = i] /\ storing[c] = NoZone
        /\ UNCHANGED <<updates, dropped, guard_vars, mask_vars, blanked, dead>>
    BY DEF set_zone
  <1>2. TypeOK'
    BY <1>1 DEF IInv, TypeOK, SetZones, guard_vars, mask_vars
  <1>3. NothingForgotten'
    <2> SUFFICES ASSUME ~dead', NEW j \in Ids \ dropped'
                 PROVE  (controls[j] = Copied(j) \/ OnItsWay(j))'
      BY DEF NothingForgotten
    <2>1. CASE j = i
      <3>1. storing'[c] = j
        BY <1>1, <2>1 DEF IInv, TypeOK
      <3>2. QED
        BY <3>1 DEF OnItsWay
    <2>2. CASE j # i
      <3>1. controls'[j] = controls[j] /\ Copied(j)' = Copied(j)
        BY <1>1, <2>2 DEF IInv, TypeOK, Copied, guard_vars, mask_vars
      <3>2. OnItsWay(j) => OnItsWay(j)'
        <4>1. \A d \in Clients : storing[d] = j => storing'[d] = j
          BY <1>1, IdsAssumption DEF IInv, TypeOK
        <4>2. QED
          BY <1>1, <4>1 DEF OnItsWay
      <3>3. controls[j] = Copied(j) \/ OnItsWay(j)
        BY <1>1 DEF IInv, NothingForgotten
      <3>4. QED
        BY <3>1, <3>2, <3>3
    <2>3. QED
      BY <2>1, <2>2
  <1>4. (guard_zones = refresh_guard_zones(guard_zone, range, spoke_len))' /\ MaskIsCurrent'
    BY <1>1 DEF IInv, guard_vars, mask_vars, MaskIsCurrent, Internal, refresh_guard_zones
  <1>5. QED
    BY <1>1, <1>2, <1>3, <1>4 DEF IInv

\* Announcing it: the id is on the channel instead, and an id that falls off a full
\* channel is one that was dropped.  A task that has panicked does not listen.
LEMMA SendKeeps ==
  ASSUME IInv, NEW c \in Clients, send_to_command_handler(c)
  PROVE  IInv'
  <1> DEFINE i == storing[c]
  <1>1. /\ i \in Ids
        /\ storing' = [storing EXCEPT ![c] = NoZone]
        /\ updates' = IF dead THEN updates ELSE Queued(i)
        /\ dropped' = (dropped \cup IF Full THEN {Head(updates)} ELSE {})
                          \ {updates'[k] : k \in DOMAIN updates'}
        /\ UNCHANGED <<controls, sets, guard_vars, mask_vars, blanked, dead>>
    BY DEF IInv, TypeOK, send_to_command_handler
  <1> HIDE DEF i
  <1>2. updates \in Seq(Ids) /\ Len(updates) <= ChannelCapacity
    BY DEF IInv, TypeOK
  <1>3. TypeOK'
    <2>1. updates' \in Seq(Ids) /\ Len(updates') <= ChannelCapacity
      BY <1>1, <1>2, QueuedTyped
    <2>2. storing' \in [Clients -> Ids \cup {NoZone}]
      BY <1>1 DEF IInv, TypeOK
    <2>3. QED
      BY <1>1, <2>1, <2>2 DEF IInv, TypeOK, guard_vars, mask_vars
  <1>4. NothingForgotten'
    <2> SUFFICES ASSUME ~dead', NEW j \in Ids \ dropped'
                 PROVE  (controls[j] = Copied(j) \/ OnItsWay(j))'
      BY DEF NothingForgotten
    <2>1. updates' = Queued(i)
      BY <1>1
    <2>2. j \in {updates'[k] : k \in DOMAIN updates'} => OnItsWay(j)'
      BY DEF OnItsWay
    <2>3. CASE j \notin {updates'[k] : k \in DOMAIN updates'}
      <3>1. j \notin dropped /\ (Full => j # Head(updates))
        BY <1>1, <2>3
      <3>2. j # i /\ \A k \in DOMAIN updates : updates[k] # j
        <4>1. /\ \E k \in DOMAIN updates' : updates'[k] = i
              /\ \A k \in DOMAIN updates :
                     \/ Full /\ updates[k] = Head(updates)
                     \/ \E n \in DOMAIN updates' : updates'[n] = updates[k]
          <5>1. /\ \E k \in DOMAIN Queued(i) : Queued(i)[k] = i
                /\ \A k \in DOMAIN updates :
                       \/ Full /\ updates[k] = Head(updates)
                       \/ \E n \in DOMAIN Queued(i) : Queued(i)[n] = updates[k]
            BY <1>1, <1>2, QueuedTyped, Zenon
          <5>2. QED
            BY <2>1, <5>1, Zenon
        <4>2. QED
          BY <2>3, <3>1, <4>1, Zenon
      <3>3. OnItsWay(j) => OnItsWay(j)'
        <4>1. \A d \in Clients : storing[d] = j => storing'[d] = j
          BY <1>1, <3>2 DEF IInv, TypeOK, i
        <4>2. QED
          BY <3>2, <4>1 DEF OnItsWay
      <3>4. controls[j] = Copied(j) \/ OnItsWay(j)
        BY <1>1, <3>1 DEF IInv, NothingForgotten
      <3>5. controls'[j] = controls[j] /\ Copied(j)' = Copied(j)
        BY <1>1 DEF Copied, guard_vars, mask_vars
      <3>6. QED
        BY <3>3, <3>4, <3>5
    <2>4. QED
      BY <2>2, <2>3
  <1>5. (guard_zones = refresh_guard_zones(guard_zone, range, spoke_len))' /\ MaskIsCurrent'
    BY <1>1 DEF IInv, guard_vars, mask_vars, MaskIsCurrent, Internal, refresh_guard_zones
  <1>6. QED
    BY <1>1, <1>3, <1>4, <1>5 DEF IInv

\* The task takes an id from the channel and copies that zone; what the others are
\* waiting for is still behind it.  The mask is marked as of no range.
LEMMA UpdateKeeps ==
  ASSUME IInv, process_control_update
  PROVE  IInv'
  <1>1. /\ updates \in Seq(Ids) /\ updates # <<>> /\ updates' = Tail(updates)
        /\ Head(updates) \in Ids
    BY DEF IInv, TypeOK, process_control_update
  <1> PICK i \in Ids : i = Head(updates)
    BY <1>1
  <1>2. /\ updates' \in Seq(Ids) /\ Len(updates') <= ChannelCapacity
        /\ \A k \in DOMAIN updates : updates[k] = i \/
               \E j \in DOMAIN updates' : updates'[j] = updates[k]
    <2>1. /\ updates' \in Seq(Ids) /\ Len(updates') = Len(updates) - 1
          /\ \A k \in 1 .. Len(updates) - 1 : updates'[k] = updates[k + 1]
      BY <1>1
    <2>2. DOMAIN updates = 1 .. Len(updates) /\ DOMAIN updates' = 1 .. Len(updates) - 1
      BY <1>1, <2>1
    <2>3. ASSUME NEW k \in DOMAIN updates, k # 1
          PROVE  \E j \in DOMAIN updates' : updates'[j] = updates[k]
      <3>1. k - 1 \in DOMAIN updates' /\ (k - 1) + 1 = k
        BY <2>2, <2>3, <1>1
      <3>2. QED
        BY <3>1, <2>1, <2>2
    <2>4. updates[1] = i
      BY <1>1
    <2>5. QED
      BY <1>1, <2>1, <2>3, <2>4, ChannelAssumption DEF IInv, TypeOK
  <1>3. /\ UNCHANGED <<client_vars, dropped, blanked, dead>>
        /\ \/ i \in GuardIds /\ set_guard_zone(i)
           \/ i \in ExclusionIds /\ set_exclusion_zone(i)
    BY DEF process_control_update
  <1>4. /\ guard_zone' \in [GuardIds -> SetZones]
        /\ exclusion_zones' \in [ExclusionIds -> SetZones]
        /\ UNCHANGED <<range, spoke_len, mask, mask_len>>
    <2>1. controls[i] \in SetZones
      BY <1>1 DEF IInv, TypeOK
    <2>2. QED
      BY <1>3, <2>1 DEF IInv, TypeOK, set_guard_zone, set_exclusion_zone, guard_vars, mask_vars
  <1>5. guard_zones' = refresh_guard_zones(guard_zone', range', spoke_len')
    BY <1>3 DEF IInv, set_guard_zone, set_exclusion_zone, guard_vars
  <1>6. TypeOK'
    <2>1. guard_zones' \in [GuardIds -> Internals \cup {NoZone}]
      BY <1>4, <1>5, GuardsTyped DEF IInv, TypeOK
    <2>2. QED
      BY <1>2, <1>3, <1>4, <2>1 DEF IInv, TypeOK, client_vars
  <1>7. Copied(i)' = controls[i] /\ \A j \in Ids \ {i} : Copied(j)' = Copied(j)
    <2>1. /\ guard_zone \in [GuardIds -> SetZones]
          /\ exclusion_zones \in [ExclusionIds -> SetZones]
      BY DEF IInv, TypeOK
    <2>2. CASE i \in GuardIds /\ set_guard_zone(i)
      <3>1. /\ guard_zone' = [guard_zone EXCEPT ![i] = controls[i]]
            /\ exclusion_zones' = exclusion_zones
        BY <2>2 DEF set_guard_zone, mask_vars
      <3>2. QED
        BY <2>1, <2>2, <3>1 DEF Copied
    <2>3. CASE i \in ExclusionIds /\ set_exclusion_zone(i)
      <3>1. /\ exclusion_zones' = [exclusion_zones EXCEPT ![i] = controls[i]]
            /\ guard_zone' = guard_zone
        BY <2>3 DEF set_exclusion_zone, guard_vars
      <3>2. QED
        BY <2>1, <2>3, <3>1, IdsAssumption DEF Copied, Ids
    <2>4. QED
      BY <1>3, <2>2, <2>3
  <1>8. NothingForgotten'
    <2> SUFFICES ASSUME ~dead', NEW j \in Ids \ dropped'
                 PROVE  (controls[j] = Copied(j) \/ OnItsWay(j))'
      BY DEF NothingForgotten
    <2>1. controls[j] = Copied(j) \/ OnItsWay(j)
      BY <1>3 DEF IInv, NothingForgotten
    <2>2. j # i => (OnItsWay(j) => OnItsWay(j)')
      BY <1>2, <1>3 DEF OnItsWay, client_vars
    <2>3. QED
      <3>1. controls' = controls
        BY <1>3 DEF client_vars
      <3>2. CASE j = i
        BY <1>7, <3>1, <3>2
      <3>3. CASE j # i
        BY <1>7, <2>1, <2>2, <3>1, <3>3
      <3>4. QED
        BY <3>2, <3>3
  <1>9. MaskIsCurrent'
    <2>1. CASE set_guard_zone(i)
      BY <2>1 DEF IInv, MaskIsCurrent, set_guard_zone, mask_vars, Internal
    <2>2. CASE set_exclusion_zone(i)
      BY <1>4, <2>2 DEF IInv, MaskIsCurrent, set_exclusion_zone
    <2>3. QED
      BY <1>3, <2>1, <2>2
  <1>10. QED
    BY <1>3, <1>5, <1>6, <1>8, <1>9 DEF IInv

\* A spoke brings the mask up to date, unless it cannot be built.
LEMMA MaskAfterSpoke ==
  ASSUME IInv, NEW r \in Nat, NEW len \in Nat, UNCHANGED exclusion_zones,
         refresh_exclusion_mask(r, len)
  PROVE  /\ MaskIsCurrent'
         /\ mask' = NoMask \/ mask'.pixels = mask_len'
         /\ dead' => dead \/ MaskPanics(Internal(r, len), len)
         /\ dead' \in BOOLEAN
         /\ (r # 0 /\ ~dead') =>
                mask' = IF Internal(r, len) = {} THEN NoMask
                        ELSE NewMask(Internal(r, len), len)
  <1>1. \A k, n : Internal(k, n)' = Internal(k, n)
    BY DEF Internal
  <1>2. CASE MaskIsKept(r, len)
    <2>1. /\ UNCHANGED <<mask, mask_range, mask_len, dead>>
          /\ r = mask_range /\ len = mask_len /\ mask # NoMask
      BY <1>2 DEF refresh_exclusion_mask, MaskIsKept
    <2>2. MaskIsCurrent'
      <3>1. Internal(mask_range, mask_len)' = Internal(mask_range, mask_len)
        BY <2>1 DEF Internal
      <3>2. QED
        BY <2>1, <3>1, Zenon DEF IInv, MaskIsCurrent
    <2>3. r # 0 => Internal(r, len) # {} /\ mask = NewMask(Internal(r, len), len)
      BY <2>1, Zenon DEF IInv, MaskIsCurrent
    <2>4. QED
      BY <2>1, <2>2, <2>3 DEF IInv, TypeOK
  <1>3. CASE ~MaskIsKept(r, len)
    <2>1. /\ mask_range' = r /\ mask_len' = len
          /\ dead' = MaskPanics(Internal(r, len), len)
          /\ mask' = IF Internal(r, len) = {} \/ dead' THEN NoMask
                     ELSE NewMask(Internal(r, len), len)
      BY <1>3, Zenon DEF refresh_exclusion_mask
    <2>2. Internal(mask_range, mask_len)' = Internal(r, len)
      BY <2>1 DEF Internal
    <2>3. NewMask(Internal(r, len), len).pixels = len
      BY DEF NewMask
    <2>4. MaskIsCurrent'
      BY <2>1, <2>2 DEF MaskIsCurrent
    <2>5. dead' \in BOOLEAN
      BY <2>1 DEF MaskPanics
    <2>6. QED
      BY <2>1, <2>3, <2>4, <2>5
  <1>4. QED
    BY <1>2, <1>3

\* A spoke: the detector's cache and the mask follow its range and length; nothing is
\* copied and nothing announced.
LEMMA SpokeKeeps ==
  ASSUME IInv, NEW r \in Ranges, NEW s \in Spokes, NEW len \in SpokeLens,
         add_spoke(r, s, len)
  PROVE  IInv'
  <1>1. r \in Nat /\ len \in Nat
    BY SpokeAssumption
  <1>2. /\ ~dead /\ refresh_exclusion_mask(r, len)
        /\ UNCHANGED <<client_vars, updates, dropped, exclusion_zones>>
        /\ UNCHANGED guard_vars \/ DetectorSees(r, len)
    BY DEF add_spoke
  <1>3. /\ MaskIsCurrent' /\ dead' \in BOOLEAN
        /\ mask' = NoMask \/ mask'.pixels = mask_len'
    BY <1>1, <1>2, MaskAfterSpoke
  <1>4. /\ guard_zone' = guard_zone /\ range' \in Nat /\ spoke_len' \in Nat
        /\ guard_zones' = refresh_guard_zones(guard_zone', range', spoke_len')
    BY <1>1, <1>2 DEF IInv, TypeOK, guard_vars, DetectorSees
  <1>5. TypeOK'
    <2>1. guard_zones' \in [GuardIds -> Internals \cup {NoZone}]
      BY <1>4, GuardsTyped DEF IInv, TypeOK
    <2>2. QED
      BY <1>2, <1>3, <1>4, <2>1 DEF IInv, TypeOK, client_vars
  <1>6. NothingForgotten'
    <2>1. \A i \in Ids : /\ controls'[i] = controls[i]
                         /\ Copied(i)' = Copied(i)
                         /\ OnItsWay(i)' = OnItsWay(i)
      BY <1>2, <1>4 DEF client_vars, Copied, OnItsWay
    <2>2. dropped' = dropped /\ ~dead
      BY <1>2
    <2>3. QED
      BY <2>1, <2>2, Zenon DEF IInv, NothingForgotten
  <1>7. QED
    BY <1>3, <1>4, <1>5, <1>6 DEF IInv

\* Every step keeps the inductive invariant.
LEMMA NextKeeps == IInv /\ [Next]_vars => IInv'
  <1> SUFFICES ASSUME IInv, [Next]_vars PROVE IInv'
    OBVIOUS
  <1>1. ASSUME NEW c \in Clients, NEW i \in Ids, NEW z \in ZoneValues, set_zone(c, i, z)
        PROVE  IInv'
    BY <1>1, SetKeeps
  <1>2. ASSUME NEW c \in Clients, send_to_command_handler(c)
        PROVE  IInv'
    BY <1>2, SendKeeps
  <1>3. CASE process_control_update
    BY <1>3, UpdateKeeps
  <1>4. ASSUME NEW r \in Ranges, NEW s \in Spokes, NEW len \in SpokeLens,
               add_spoke(r, s, len)
        PROVE  IInv'
    BY <1>4, SpokeKeeps
  <1>5. CASE UNCHANGED vars
    BY <1>5 DEF vars, client_vars, guard_vars, mask_vars, IInv, TypeOK, NothingForgotten,
       MaskIsCurrent, Internal, Copied, OnItsWay, refresh_guard_zones
  <1>6. QED
    BY <1>1, <1>2, <1>3, <1>4, <1>5 DEF Next

\* The invariant the other theorems rest on: no change of a zone is forgotten between
\* the client that stores it and the task that copies it, and a mask that may be
\* reused is that of the zones there are.
THEOREM NoChangeForgotten == Spec => []IInv
  BY InitIInv, NextKeeps, PTL DEF Spec

\* The radar's task has copied every zone when nothing is under way, but for those
\* whose announcement a full channel dropped, and its guard zones are cached for the
\* range and length seen last: for any number of zones, clients and changes and any
\* capacity of the channel (set_guard_zone, refresh_guard_zones, process_spoke).
THEOREM ZonesCurrent == Spec => []ZonesAreCurrent
  <1>1. IInv => ZonesAreCurrent
    <2> SUFFICES ASSUME IInv PROVE ZonesAreCurrent
      OBVIOUS
    <2>1. ASSUME Quiet, ~dead, NEW i \in Ids \ dropped
          PROVE  controls[i] = Copied(i)
      <3>1. \A c \in Clients : storing[c] # i
        BY <2>1, IdsAssumption DEF Quiet
      <3>2. DOMAIN updates = {}
        BY <2>1 DEF Quiet
      <3>3. ~OnItsWay(i)
        BY <3>1, <3>2 DEF OnItsWay
      <3>4. QED
        BY <2>1, <3>3 DEF IInv, NothingForgotten
    <2>2. QED
      BY <2>1 DEF IInv, ZonesAreCurrent
  <1>2. QED
    BY <1>1, NoChangeForgotten, PTL

\* A spoke that is added is blanked at the pixels of the enabled exclusion zones and
\* nowhere else, whatever mask was there before; and building the mask fails only for
\* a zone that reaches the end of a spoke of whole bytes (refresh_exclusion_mask,
\* ExclusionMask::new, is_excluded).
THEOREM SpokesBlankedExactly == Spec => EverySpokeIsBlankedExactly
  <1>1. ASSUME IInv, NEW r \in Ranges \ {0}, NEW s \in Spokes, NEW len \in SpokeLens,
               add_spoke(r, s, len)
        PROVE  \/ dead' /\ Overruns(r, len)
               \/ /\ ~dead'
                  /\ blanked' = {p \in 0 .. len - 1 :
                        \E z \in Internal(r, len) :
                            in_angle(z, s) /\ p \in z.start_pixel .. z.end_pixel}
    <2> DEFINE zones == Internal(r, len)
    <2>1. r \in Nat /\ r # 0 /\ len \in Nat
      BY SpokeAssumption
    <2>2. zones \in SUBSET Internals /\ \A z \in zones : z.end_pixel <= len
      BY <1>1, <2>1, InternalTyped DEF IInv, TypeOK
    <2>3. /\ ~dead /\ refresh_exclusion_mask(r, len) /\ UNCHANGED exclusion_zones
          /\ ~dead' => blanked' = IF mask' = NoMask THEN {}
                                  ELSE {p \in 0 .. len - 1 : is_excluded(mask', s, p)}
      BY <1>1 DEF add_spoke
    <2>4. /\ dead' => MaskPanics(zones, len)
          /\ ~dead' => mask' = IF zones = {} THEN NoMask ELSE NewMask(zones, len)
      BY <1>1, <2>1, <2>3, MaskAfterSpoke
    <2> HIDE DEF zones
    <2>5. CASE dead'
      <3>1. len % 8 = 0 /\ \E z \in zones : z.end_pixel = len
        BY <2>1, <2>2, <2>4, <2>5, PanicsOnlyAtTheEnd
      <3>2. QED
        BY <2>5, <3>1 DEF Overruns, zones
    <2>6. CASE ~dead' /\ zones = {}
      BY <2>3, <2>4, <2>6 DEF zones
    <2>7. CASE ~dead' /\ zones # {}
      <3>1. mask' = NewMask(zones, len) /\ mask' # NoMask
        BY <2>1, <2>4, <2>7, MaskTyped
      <3>2. blanked' = {p \in 0 .. len - 1 : is_excluded(NewMask(zones, len), s, p)}
        BY <2>3, <2>7, <3>1
      <3>3. {p \in 0 .. len - 1 : is_excluded(NewMask(zones, len), s, p)} =
            {p \in 0 .. len - 1 : \E z \in zones :
                 in_angle(z, s) /\ p \in z.start_pixel .. z.end_pixel}
        BY <2>1, <2>2, MaskIsExact
      <3>4. QED
        BY <2>7, <3>2, <3>3 DEF zones
    <2>8. QED
      BY <2>5, <2>6, <2>7
  <1>2. IInv => BlanksExactly
    BY <1>1, Zenon DEF BlanksExactly
  <1>3. QED
    BY <1>2, NoChangeForgotten, PTL DEF EverySpokeIsBlankedExactly
=============================================================================
