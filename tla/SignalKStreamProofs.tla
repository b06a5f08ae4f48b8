-------------------------- MODULE SignalKStreamProofs --------------------------
(* Proofs about SignalKStream, for any number of controls, vessels and clients' *)
(* subscriptions and any capacity of the channel.  First the producers of       *)
(* deltas (the writers of controls and the AIS store), then the client and the  *)
(* theorems: a client's picture is that of the server, vessels are announced,   *)
(* and a client gets what it asked for.                                         *)
EXTENDS SignalKStream, WellFoundedInduction, TLAPS

\* The writers of controls.  A control that was not written by two at once has one
\* writer at most, and its copy is what the control holds; the units it has read and
\* the ranges it has filtered are of that value too.
Writes == [stage : {"read", "filter", "send"}, id : ControlIds,
           copy : Values, units : Values \cup {Unset}]

ControlTypes ==
    /\ control \in [ControlIds -> [value : Values \cup {Unset}, needs_refresh : BOOLEAN]]
    /\ \A id \in Internals : control[id].value \in Values
    /\ filter \in Values
    /\ task \in [Tasks -> {Idle} \cup Writes]
    /\ \A w \in Tasks : task[w].stage = "filter" => task[w].units \in Values
    /\ \A w \in Tasks : task[w].stage \in {"read", "filter"} => task[w].id = RangeUnits
    /\ commands \in Seq([id : Commands, value : Values]) /\ Len(commands) <= MaxCommands
    /\ device \in [Commands -> Values]

SoleWriter ==
    \A id \in ControlIds \ overlapped : \A w, x \in Tasks :
        Underway(w, id) /\ Underway(x, id) => w = x

CopiesAreCurrent ==
    \A w \in Tasks, id \in ControlIds \ overlapped : Underway(w, id) =>
        /\ task[w].copy = control[id].value
        /\ task[w].stage = "filter" => task[w].units = control[id].value
        /\ (task[w].stage = "send" /\ id = RangeUnits) => filter = control[id].value

ControlsInv == ControlTypes /\ SoleWriter /\ CopiesAreCurrent /\ RangesAreFresh

\* The AIS store.  A vessel that is not in the map is one of which nothing is known.
AisInv ==
    /\ vessels \in [Mmsis -> Positions \cup {Nothing}]
    /\ known \in SUBSET Mmsis
    /\ pending \in SUBSET Mmsis
    /\ announced \in [Mmsis -> Positions \cup {Nothing, Lost}]
    /\ flusher \in [stage : {"rest", "remove", "read", "announce"}, due : SUBSET Mmsis]
    /\ flusher.stage = "rest" => flusher.due = {}
    /\ reaper \in [stage : {"rest", "found", "mark"}, due : SUBSET Mmsis]
    /\ \A m \in Mmsis \ known : vessels[m] = Nothing
    /\ UpdatesAreAnnounced

\* The client.  What it follows it has asked for, and before it streams, or once it
\* has left, there is nothing it follows.
ClientTypes ==
    /\ stage \in {"away", "joined", "streaming"}
    /\ joined = (stage # "away")
    /\ mode \in {"none", "some", "all"}
    /\ subs \in [Keys -> [ControlIds -> Subscriptions]]
    /\ fleet \in BOOLEAN
    /\ view \in [Paths -> Shown \cup {Unseen}]
    /\ channel \in Seq([path : Paths, value : Shown]) /\ Len(channel) <= ChannelCapacity
    /\ stage = "away" => mode = "none" /\ channel = <<>> /\ missed = {}
    /\ stage # "streaming" => since = {}
    /\ mode # "some" => subs = NoSubs /\ ~fleet

SinceIsFollowed == since \subseteq Followed(mode, subs, fleet)

HasAsked ==
    /\ mode = "all" => \A p \in Paths : <<"all", p>> \in asked
    /\ \A k \in Keys, id \in ControlIds : subs[k][id] # NoSub => <<k, id>> \in asked
    /\ fleet => \A m \in Mmsis : <<"*", m>> \in asked

\* What a client may show of a path: what the server has, unless a write is on its
\* way, or something else will be said of it.
Good(p, v) ==
    IF p \in ControlIds
    THEN p \in overlapped \/ Unsettled(p) \/ v = control[p].value
    ELSE IF p \in known
    THEN p \in pending \cup flusher.due \/ vessels[p] = Nothing \/ v = vessels[p]
    ELSE v = Lost

\* The last delta on a path is good, whether the client has read it or not.
Latest(i) == \A j \in DOMAIN channel : j > i => channel[j].path # channel[i].path

LatestIsGood ==
    \A i \in DOMAIN channel : Latest(i) => Good(channel[i].path, channel[i].value)

SeenIsGood == \A p \in since : p \in missed \/ InChannel(p) \/ Good(p, view[p])

MissedIsGone == \A p \in missed : ~InChannel(p)

ChannelInv == LatestIsGood /\ SeenIsGood /\ MissedIsGone

\* The inductive invariant.
IInv ==
    /\ ControlsInv /\ AisInv
    /\ ClientTypes /\ SinceIsFollowed /\ HasAsked
    /\ ChannelInv

-------------------------------------------------------------------------------
\* The channel.  Of what a client has read or has still to read, only what the
\* server now knows better can become wrong.

Deltas == [path : Paths, value : Shown]

\* What is on the channel are deltas.
LEMMA ChannelTyped ==
  ASSUME ClientTypes
  PROVE  \A i \in DOMAIN channel :
            channel[i] \in Deltas /\ channel[i].path \in Paths /\ channel[i].value \in Shown
  <1>1. channel \in Seq(Deltas)
    BY DEF ClientTypes, Deltas
  <1>2. \A i \in DOMAIN channel : channel[i] \in Deltas
    BY <1>1
  <1>3. QED
    BY <1>2 DEF Deltas

\* A delta that is sent is the last one of the channel; of the others at most the
\* first is gone.
LEMMA BroadcastShifts ==
  ASSUME ClientTypes, joined, NEW d \in Deltas, Broadcast(d)
  PROVE  \E o \in {0, 1} :
           /\ o <= Len(channel)
           /\ channel' \in Seq(Deltas) /\ Len(channel') <= ChannelCapacity
           /\ Len(channel') = Len(channel) + 1 - o
           /\ channel'[Len(channel')] = d
           /\ \A i \in 1 .. Len(channel) - o : channel'[i] = channel[i + o]
           /\ missed' = (missed \cup (IF o = 1 THEN {channel[1].path} ELSE {}))
                           \ (IF o = 1 THEN {channel'[i].path : i \in DOMAIN channel'}
                              ELSE {d.path})
  <1>1. channel \in Seq(Deltas) /\ Len(channel) <= ChannelCapacity
    BY DEF ClientTypes, Deltas
  <1>2. CASE Len(channel) < ChannelCapacity
    <2>1. channel' = Append(channel, d) /\ missed' = missed \ {d.path}
      BY <1>2 DEF Broadcast
    <2>2. /\ channel' \in Seq(Deltas) /\ Len(channel') = Len(channel) + 1
          /\ channel'[Len(channel) + 1] = d
          /\ \A i \in 1 .. Len(channel) : channel'[i] = channel[i]
      BY <1>1, <2>1
    <2>3. Len(channel) \in Nat /\ \A i \in 1 .. Len(channel) : i + 0 = i
      BY <1>1
    <2>4. QED
      BY <1>2, <2>1, <2>2, <2>3, CapacityAssumption
  <1>3. CASE ~(Len(channel) < ChannelCapacity)
    <2>1. Len(channel) = ChannelCapacity /\ channel # <<>>
      BY <1>1, <1>3, CapacityAssumption
    <2>2. /\ channel' = Append(Tail(channel), d)
          /\ missed' = (missed \cup {channel[1].path})
                         \ {channel'[i].path : i \in DOMAIN channel'}
      BY <1>1, <1>3, <2>1 DEF Broadcast
    <2>3. /\ Tail(channel) \in Seq(Deltas) /\ Len(Tail(channel)) = Len(channel) - 1
          /\ \A i \in 1 .. Len(channel) - 1 : Tail(channel)[i] = channel[i + 1]
      BY <1>1, <2>1
    <2>4. /\ channel' \in Seq(Deltas) /\ Len(channel') = Len(channel)
          /\ channel'[Len(channel)] = d
          /\ \A i \in 1 .. Len(channel) - 1 : channel'[i] = channel[i + 1]
      BY <1>1, <2>2, <2>3
    <2>5. QED
      BY <2>1, <2>2, <2>4, CapacityAssumption
  <1>4. QED
    BY <1>2, <1>3

\* Sending a delta that is good leaves every path good, read or unread.
LEMMA BroadcastKeeps ==
  ASSUME ClientTypes, SinceIsFollowed, ChannelInv, NEW d \in Deltas, Broadcast(d),
         UNCHANGED clientVars,
         \A p \in Paths \ {d.path} : \A v : Good(p, v) => Good(p, v)',
         Good(d.path, d.value)'
  PROVE  ClientTypes' /\ ChannelInv'
  <1>1. channel \in Seq(Deltas) /\ DOMAIN channel = 1 .. Len(channel) /\ Len(channel) \in Nat
    BY DEF ClientTypes, Deltas
  <1>2. since \subseteq Paths
    BY DEF SinceIsFollowed, Followed, Paths
  <1>3. CASE ~joined
    <2>1. /\ channel = <<>> /\ missed = {} /\ since = {}
          /\ UNCHANGED <<channelVars, clientVars>>
      BY <1>3, Zenon DEF ClientTypes, Broadcast, channelVars
    <2>2. QED
      BY <2>1 DEF ClientTypes, ChannelInv, LatestIsGood, SeenIsGood, MissedIsGone,
         clientVars, channelVars
  <1>4. CASE joined
    <2>1. PICK o \in {0, 1} :
           /\ o <= Len(channel)
           /\ channel' \in Seq(Deltas) /\ Len(channel') <= ChannelCapacity
           /\ Len(channel') = Len(channel) + 1 - o
           /\ channel'[Len(channel')] = d
           /\ \A i \in 1 .. Len(channel) - o : channel'[i] = channel[i + o]
           /\ missed' = (missed \cup (IF o = 1 THEN {channel[1].path} ELSE {}))
                           \ (IF o = 1 THEN {channel'[i].path : i \in DOMAIN channel'}
                              ELSE {d.path})
      BY <1>4, BroadcastShifts, Zenon
    <2> DEFINE n == Len(channel) - o
    <2>2. n \in Nat /\ DOMAIN channel' = 1 .. n + 1 /\ channel'[n + 1] = d
      BY <1>1, <2>1
    <2>3. \A i \in 1 .. n : channel'[i] = channel[i + o] /\ i + o \in DOMAIN channel
      BY <1>1, <2>1
    <2>4. \A j \in DOMAIN channel : j - o \in 1 .. n \/ (o = 1 /\ j = 1)
      BY <1>1, <2>1
    <2>5. \A j \in DOMAIN channel : (j - o) + o = j
      BY <1>1
    <2> HIDE DEF n
    <2>6. ClientTypes'
      <3>1. joined' = joined /\ stage # "away"
        BY <1>4 DEF Broadcast, ClientTypes
      <3>2. QED
        BY <2>1, <3>1 DEF ClientTypes, clientVars, Deltas
    <2>7. LatestIsGood'
      <3> SUFFICES ASSUME NEW i \in 1 .. n + 1, Latest(i)'
                   PROVE  Good(channel[i].path, channel[i].value)'
        BY <2>2 DEF LatestIsGood
      <3>1. CASE i = n + 1
        <4>1. channel'[i].path = d.path /\ channel'[i].value = d.value
          BY <2>2, <3>1
        <4>2. QED
          BY <4>1 DEF Good
      <3>2. CASE i # n + 1
        <4>1. i \in 1 .. n /\ n + 1 > i
          BY <2>2, <3>2
        <4>2. channel'[i].path # d.path
          BY <2>2, <4>1 DEF Latest
        <4>3. Latest(i + o)
          <5> SUFFICES ASSUME NEW j \in DOMAIN channel, j > i + o
                       PROVE  channel[j].path # channel[i + o].path
            BY DEF Latest
          <5>1. j - o > i /\ j - o \in 1 .. n
            BY <1>1, <2>1, <2>4, <4>1
          <5>2. channel'[j - o].path # channel'[i].path
            BY <2>2, <5>1 DEF Latest
          <5>3. channel'[j - o] = channel[j]
            BY <2>3, <2>5, <5>1
          <5>4. QED
            BY <2>3, <4>1, <5>2, <5>3
        <4>4. Good(channel[i + o].path, channel[i + o].value)
          BY <2>3, <4>1, <4>3 DEF ChannelInv, LatestIsGood
        <4>5. channel[i + o].path \in Paths
          BY <2>3, <4>1, ChannelTyped
        <4>6. QED
          <5>1. channel'[i] = channel[i + o]
            BY <2>3, <4>1
          <5>2. PICK p \in Paths : p = channel[i + o].path
            BY <4>5
          <5>3. PICK v : v = channel[i + o].value
            OBVIOUS
          <5>4. Good(p, v)'
            BY <4>2, <4>4, <5>1, <5>2, <5>3
          <5>5. QED
            BY <5>1, <5>2, <5>3, <5>4 DEF Good
      <3>3. QED
        BY <3>1, <3>2
    <2>8. SeenIsGood'
      <3> SUFFICES ASSUME NEW p \in since, ~InChannel(p)'
                   PROVE  p \in missed' \/ Good(p, view[p])'
        BY DEF SeenIsGood, clientVars
      <3>1. p # d.path /\ \A i \in 1 .. n + 1 : channel'[i].path # p
        BY <2>2 DEF InChannel
      <3>2. p \notin {channel'[i].path : i \in DOMAIN channel'}
        BY <2>2, <3>1
      <3>3. CASE p \in missed
        BY <2>1, <3>1, <3>2, <3>3
      <3>4. CASE InChannel(p)
        <4>1. PICK j \in DOMAIN channel : channel[j].path = p
          BY <3>4 DEF InChannel
        <4>2. ~(j - o \in 1 .. n)
          <5>1. j - o \in 1 .. n => channel'[j - o] = channel[j] /\ j - o \in 1 .. n + 1
            BY <2>2, <2>3, <2>5
          <5>2. QED
            BY <3>1, <4>1, <5>1
        <4>3. o = 1 /\ channel[1].path = p
          BY <2>4, <4>1, <4>2
        <4>4. QED
          BY <2>1, <3>2, <4>3
      <3>5. CASE Good(p, view[p])
        BY <1>2, <3>1, <3>5 DEF clientVars
      <3>6. QED
        BY <3>3, <3>4, <3>5 DEF ChannelInv, SeenIsGood
    <2>9. MissedIsGone'
      <3> SUFFICES ASSUME NEW p \in missed', NEW i \in 1 .. n + 1, channel'[i].path = p
                   PROVE  FALSE
        BY <2>2 DEF MissedIsGone, InChannel
      <3>1. o = 0 /\ p \in missed /\ p # d.path
        BY <2>1, <2>2, ZenonT(40)
      <3>2. i \in 1 .. n
        BY <2>2, <3>1
      <3>3. InChannel(p)
        BY <2>3, <3>2 DEF InChannel
      <3>4. QED
        BY <3>1, <3>3 DEF ChannelInv, MissedIsGone
    <2>10. QED
      BY <2>6, <2>7, <2>8, <2>9 DEF ChannelInv
  <1>5. QED
    BY <1>3, <1>4 DEF ClientTypes

\* A step that sends nothing and leaves the client alone keeps what it shows good, as
\* long as nothing good becomes wrong.
LEMMA SilentKeeps ==
  ASSUME ClientTypes, SinceIsFollowed, ChannelInv,
         UNCHANGED <<channelVars, clientVars>>,
         \A p \in Paths : \A v : Good(p, v) => Good(p, v)'
  PROVE  ClientTypes' /\ ChannelInv'
  <1>1. since \subseteq Paths
    BY DEF SinceIsFollowed, Followed, Paths
  <1>2. \A i \in DOMAIN channel : channel[i].path \in Paths
    BY ChannelTyped
  <1>3. UNCHANGED <<joined, channel, lagged, missed, stage, mode, subs, fleet, view, since>>
    BY DEF channelVars, clientVars
  <1>4. ClientTypes'
    BY <1>3 DEF ClientTypes
  <1>5. LatestIsGood'
    BY <1>2, <1>3, Zenon DEF ChannelInv, LatestIsGood, Latest
  <1>6. SeenIsGood'
    BY <1>1, <1>3, Zenon DEF ChannelInv, SeenIsGood, InChannel
  <1>7. MissedIsGone'
    BY <1>3 DEF ChannelInv, MissedIsGone, InChannel
  <1>8. QED
    BY <1>4, <1>5, <1>6, <1>7 DEF ChannelInv

-------------------------------------------------------------------------------
\* The controls.  A write in progress makes its control unsettled; whatever else a
\* step does to the controls, what was good stays good.

GoodControlsStay == \A p \in ControlIds : \A v : Good(p, v) => Good(p, v)'

\* The first half of a write (Control::set under its lock), by any task.
LEMMA SetKeeps ==
  ASSUME ControlsInv, NEW w \in Tasks, NEW id \in ControlIds, NEW value \in Values,
         Set(w, id, value), UNCHANGED <<filter, commands, device>>
  PROVE  ControlsInv' /\ GoodControlsStay
  <1>1. CASE ~SetChanges(control[id], value)
    <2>1. UNCHANGED <<control, task, overlapped, filter, commands, device>>
      BY <1>1 DEF Set
    <2>2. \A x \in Tasks : \A p : Underway(x, p)' = Underway(x, p)
      BY <2>1 DEF Underway
    <2>3. ControlsInv'
      BY <2>1, SMTT(30) DEF ControlsInv, ControlTypes, SoleWriter, CopiesAreCurrent, RangesAreFresh,
         Unsettled, Underway
    <2>4. QED
      BY <2>1, <2>3 DEF GoodControlsStay, Good, Unsettled, Underway
  <1>2. CASE SetChanges(control[id], value)
    <2> DEFINE write == [stage |-> IF id = RangeUnits THEN "read" ELSE "send",
                         id |-> id, copy |-> value, units |-> Unset]
    <2>1. /\ task[w].stage = "idle"
          /\ control' = [control EXCEPT ![id] = [value |-> value, needs_refresh |-> FALSE]]
          /\ task' = [task EXCEPT ![w] = write]
          /\ overlapped' = IF \E other \in Tasks : Underway(other, id)
                           THEN overlapped \cup {id} ELSE overlapped \ {id}
      BY <1>2 DEF Set
    <2>2. write \in Writes /\ write.stage # "idle" /\ write.id = id /\ write.copy = value
      BY DEF Writes
    <2>3. write.stage # "filter" /\ (write.stage = "send" => id # RangeUnits)
          /\ (write.stage = "read" => id = RangeUnits)
      OBVIOUS
    <2> HIDE DEF write
    <2>4. task'[w] = write /\ \A x \in Tasks \ {w} : task'[x] = task[x]
      BY <2>1 DEF ControlsInv, ControlTypes
    <2>5. /\ control'[id] = [value |-> value, needs_refresh |-> FALSE]
          /\ \A p \in ControlIds \ {id} : control'[p] = control[p]
      BY <2>1 DEF ControlsInv, ControlTypes
    <2>6. /\ \A p : Underway(w, p)' <=> p = id
          /\ \A p : ~Underway(w, p)
          /\ \A x \in Tasks \ {w} : \A p : Underway(x, p)' <=> Underway(x, p)
      BY <2>1, <2>2, <2>4 DEF Underway
    <2>7. /\ \A p \in ControlIds \ {id} : p \in overlapped' <=> p \in overlapped
          /\ id \notin overlapped' => \A x \in Tasks : ~Underway(x, id)
      BY <2>1
    <2>8. ControlTypes'
      <3>1. task' \in [Tasks -> {Idle} \cup Writes]
        BY <2>1, <2>2 DEF ControlsInv, ControlTypes
      <3>2. control' \in [ControlIds -> [value : Values \cup {Unset}, needs_refresh : BOOLEAN]]
        BY <2>1 DEF ControlsInv, ControlTypes
      <3>3. \A p \in Internals : control'[p].value \in Values
        BY <2>5, SMTT(30) DEF ControlsInv, ControlTypes, ControlIds
      <3>4. \A x \in Tasks : /\ task'[x].stage = "filter" => task'[x].units \in Values
                             /\ task'[x].stage \in {"read", "filter"} => task'[x].id = RangeUnits
        BY <2>2, <2>3, <2>4 DEF ControlsInv, ControlTypes
      <3>5. QED
        BY <3>1, <3>2, <3>3, <3>4 DEF ControlsInv, ControlTypes
    <2>9. SoleWriter'
      <3> SUFFICES ASSUME NEW p \in ControlIds \ overlapped', NEW x \in Tasks, NEW y \in Tasks,
                          Underway(x, p)', Underway(y, p)'
                   PROVE  x = y
        BY DEF SoleWriter
      <3>1. CASE p = id
        BY <2>6, <2>7, <3>1
      <3>2. CASE p # id
        BY <2>6, <2>7, <3>2 DEF ControlsInv, SoleWriter
      <3>3. QED
        BY <3>1, <3>2
    <2>10. CopiesAreCurrent'
      <3> SUFFICES ASSUME NEW x \in Tasks, NEW p \in ControlIds \ overlapped', Underway(x, p)'
                   PROVE  /\ task'[x].copy = control'[p].value
                          /\ task'[x].stage = "filter" => task'[x].units = control'[p].value
                          /\ (task'[x].stage = "send" /\ p = RangeUnits) => filter' = control'[p].value
        BY DEF CopiesAreCurrent
      <3>1. CASE p = id
        BY <2>2, <2>3, <2>4, <2>5, <2>6, <2>7, <3>1
      <3>2. CASE p # id
        <4>1. p \in ControlIds \ overlapped /\ x # w /\ Underway(x, p)
          BY <2>6, <2>7, <3>2
        <4>2. /\ task[x].copy = control[p].value
              /\ task[x].stage = "filter" => task[x].units = control[p].value
              /\ (task[x].stage = "send" /\ p = RangeUnits) => filter = control[p].value
          BY <4>1, ZenonT(40) DEF ControlsInv, CopiesAreCurrent
        <4>3. task'[x] = task[x] /\ control'[p] = control[p]
          BY <2>4, <2>5, <3>2, <4>1, ZenonT(40)
        <4>4. QED
          BY <2>1, <4>2, <4>3
      <3>3. QED
        BY <3>1, <3>2
    <2>11. \A p \in ControlIds : p # id => (Unsettled(p)' <=> Unsettled(p))
      BY <2>6, Zenon DEF Unsettled
    <2>12. Unsettled(id)'
      BY <2>6 DEF Unsettled
    <2>13. RangesAreFresh'
      <3>1. RangeUnits \in ControlIds
        BY ControlsAssumption DEF ControlIds
      <3>2. CASE RangeUnits = id
        BY <2>12, <3>2 DEF RangesAreFresh
      <3>3. CASE RangeUnits # id
        BY <2>5, <2>7, <2>11, <3>1, <3>3 DEF ControlsInv, RangesAreFresh
      <3>4. QED
        BY <3>2, <3>3
    <2>14. GoodControlsStay
      <3> SUFFICES ASSUME NEW p \in ControlIds, NEW v, Good(p, v)
                   PROVE  Good(p, v)'
        BY DEF GoodControlsStay
      <3>1. CASE p = id
        BY <2>12, <3>1 DEF Good
      <3>2. CASE p # id
        BY <2>5, <2>7, <2>11, <3>2, ZenonT(40) DEF Good
      <3>3. QED
        BY <3>1, <3>2
    <2>15. QED
      BY <2>8, <2>9, <2>10, <2>13, <2>14 DEF ControlsInv
  <1>3. QED
    BY <1>1, <1>2

\* The two steps of update_valid_ranges: the units are read, then filtered by.
LEMMA RangesKeep ==
  ASSUME ControlsInv, NEW w \in Tasks, ReadUnits(w) \/ FilterRanges(w)
  PROVE  ControlsInv' /\ GoodControlsStay
  <1>1. RangeUnits \in ControlIds /\ RangeUnits \in Internals
    BY ControlsAssumption DEF ControlIds
  <1>2. /\ UNCHANGED <<control, commands, device, overlapped>>
        /\ task[w].stage \in {"read", "filter"}
    BY DEF ReadUnits, FilterRanges
  <1>3. task[w] \in Writes /\ task[w].id = RangeUnits /\ task[w].stage # "idle"
    BY <1>2 DEF ControlsInv, ControlTypes, Idle
  <1>4. /\ task' \in [Tasks -> {Idle} \cup Writes]
        /\ task'[w].id = RangeUnits /\ task'[w].copy = task[w].copy
        /\ \A x \in Tasks \ {w} : task'[x] = task[x]
        /\ \/ /\ task'[w].stage = "filter" /\ filter' = filter
              /\ task'[w].units = control[RangeUnits].value
           \/ /\ task[w].stage = "filter" /\ task'[w].stage = "send"
              /\ filter' = task[w].units
    <2>1. CASE ReadUnits(w)
      <3>1. /\ task' = [task EXCEPT ![w].stage = "filter", ![w].units = control[RangeUnits].value]
            /\ filter' = filter
        BY <2>1 DEF ReadUnits
      <3>2. control[RangeUnits].value \in Values
        BY <1>1 DEF ControlsInv, ControlTypes
      <3>3. QED
        BY <1>3, <3>1, <3>2, Zenon DEF ControlsInv, ControlTypes, Writes
    <2>2. CASE FilterRanges(w)
      <3>1. /\ task' = [task EXCEPT ![w].stage = "send"]
            /\ filter' = task[w].units /\ task[w].stage = "filter"
        BY <2>2 DEF FilterRanges
      <3>2. QED
        BY <1>3, <3>1 DEF ControlsInv, ControlTypes, Writes
    <2>3. QED
      BY <2>1, <2>2, ZenonT(40)
  <1>5. \A x \in Tasks : \A p : Underway(x, p)' <=> Underway(x, p)
    BY <1>3, <1>4 DEF Underway
  <1>6. Underway(w, RangeUnits)
    BY <1>3 DEF Underway
  <1>7. ControlTypes'
    <2>1. control[RangeUnits].value \in Values
      BY <1>1 DEF ControlsInv, ControlTypes
    <2>2. filter' \in Values
      BY <1>4 DEF ControlsInv, ControlTypes
    <2>3. \A x \in Tasks : /\ task'[x].stage = "filter" => task'[x].units \in Values
                           /\ task'[x].stage \in {"read", "filter"} => task'[x].id = RangeUnits
      BY <1>4, <2>1 DEF ControlsInv, ControlTypes
    <2>4. QED
      BY <1>2, <1>4, <2>2, <2>3 DEF ControlsInv, ControlTypes
  <1>8. SoleWriter'
    BY <1>2, <1>5, Zenon DEF ControlsInv, SoleWriter
  <1>9. CopiesAreCurrent'
    <2> SUFFICES ASSUME NEW x \in Tasks, NEW p \in ControlIds \ overlapped, Underway(x, p)
                 PROVE  /\ task'[x].copy = control[p].value
                        /\ task'[x].stage = "filter" => task'[x].units = control[p].value
                        /\ (task'[x].stage = "send" /\ p = RangeUnits) => filter' = control[p].value
      BY <1>2, <1>5 DEF CopiesAreCurrent
    <2>1. /\ task[x].copy = control[p].value
          /\ task[x].stage = "filter" => task[x].units = control[p].value
          /\ (task[x].stage = "send" /\ p = RangeUnits) => filter = control[p].value
      BY DEF ControlsInv, CopiesAreCurrent
    <2>2. CASE x = w
      <3>1. p = RangeUnits
        BY <1>3, <2>2 DEF Underway
      <3>2. QED
        BY <1>4, <2>1, <2>2, <3>1
    <2>3. CASE x # w
      <3>1. p # RangeUnits
        BY <1>6, <2>3 DEF ControlsInv, SoleWriter
      <3>2. QED
        BY <1>4, <2>1, <2>3, <3>1, ZenonT(40)
    <2>4. QED
      BY <2>2, <2>3
  <1>10. \A p : Unsettled(p)' <=> Unsettled(p)
    BY <1>5, Zenon DEF Unsettled
  <1>11. RangesAreFresh'
    BY <1>6, <1>10 DEF RangesAreFresh, Unsettled
  <1>12. GoodControlsStay
    BY <1>2, <1>10 DEF GoodControlsStay, Good
  <1>13. QED
    BY <1>7, <1>8, <1>9, <1>11, <1>12 DEF ControlsInv

\* The second half of a write: the copy that goes out is what the control holds, or
\* the control was written by two at once.
LEMMA SendKeeps ==
  ASSUME ControlsInv, NEW w \in Tasks, SendToAllClients(w)
  PROVE  /\ ControlsInv'
         /\ \E d \in Deltas :
              /\ Broadcast(d) /\ d.path \in ControlIds /\ Good(d.path, d.value)'
              /\ \A p \in ControlIds \ {d.path} : \A v : Good(p, v) => Good(p, v)'
  <1>1. /\ UNCHANGED <<control, filter, commands, device, overlapped>>
        /\ task' = [task EXCEPT ![w] = Idle]
        /\ task[w].stage = "send"
        /\ Broadcast([path |-> task[w].id, value |-> task[w].copy])
    BY DEF SendToAllClients
  <1>2. task[w] \in Writes
    BY <1>1 DEF ControlsInv, ControlTypes, Idle
  <1>3. PICK id \in ControlIds : id = task[w].id
    BY <1>2 DEF Writes
  <1>4. PICK copy \in Values : copy = task[w].copy
    BY <1>2 DEF Writes
  <1>5. task'[w] = Idle /\ \A x \in Tasks \ {w} : task'[x] = task[x]
    BY <1>1 DEF ControlsInv, ControlTypes
  <1>6. /\ \A p : ~Underway(w, p)'
        /\ Underway(w, id)
        /\ \A p : p # id => ~Underway(w, p)
        /\ \A x \in Tasks \ {w} : \A p : Underway(x, p)' <=> Underway(x, p)
    BY <1>1, <1>3, <1>5 DEF Underway, Idle
  <1>7. ControlTypes'
    <2>1. task' \in [Tasks -> {Idle} \cup Writes]
      BY <1>1 DEF ControlsInv, ControlTypes
    <2>2. \A x \in Tasks : /\ task'[x].stage = "filter" => task'[x].units \in Values
                           /\ task'[x].stage \in {"read", "filter"} => task'[x].id = RangeUnits
      BY <1>5 DEF ControlsInv, ControlTypes, Idle
    <2>3. QED
      BY <1>1, <2>1, <2>2 DEF ControlsInv, ControlTypes
  <1>8. SoleWriter'
    BY <1>1, <1>6, ZenonT(40) DEF ControlsInv, SoleWriter
  <1>9. CopiesAreCurrent'
    <2> SUFFICES ASSUME NEW x \in Tasks, NEW p \in ControlIds \ overlapped, Underway(x, p)'
                 PROVE  /\ task'[x].copy = control[p].value
                        /\ task'[x].stage = "filter" => task'[x].units = control[p].value
                        /\ (task'[x].stage = "send" /\ p = RangeUnits) => filter = control[p].value
      BY <1>1, ZenonT(40) DEF CopiesAreCurrent
    <2>1. x # w /\ Underway(x, p)
      BY <1>6
    <2>2. QED
      BY <1>5, <2>1, ZenonT(40) DEF ControlsInv, CopiesAreCurrent
  <1>10. id \in overlapped \/ (copy = control[id].value /\ (id = RangeUnits => filter = control[id].value))
    BY <1>1, <1>3, <1>4, <1>6, ZenonT(40) DEF ControlsInv, CopiesAreCurrent
  <1>11. \A p \in ControlIds \ {id} : Unsettled(p)' <=> Unsettled(p)
    BY <1>6, Zenon DEF Unsettled
  <1>12. RangesAreFresh'
    <2>1. RangeUnits \in ControlIds
      BY ControlsAssumption DEF ControlIds
    <2>2. CASE RangeUnits = id
      BY <1>1, <1>10, <2>2 DEF RangesAreFresh
    <2>3. CASE RangeUnits # id
      BY <1>1, <1>11, <2>1, <2>3 DEF ControlsInv, RangesAreFresh
    <2>4. QED
      BY <2>2, <2>3
  <1>13. Good(id, copy)'
    BY <1>1, <1>10, ZenonT(40) DEF Good
  <1>14. \A p \in ControlIds \ {id} : \A v : Good(p, v) => Good(p, v)'
    BY <1>1, <1>11, ZenonT(40) DEF Good
  <1>15. PICK d \in Deltas : d = [path |-> id, value |-> copy]
    BY Zenon DEF Deltas, Paths, Shown
  <1>16. d.path = id /\ d.value = copy /\ Broadcast(d)
    BY <1>1, <1>3, <1>4, <1>15
  <1>17. QED
    BY <1>7, <1>8, <1>9, <1>12, <1>13, <1>14, <1>16, Zenon DEF ControlsInv

\* What the radar's task does with commands, and what the radar does by itself: the
\* values of the controls stay as they are.
LEMMA RadarKeeps ==
  ASSUME ControlsInv, ProcessControlUpdate \/ RejectControlUpdate \/ DeviceChanges
  PROVE  ControlsInv' /\ GoodControlsStay
  <1>1. UNCHANGED <<filter, task, overlapped>>
    BY DEF ProcessControlUpdate, RejectControlUpdate, DeviceChanges
  <1>2. /\ control' \in [ControlIds -> [value : Values \cup {Unset}, needs_refresh : BOOLEAN]]
        /\ \A p \in ControlIds : control'[p].value = control[p].value
        /\ commands' \in Seq([id : Commands, value : Values]) /\ Len(commands') <= MaxCommands
        /\ device' \in [Commands -> Values]
    <2>1. CASE ProcessControlUpdate
      <3>1. /\ commands \in Seq([id : Commands, value : Values]) /\ commands # <<>>
            /\ commands' = Tail(commands)
        BY <2>1 DEF ProcessControlUpdate, ControlsInv, ControlTypes
      <3>2. PICK cv \in [id : Commands, value : Values] : cv = Head(commands)
        <4> DEFINE S == [id : Commands, value : Values]
        <4>1. commands \in Seq(S) /\ commands # <<>>
          BY <3>1
        <4> HIDE DEF S
        <4>2. Head(commands) \in S
          BY <4>1
        <4>3. QED
          BY <4>2, Zenon DEF S
      <3>3. /\ control' = [control EXCEPT ![cv.id].needs_refresh = TRUE]
            /\ device' = [device EXCEPT ![cv.id] = cv.value] \/ device' = device
        BY <2>1, <3>2 DEF ProcessControlUpdate
      <3>4. cv.id \in Commands /\ cv.id \in ControlIds /\ cv.value \in Values
        BY <3>2 DEF ControlIds
      <3>5. commands' \in Seq([id : Commands, value : Values]) /\ Len(commands') <= MaxCommands
        BY <3>1, ControlsAssumption DEF ControlsInv, ControlTypes
      <3>6. QED
        BY <3>3, <3>4, <3>5, Zenon DEF ControlsInv, ControlTypes
    <2>2. CASE RejectControlUpdate
      <3>1. /\ commands \in Seq([id : Commands, value : Values]) /\ commands # <<>>
            /\ commands' = Tail(commands) /\ control' = control /\ device' = device
        BY <2>2 DEF RejectControlUpdate, ControlsInv, ControlTypes
      <3>2. commands' \in Seq([id : Commands, value : Values]) /\ Len(commands') <= MaxCommands
        BY <3>1, ControlsAssumption DEF ControlsInv, ControlTypes
      <3>3. QED
        BY <3>1, <3>2 DEF ControlsInv, ControlTypes
    <2>3. CASE DeviceChanges
      BY <2>3 DEF DeviceChanges, ControlsInv, ControlTypes
    <2>4. QED
      BY <2>1, <2>2, <2>3
  <1>3. RangeUnits \in ControlIds /\ Internals \subseteq ControlIds
    BY ControlsAssumption DEF ControlIds
  <1>4. \A x \in Tasks : \A p : Underway(x, p)' <=> Underway(x, p)
    BY <1>1, ZenonT(40) DEF Underway
  <1>5. \A p : Unsettled(p)' <=> Unsettled(p)
    BY <1>4, Zenon DEF Unsettled
  <1>6. ControlTypes'
    BY <1>1, <1>2, <1>3 DEF ControlsInv, ControlTypes
  <1>7. SoleWriter' /\ CopiesAreCurrent'
    BY <1>1, <1>2, <1>4, ZenonT(40) DEF ControlsInv, SoleWriter, CopiesAreCurrent
  <1>8. RangesAreFresh'
    BY <1>1, <1>2, <1>3, <1>5 DEF ControlsInv, RangesAreFresh
  <1>9. GoodControlsStay
    BY <1>1, <1>2, <1>5, ZenonT(40) DEF GoodControlsStay, Good
  <1>10. QED
    BY <1>6, <1>7, <1>8, <1>9 DEF ControlsInv

\* A client's request: a write, or a command for the radar's task.
LEMMA RequestKeeps ==
  ASSUME ControlsInv, NEW w \in Tasks, NEW id \in ControlIds, NEW value \in Values,
         ProcessClientRequest(w, id, value)
  PROVE  ControlsInv' /\ GoodControlsStay
  <1>1. CASE id \in Internals /\ Set(w, id, value) /\ UNCHANGED <<filter, commands, device>>
    BY <1>1, SetKeeps
  <1>2. CASE /\ id \in Commands /\ Len(commands) < MaxCommands
             /\ commands' = Append(commands, [id |-> id, value |-> value])
             /\ UNCHANGED <<control, filter, task, device, overlapped>>
    <2>1. commands' \in Seq([id : Commands, value : Values]) /\ Len(commands') <= MaxCommands
      <3>1. [id |-> id, value |-> value] \in [id : Commands, value : Values]
        BY <1>2
      <3>2. commands \in Seq([id : Commands, value : Values])
        BY Zenon DEF ControlsInv, ControlTypes
      <3>3. MaxCommands \in Nat
        BY ControlsAssumption, Zenon
      <3>4. QED
        BY <1>2, <3>1, <3>2, <3>3
    <2>2. \A p : Unsettled(p)' <=> Unsettled(p)
      BY <1>2, ZenonT(40) DEF Unsettled, Underway
    <2>3. ControlTypes'
      BY <1>2, <2>1 DEF ControlsInv, ControlTypes
    <2>4. SoleWriter' /\ CopiesAreCurrent'
      <3>1. SoleWriter'
        BY <1>2, ZenonT(40) DEF ControlsInv, SoleWriter, Underway
      <3>2. CopiesAreCurrent'
        BY <1>2, ZenonT(40) DEF ControlsInv, CopiesAreCurrent, Underway
      <3>3. QED
        BY <3>1, <3>2, Zenon
    <2>5. RangesAreFresh' /\ GoodControlsStay
      BY <1>2, <2>2, ZenonT(40) DEF ControlsInv, RangesAreFresh, GoodControlsStay, Good
    <2>6. QED
      BY <2>3, <2>4, <2>5 DEF ControlsInv
  <1>3. QED
    BY <1>1, <1>2 DEF ProcessClientRequest

-------------------------------------------------------------------------------
\* The AIS store.  An update is on the schedule or in the flusher's hands until it
\* has been announced, and a vessel that leaves the map is announced as lost.

GoodVesselsStay == \A p \in Mmsis : \A v : Good(p, v) => Good(p, v)'

\* What Good says of a vessel.
LEMMA GoodVessel ==
  ASSUME NEW p \in Mmsis, NEW v
  PROVE  /\ Good(p, v) <=> IF p \in known
              THEN p \in pending \cup flusher.due \/ vessels[p] = Nothing \/ v = vessels[p]
              ELSE v = Lost
         /\ Good(p, v)' <=> IF p \in known'
              THEN p \in pending' \cup flusher'.due \/ vessels'[p] = Nothing \/ v = vessels'[p]
              ELSE v = Lost
  BY PathsAssumption, ZenonT(40) DEF Good

\* An update of a vessel (AisVesselStore::update): what changed is scheduled.
LEMMA UpdateKeeps ==
  ASSUME AisInv, NEW m \in Mmsis, NEW q \in Positions \cup {Nothing}, UpdateVessel(m, q)
  PROVE  AisInv' /\ GoodVesselsStay
  <1> DEFINE changed == q # Nothing /\ vessels[m] # q
  <1>1. /\ known' = known \cup {m}
        /\ vessels' = IF changed THEN [vessels EXCEPT ![m] = q] ELSE vessels
        /\ pending' = IF changed THEN pending \cup {m} ELSE pending
        /\ UNCHANGED <<flusher, reaper, announced>>
    BY DEF UpdateVessel
  <1>2. \A p \in Mmsis \ {m} : vessels'[p] = vessels[p] /\ (p \in pending' <=> p \in pending)
    BY <1>1 DEF AisInv
  <1>3. \/ m \in pending'
        \/ vessels'[m] = vessels[m] /\ (m \notin known => vessels[m] = Nothing)
    BY <1>1 DEF AisInv
  <1>4. vessels' \in [Mmsis -> Positions \cup {Nothing}] /\ pending' \in SUBSET Mmsis
    BY <1>1 DEF AisInv
  <1>5. pending \subseteq pending'
    BY <1>1
  <1> HIDE DEF changed
  <1>6. UpdatesAreAnnounced'
    BY <1>1, <1>2, <1>3, <1>5 DEF AisInv, UpdatesAreAnnounced
  <1>7. AisInv'
    BY <1>1, <1>2, <1>4, <1>6 DEF AisInv
  <1>8. GoodVesselsStay
    BY <1>1, <1>2, <1>3, <1>5, GoodVessel, ZenonT(40) DEF GoodVesselsStay
  <1>9. QED
    BY <1>7, <1>8

\* Time passes, and the timer tasks find what is due; what the flusher takes off the
\* schedule it has in its hands.
LEMMA TimersKeep ==
  ASSUME AisInv,
         \/ \E m \in Mmsis : VesselAges(m)
         \/ FindDue \/ RemoveDue \/ FindLost
  PROVE  AisInv' /\ GoodVesselsStay
  <1>1. UNCHANGED <<vessels, known, announced>>
    BY DEF VesselAges, FindDue, RemoveDue, FindLost
  <1>2. /\ pending' \in SUBSET Mmsis
        /\ flusher' \in [stage : {"rest", "remove", "read", "announce"}, due : SUBSET Mmsis]
        /\ flusher'.stage = "rest" => flusher'.due = {}
        /\ reaper' \in [stage : {"rest", "found", "mark"}, due : SUBSET Mmsis]
        /\ pending \cup flusher.due = pending' \cup flusher'.due
    <2>1. CASE \E m \in Mmsis : VesselAges(m)
      BY <2>1 DEF VesselAges, AisInv
    <2>2. CASE FindDue
      <3>1. flusher.stage = "rest" /\ UNCHANGED <<pending, reaper>>
        BY <2>2 DEF FindDue
      <3>2. PICK due \in SUBSET pending : flusher' = [stage |-> "remove", due |-> due]
        BY <2>2 DEF FindDue
      <3>3. QED
        BY <3>1, <3>2 DEF AisInv
    <2>3. CASE RemoveDue
      <3>1. /\ flusher.stage = "remove" /\ pending' = pending \ flusher.due
            /\ flusher' = [flusher EXCEPT !.stage = "read"] /\ reaper' = reaper
        BY <2>3 DEF RemoveDue
      <3>2. flusher'.due = flusher.due /\ flusher'.stage = "read"
        BY <3>1 DEF AisInv
      <3>3. QED
        BY <3>1, <3>2 DEF AisInv
    <2>4. CASE FindLost
      BY <2>4 DEF FindLost, AisInv
    <2>5. QED
      BY <2>1, <2>2, <2>3, <2>4, ZenonT(40)
  <1>3. UpdatesAreAnnounced'
    BY <1>1, <1>2 DEF AisInv, UpdatesAreAnnounced
  <1>4. AisInv'
    BY <1>1, <1>2, <1>3 DEF AisInv
  <1>5. GoodVesselsStay
    BY <1>1, <1>2, GoodVessel, ZenonT(40) DEF GoodVesselsStay
  <1>6. QED
    BY <1>4, <1>5

\* What a timer task says of a vessel, and that it may as well say nothing.
SaysOf(m, v) ==
    \/ UNCHANGED channelVars /\ GoodVesselsStay
    \/ \E d \in Deltas :
         /\ Broadcast(d) /\ d.path = m /\ d.value = v /\ Good(d.path, d.value)'
         /\ \A p \in Mmsis \ {m} : \A u : Good(p, u) => Good(p, u)'

\* The flusher announces a vessel of its list as it is now, or passes over one that
\* is no longer there.
LEMMA AnnounceKeeps ==
  ASSUME AisInv, AnnounceDue
  PROVE  AisInv' /\ \E m \in Mmsis : \E v : SaysOf(m, v)
  <1>1. UNCHANGED <<vessels, known, old, pending, reaper>>
    BY DEF AnnounceDue
  <1>2. PICK m \in flusher.due :
          /\ IF m \in known
             THEN /\ Broadcast([path |-> m, value |-> vessels[m]])
                  /\ announced' = [announced EXCEPT ![m] = vessels[m]]
             ELSE UNCHANGED <<announced, channelVars>>
          /\ flusher' = IF flusher.due = {m} THEN Resting
                        ELSE [stage |-> "announce", due |-> flusher.due \ {m}]
    BY Zenon DEF AnnounceDue
  <1>3. m \in Mmsis
    BY DEF AisInv
  <1>4. flusher'.due = flusher.due \ {m}
    BY <1>2 DEF Resting
  <1>5. /\ flusher' \in [stage : {"rest", "remove", "read", "announce"}, due : SUBSET Mmsis]
        /\ flusher'.stage = "rest" => flusher'.due = {}
    BY <1>2, ZenonT(40) DEF AisInv, Resting
  <1>6. \A p \in Mmsis \ {m} : \A v : Good(p, v) => Good(p, v)'
    BY <1>1, <1>4, GoodVessel
  <1>7. CASE m \in known
    <2>1. /\ announced' \in [Mmsis -> Positions \cup {Nothing, Lost}]
          /\ announced'[m] = vessels[m]
          /\ \A p \in Mmsis \ {m} : announced'[p] = announced[p]
      BY <1>2, <1>3, <1>7 DEF AisInv
    <2>2. UpdatesAreAnnounced'
      BY <1>1, <1>4, <2>1, ZenonT(40) DEF AisInv, UpdatesAreAnnounced
    <2>3. AisInv'
      BY <1>1, <1>5, <2>1, <2>2 DEF AisInv
    <2>4. PICK v \in Positions \cup {Nothing} : v = vessels[m]
      BY <1>3 DEF AisInv
    <2>5. Good(m, v)'
      BY <1>1, <1>3, <1>7, <2>4, GoodVessel, ZenonT(40)
    <2>6. PICK d \in Deltas : d = [path |-> m, value |-> v]
      BY <1>3, <2>4, Zenon DEF Deltas, Paths, Shown
    <2>7. d.path = m /\ d.value = v /\ Broadcast(d)
      BY <1>2, <1>7, <2>4, <2>6, ZenonT(40)
    <2>8. SaysOf(m, v)
      BY <1>6, <2>5, <2>7, Zenon DEF SaysOf
    <2>9. QED
      BY <1>3, <2>3, <2>8
  <1>8. CASE m \notin known
    <2>1. UNCHANGED <<announced, channelVars>>
      BY <1>2, <1>8, ZenonT(40)
    <2>2. UpdatesAreAnnounced'
      BY <1>1, <1>4, <1>8, <2>1, ZenonT(40) DEF AisInv, UpdatesAreAnnounced
    <2>3. AisInv'
      BY <1>1, <1>5, <2>1, <2>2 DEF AisInv
    <2>4. \A v : Good(m, v) => Good(m, v)'
      BY <1>1, <1>3, <1>8, GoodVessel, ZenonT(40)
    <2>5. GoodVesselsStay
      BY <1>6, <2>4, Zenon DEF GoodVesselsStay
    <2>6. SaysOf(m, Nothing)
      BY <2>1, <2>5, Zenon DEF SaysOf
    <2>7. QED
      BY <1>3, <2>3, <2>6
  <1>9. QED
    BY <1>7, <1>8

\* A vessel that timed out is announced as lost when it leaves the map, unless it has
\* left it already.
LEMMA LostKeeps ==
  ASSUME AisInv, MarkLost
  PROVE  AisInv' /\ \E m \in Mmsis : \E v : SaysOf(m, v)
  <1>1. UNCHANGED <<pending, flusher>>
    BY ZenonT(40) DEF MarkLost
  <1>2. PICK m \in reaper.due :
          /\ IF m \in known
             THEN /\ Broadcast([path |-> m, value |-> Lost])
                  /\ announced' = [announced EXCEPT ![m] = Lost]
             ELSE UNCHANGED <<announced, channelVars>>
          /\ known' = known \ {m}
          /\ vessels' = [vessels EXCEPT ![m] = Nothing]
          /\ reaper' = IF reaper.due = {m} THEN Resting
                       ELSE [stage |-> "mark", due |-> reaper.due \ {m}]
    BY Zenon DEF MarkLost
  <1>3. m \in Mmsis
    BY DEF AisInv
  <1>4. reaper' \in [stage : {"rest", "found", "mark"}, due : SUBSET Mmsis]
    BY <1>2, ZenonT(40) DEF AisInv, Resting
  <1>5. /\ vessels' \in [Mmsis -> Positions \cup {Nothing}]
        /\ vessels'[m] = Nothing /\ \A p \in Mmsis \ {m} : vessels'[p] = vessels[p]
    BY <1>2, <1>3, ZenonT(40) DEF AisInv
  <1>6. /\ announced' \in [Mmsis -> Positions \cup {Nothing, Lost}]
        /\ \A p \in Mmsis \ {m} : announced'[p] = announced[p]
    BY <1>2, ZenonT(40) DEF AisInv
  <1>7. UpdatesAreAnnounced'
    BY <1>1, <1>2, <1>5, <1>6, ZenonT(40) DEF AisInv, UpdatesAreAnnounced
  <1>8. AisInv'
    BY <1>1, <1>2, <1>4, <1>5, <1>6, <1>7, ZenonT(40) DEF AisInv
  <1>9. \A p \in Mmsis \ {m} : \A v : Good(p, v) => Good(p, v)'
    BY <1>1, <1>2, <1>5, GoodVessel, ZenonT(40)
  <1>10. \A v : Good(m, v)' <=> v = Lost
    BY <1>2, <1>3, GoodVessel, ZenonT(40)
  <1>11. CASE m \in known
    <2>1. PICK d \in Deltas : d = [path |-> m, value |-> Lost]
      BY <1>3, Zenon DEF Deltas, Paths, Shown
    <2>2. d.path = m /\ d.value = Lost /\ Broadcast(d)
      BY <1>2, <1>11, <2>1, Zenon
    <2>3. SaysOf(m, Lost)
      BY <1>9, <1>10, <2>2, Zenon DEF SaysOf
    <2>4. QED
      BY <1>3, <1>8, <2>3
  <1>12. CASE m \notin known
    <2>1. \A v : Good(m, v) => Good(m, v)'
      BY <1>3, <1>10, <1>12, GoodVessel, ZenonT(40)
    <2>2. GoodVesselsStay
      BY <1>9, <2>1, Zenon DEF GoodVesselsStay
    <2>3. SaysOf(m, Nothing)
      BY <1>2, <1>12, <2>2, Zenon DEF SaysOf
    <2>4. QED
      BY <1>3, <1>8, <2>3
  <1>13. QED
    BY <1>11, <1>12

-------------------------------------------------------------------------------
\* The steps of the producers.

\* The vessels are as good as before when a step leaves the store alone.
LEMMA VesselsSame ==
  ASSUME UNCHANGED aisVars
  PROVE  GoodVesselsStay
  BY PathsAssumption, Zenon DEF GoodVesselsStay, Good, aisVars

\* So are the controls when a step leaves them alone.
LEMMA ControlsSame ==
  ASSUME ControlsInv, UNCHANGED controlVars
  PROVE  ControlsInv' /\ GoodControlsStay
  <1>1. UNCHANGED <<control, filter, task, commands, device, overlapped>>
    BY DEF controlVars
  <1>2. \A w \in Tasks : \A id : Underway(w, id)' <=> Underway(w, id)
    BY <1>1 DEF Underway
  <1>3. \A id : Unsettled(id)' <=> Unsettled(id)
    BY <1>2, Zenon DEF Unsettled
  <1>4. GoodControlsStay
    BY <1>1, <1>3, Zenon DEF GoodControlsStay, Good
  <1>5. ControlTypes'
    BY <1>1, Zenon DEF ControlsInv, ControlTypes
  <1>6. SoleWriter' /\ CopiesAreCurrent'
    BY <1>1, <1>2, ZenonT(40) DEF ControlsInv, SoleWriter, CopiesAreCurrent
  <1>7. RangesAreFresh'
    BY <1>1, <1>3, Zenon DEF ControlsInv, RangesAreFresh
  <1>8. QED
    BY <1>4, <1>5, <1>6, <1>7, Zenon DEF ControlsInv

\* A producer's step that sends nothing.
LEMMA QuietStep ==
  ASSUME IInv, UNCHANGED <<channelVars, clientVars>>, ControlsInv', AisInv',
         GoodControlsStay, GoodVesselsStay
  PROVE  IInv'
  <1>1. \A p \in Paths : \A v : Good(p, v) => Good(p, v)'
    BY Zenon DEF GoodControlsStay, GoodVesselsStay, Paths
  <1>2. ClientTypes' /\ ChannelInv'
    BY <1>1, SilentKeeps DEF IInv
  <1>3. SinceIsFollowed' /\ HasAsked'
    BY DEF IInv, clientVars, SinceIsFollowed, HasAsked
  <1>4. QED
    BY <1>2, <1>3 DEF IInv

\* A producer's step that sends a delta.
LEMMA LoudStep ==
  ASSUME IInv, UNCHANGED clientVars, ControlsInv', AisInv', NEW d \in Deltas, Broadcast(d),
         \A p \in ControlIds \ {d.path} : \A v : Good(p, v) => Good(p, v)',
         \A p \in Mmsis \ {d.path} : \A v : Good(p, v) => Good(p, v)',
         Good(d.path, d.value)'
  PROVE  IInv'
  <1>1. \A p \in Paths \ {d.path} : \A v : Good(p, v) => Good(p, v)'
    BY Zenon DEF Paths
  <1>2. ClientTypes' /\ ChannelInv'
    BY <1>1, BroadcastKeeps, Zenon DEF IInv
  <1>3. SinceIsFollowed' /\ HasAsked'
    BY ZenonT(40) DEF IInv, clientVars, SinceIsFollowed, HasAsked
  <1>4. QED
    BY <1>2, <1>3 DEF IInv

\* A step of the controls' writers.
LEMMA ControlStepKeeps ==
  ASSUME IInv, WriteStep \/ ReportStep \/ RadarStep \/ CommandStep
  PROVE  IInv'
  <1>1. UNCHANGED <<aisVars, clientVars>>
    BY ZenonT(40) DEF WriteStep, ReportStep, RadarStep, CommandStep, Elsewhere
  <1>2. AisInv' /\ GoodVesselsStay
    BY <1>1, VesselsSame DEF IInv, AisInv, aisVars, UpdatesAreAnnounced
  <1>3. ASSUME NEW w \in Tasks, ReadUnits(w) \/ FilterRanges(w)
        PROVE  IInv'
    <2>1. ControlsInv' /\ GoodControlsStay
      BY <1>3, RangesKeep, Zenon DEF IInv
    <2>2. UNCHANGED channelVars
      BY <1>3, Zenon DEF ReadUnits, FilterRanges
    <2>3. QED
      BY <1>1, <1>2, <2>1, <2>2, QuietStep
  <1>4. ASSUME NEW w \in Tasks, SendToAllClients(w)
        PROVE  IInv'
    <2>1. ControlsInv'
      BY <1>4, SendKeeps, Zenon DEF IInv
    <2>2. PICK d \in Deltas :
              /\ Broadcast(d) /\ d.path \in ControlIds /\ Good(d.path, d.value)'
              /\ \A p \in ControlIds \ {d.path} : \A v : Good(p, v) => Good(p, v)'
      BY <1>4, SendKeeps, Zenon DEF IInv
    <2>3. \A p \in Mmsis \ {d.path} : \A v : Good(p, v) => Good(p, v)'
      BY <1>2, Zenon DEF GoodVesselsStay
    <2>4. QED
      BY <1>1, <1>2, <2>1, <2>2, <2>3, LoudStep, Zenon
  <1>5. ASSUME NEW id \in Commands, Report(id)
        PROVE  IInv'
    <2>1. PICK v \in Values : v = device[id]
      BY DEF IInv, ControlsInv, ControlTypes
    <2>2. /\ Set("radar", id, v) /\ UNCHANGED <<filter, commands, device>>
          /\ UNCHANGED channelVars
      BY <1>5, <2>1, Zenon DEF Report
    <2>3. "radar" \in Tasks /\ id \in ControlIds
      BY DEF Tasks, ControlIds
    <2>4. ControlsInv' /\ GoodControlsStay
      BY <2>2, <2>3, SetKeeps, Zenon DEF IInv
    <2>5. QED
      BY <1>1, <1>2, <2>2, <2>4, QuietStep
  <1>6. ASSUME ProcessControlUpdate \/ RejectControlUpdate \/ DeviceChanges
        PROVE  IInv'
    <2>1. ControlsInv' /\ GoodControlsStay
      BY <1>6, RadarKeeps DEF IInv
    <2>2. UNCHANGED channelVars
      BY <1>6, Zenon DEF ProcessControlUpdate, RejectControlUpdate, DeviceChanges
    <2>3. QED
      BY <1>1, <1>2, <2>1, <2>2, QuietStep
  <1>7. QED
    BY <1>3, <1>4, <1>5, <1>6, Zenon DEF WriteStep, ReportStep, RadarStep, CommandStep

\* A request to set a control, by REST or on the websocket.
LEMMA RequestStepKeeps ==
  ASSUME IInv, NEW id \in ControlIds, NEW v \in Values, RestSets(id, v) \/ ClientSets(id, v)
  PROVE  IInv'
  <1>1. UNCHANGED <<aisVars, clientVars>>
    BY DEF RestSets, ClientSets, Elsewhere
  <1>2. AisInv' /\ GoodVesselsStay
    BY <1>1, VesselsSame DEF IInv, AisInv, aisVars, UpdatesAreAnnounced
  <1>3. PICK w \in Tasks : ProcessClientRequest(w, id, v)
    BY DEF RestSets, ClientSets, Tasks
  <1>4. UNCHANGED channelVars
    BY <1>3, Zenon DEF ProcessClientRequest
  <1>5. ControlsInv' /\ GoodControlsStay
    BY <1>3, RequestKeeps, Zenon DEF IInv
  <1>6. QED
    BY <1>1, <1>2, <1>4, <1>5, QuietStep

\* A step of the AIS store.
LEMMA AisStepKeeps ==
  ASSUME IInv, AisStep
  PROVE  IInv'
  <1>1. UNCHANGED <<controlVars, clientVars>>
    BY DEF AisStep
  <1>2. ControlsInv' /\ GoodControlsStay
    BY <1>1, ControlsSame DEF IInv
  <1>3. ASSUME NEW m \in Mmsis, NEW q \in Positions \cup {Nothing}, UpdateVessel(m, q)
        PROVE  IInv'
    <2>1. AisInv' /\ GoodVesselsStay
      BY <1>3, UpdateKeeps, Zenon DEF IInv
    <2>2. UNCHANGED channelVars
      BY <1>3, Zenon DEF UpdateVessel
    <2>3. QED
      BY <1>1, <1>2, <2>1, <2>2, QuietStep
  <1>4. ASSUME \/ \E m \in Mmsis : VesselAges(m)
               \/ FindDue \/ RemoveDue \/ FindLost
        PROVE  IInv'
    <2>1. AisInv' /\ GoodVesselsStay
      BY <1>4, TimersKeep DEF IInv
    <2>2. UNCHANGED channelVars
      BY <1>4, Zenon DEF VesselAges, FindDue, RemoveDue, FindLost
    <2>3. QED
      BY <1>1, <1>2, <2>1, <2>2, QuietStep
  <1>5. ASSUME AnnounceDue \/ MarkLost
        PROVE  IInv'
    <2>1. AisInv'
      BY <1>5, AnnounceKeeps, LostKeeps DEF IInv
    <2>2. PICK m \in Mmsis : \E v : SaysOf(m, v)
      BY <1>5, AnnounceKeeps, LostKeeps DEF IInv
    <2>3. PICK v : SaysOf(m, v)
      BY <2>2
    <2>4. CASE UNCHANGED channelVars /\ GoodVesselsStay
      BY <1>1, <1>2, <2>1, <2>4, QuietStep
    <2>5. CASE ~(UNCHANGED channelVars /\ GoodVesselsStay)
      <3>1. PICK d \in Deltas :
              /\ Broadcast(d) /\ d.path = m /\ d.value = v /\ Good(d.path, d.value)'
              /\ \A p \in Mmsis \ {m} : \A u : Good(p, u) => Good(p, u)'
        BY <2>3, <2>5, Zenon DEF SaysOf
      <3>2. \A p \in ControlIds \ {d.path} : \A u : Good(p, u) => Good(p, u)'
        BY <1>2, Zenon DEF GoodControlsStay
      <3>3. QED
        BY <1>1, <1>2, <2>1, <3>1, <3>2, LoudStep, Zenon
    <2>6. QED
      BY <2>4, <2>5
  <1>6. QED
    BY <1>3, <1>4, <1>5, Zenon DEF AisStep

-------------------------------------------------------------------------------
\* The client's subscriptions.

SubsType == [Keys -> [ControlIds -> Subscriptions]]

\* A subscription that is there is a record with all its fields.
LEMMA SubsTyped ==
  ASSUME NEW e \in Subscriptions, e # NoSub
  PROVE  e \in [policy : {"instant", "ideal", "fixed"}, period : BOOLEAN,
                min_period : BOOLEAN, stamped : BOOLEAN]
  BY DEF Subscriptions

\* A set of naturals has a least one.
LEMMA LeastExists ==
  ASSUME NEW S \in SUBSET Nat, S # {}
  PROVE  \E n \in S : \A m \in S : n <= m
  <1> DEFINE R == OpToRel(<, Nat)
  <1>1. IsWellFoundedOn(R, Nat)
    BY NatLessThanWellFounded, Zenon
  <1>2. \A x, y \in Nat : <<x, y>> \in R <=> x < y
    BY DEF OpToRel
  <1> HIDE DEF R
  <1>3. PICK n \in S : \A y \in S : <<y, n>> \notin R
    BY <1>1, WFMin, Zenon
  <1>4. n \in Nat /\ S \subseteq Nat
    OBVIOUS
  <1>5. \A m \in S : ~(m < n)
    BY <1>2, <1>3, <1>4, Zenon
  <1>6. \A m \in S : n <= m
    BY <1>4, <1>5
  <1>7. QED
    BY <1>6

\* A set of positions of a sequence has a last one.
LEMMA LastExists ==
  ASSUME NEW n \in Nat, NEW S \in SUBSET (1 .. n), S # {}
  PROVE  \E i \in S : \A j \in S : j <= i
  <1> DEFINE T == {n - i : i \in S}
  <1>1. T \in SUBSET Nat /\ T # {}
    <2>1. \A i \in S : n - i \in Nat
      OBVIOUS
    <2>2. QED
      BY <2>1, Zenon
  <1> HIDE DEF T
  <1>2. PICK t \in T : \A u \in T : t <= u
    BY <1>1, LeastExists, Zenon
  <1>3. PICK i \in S : t = n - i
    BY <1>2 DEF T
  <1>4. ASSUME NEW j \in S
        PROVE  j <= i
    <2>1. n - j \in T
      BY <1>4 DEF T
    <2>2. QED
      BY <1>2, <1>3, <2>1
  <1>5. QED
    BY <1>4

\* The entries of a request are Entries.
LEMMA EntryTyped ==
  ASSUME NEW q \in Seq(Entries), NEW i \in 1 .. Len(q)
  PROVE  q[i] \in Entries
  OBVIOUS

\* A message leaves subscriptions: the last entry about a control is an entry.
LEMMA SubsAfterTyped ==
  ASSUME ClientTypes, NEW req \in Requests
  PROVE  SubsAfter(req) \in SubsType
  <1>1. req.entries \in Seq(Entries)
    BY RequestsAssumption
  <1>2. ASSUME NEW k \in Keys, NEW id \in ControlIds
        PROVE  SubsAfter(req)[k][id] \in Subscriptions
    <2> DEFINE about == About(req, k, id)
    <2> DEFINE last == CHOOSE i \in about : \A j \in about : j <= i
    <2>1. about \in SUBSET (1 .. Len(req.entries)) /\ Len(req.entries) \in Nat
      BY <1>1 DEF About, Counted
    <2>2. SubsAfter(req)[k][id] =
            IF about = {} THEN subs[k][id]
            ELSE IF req.kind = "desubscribe" THEN NoSub
            ELSE [policy |-> req.entries[last].policy, period |-> req.entries[last].period,
                  min_period |-> req.entries[last].min_period, stamped |-> FALSE]
      BY ZenonT(40) DEF SubsAfter
    <2> HIDE DEF about
    <2>3. about # {} => last \in about
      <3>1. ASSUME about # {}
            PROVE  \E i \in about : \A j \in about : j <= i
        BY <2>1, <3>1, LastExists, Zenon
      <3>2. QED
        BY <3>1, Zenon
    <2>4. about # {} => req.entries[last] \in Entries
      <3> HIDE DEF last
      <3>1. about # {} => last \in 1 .. Len(req.entries)
        BY <2>1, <2>3, Zenon
      <3>2. QED
        BY <1>1, <3>1, EntryTyped, Zenon
    <2> HIDE DEF last
    <2>5. subs[k][id] \in Subscriptions
      BY DEF ClientTypes
    <2>6. about # {} =>
            [policy |-> req.entries[last].policy, period |-> req.entries[last].period,
             min_period |-> req.entries[last].min_period, stamped |-> FALSE] \in Subscriptions
      BY <2>4 DEF Entries, Subscriptions
    <2>7. NoSub \in Subscriptions
      BY DEF Subscriptions
    <2>8. QED
      BY <2>2, <2>5, <2>6, <2>7, Zenon
  <1>3. SubsAfter(req) = [k \in Keys |-> [id \in ControlIds |-> SubsAfter(req)[k][id]]]
    BY ZenonT(40) DEF SubsAfter
  <1>4. QED
    BY <1>2, <1>3, Zenon DEF SubsType

\* Stamping a path that was refused changes nothing but its stamp.
LEMMA StampTyped ==
  ASSUME NEW s \in SubsType, NEW id \in ControlIds, NEW full, NEW answer
  PROVE  /\ Stamp(s, id, full, answer) \in SubsType
         /\ \A k \in Keys, i \in ControlIds :
              /\ Stamp(s, id, full, answer)[k][i] = NoSub <=> s[k][i] = NoSub
              /\ i # id => Stamp(s, id, full, answer)[k][i] = s[k][i]
         /\ answer => Stamp(s, id, full, answer) = s
  <1> DEFINE t == Stamp(s, id, full, answer)
  <1> DEFINE K == EffectiveKey(s, id)
  <1> DEFINE e == Effective(s, id)
  <1>1. K \in Keys /\ e = s[K][id]
    BY DEF EffectiveKey, Effective, Keys
  <1>2. CASE t = s
    BY <1>2
  <1>3. CASE t # s
    <2>1. e # NoSub /\ ~answer /\ t = [s EXCEPT ![K][id].stamped = TRUE]
      BY <1>3 DEF Stamp
    <2> HIDE DEF t, K, e
    <2>2. e \in [policy : {"instant", "ideal", "fixed"}, period : BOOLEAN,
                 min_period : BOOLEAN, stamped : BOOLEAN]
      BY <1>1, <2>1, SubsTyped DEF SubsType
    <2> DEFINE new == [e EXCEPT !.stamped = TRUE]
    <2>3. new \in Subscriptions /\ new # NoSub
      BY <2>2, Zenon DEF Subscriptions, NoSub
    <2>4. t = [s EXCEPT ![K] = [s[K] EXCEPT ![id] = new]]
      BY <1>1, <2>1 DEF SubsType
    <2> HIDE DEF new
    <2>5. t \in SubsType /\ t[K][id] = new
      BY <1>1, <2>3, <2>4 DEF SubsType
    <2>6. \A k \in Keys, i \in ControlIds : k # K \/ i # id => t[k][i] = s[k][i]
      BY <1>1, <2>4 DEF SubsType
    <2>7. \A k \in Keys, i \in ControlIds : t[k][i] = NoSub <=> s[k][i] = NoSub
      <3> SUFFICES ASSUME NEW k \in Keys, NEW i \in ControlIds
                   PROVE  t[k][i] = NoSub <=> s[k][i] = NoSub
        BY Zenon
      <3>1. CASE k = K /\ i = id
        BY <1>1, <2>1, <2>3, <2>5, <3>1, Zenon
      <3>2. CASE k # K \/ i # id
        BY <2>6, <3>2
      <3>3. QED
        BY <3>1, <3>2
    <2>8. QED
      BY <2>1, <2>5, <2>6, <2>7 DEF t
  <1>4. QED
    BY <1>2, <1>3

\* A control without a subscription is refused.
LEMMA AnswersNeed ==
  ASSUME NEW s \in SubsType, NEW id \in ControlIds, NEW full
  PROVE  /\ TRUE \in Answers(s, id, full) => \E k \in Keys : s[k][id] # NoSub
         /\ Answers(s, id, full) \subseteq BOOLEAN
  <1>1. Effective(s, id) # NoSub => \E k \in Keys : s[k][id] # NoSub
    BY DEF Effective, Keys
  <1>2. QED
    BY <1>1, Zenon DEF Answers

\* What a client follows: in mode "all" everything; in mode "some" the controls of
\* which every change passes, and the vessels together.
LEMMA FollowedMeans ==
  ASSUME NEW m, NEW s, NEW f
  PROVE  /\ \A id \in ControlIds : id \in Followed(m, s, f) <=>
                m = "all" \/ (m = "some" /\ Answers(s, id, FALSE) = {TRUE})
         /\ \A v \in Mmsis : v \in Followed(m, s, f) <=> m = "all" \/ (m = "some" /\ f)
         /\ Followed(m, s, f) \subseteq Paths
  BY PathsAssumption, Zenon DEF Followed, Instant, Paths

\* What the client has asked for covers what it is subscribed to, after a message as
\* before it.
LEMMA AskedKept ==
  ASSUME ClientTypes, HasAsked, NEW req \in Requests
  PROVE  /\ \A k \in Keys, id \in ControlIds :
                SubsAfter(req)[k][id] # NoSub => <<k, id>> \in AskedAfter(req)
         /\ FleetAfter(req) => \A m \in Mmsis : <<"*", m>> \in AskedAfter(req)
  <1> DEFINE EntryPairs(i) == LET e == req.entries[i]
                        IN IF e.on = "vessels" THEN {"*"} \X Mmsis
                           ELSE {e.key} \X e.matches
             pairs == UNION {EntryPairs(i) : i \in Counted(req)}
             before == {pair \in asked : pair[1] \in Keys}
  <1>1. AskedAfter(req) = IF req.kind = "subscribe" THEN before \cup pairs ELSE before \ pairs
    BY Zenon DEF AskedAfter
  <1>2. req.entries \in Seq(Entries) /\ req.kind \in {"subscribe", "desubscribe"}
    BY RequestsAssumption
  <1>3. \A i \in Counted(req) :
          /\ req.entries[i] \in Entries
          /\ req.entries[i].on \in {"controls", "vessels"}
          /\ req.entries[i].matches \in SUBSET ControlIds
    <2>1. \A i \in Counted(req) : i \in DOMAIN req.entries /\ req.entries[i].on # "unknown"
      BY <1>2 DEF Counted
    <2>2. \A i \in DOMAIN req.entries : req.entries[i] \in Entries
      BY <1>2
    <2>3. QED
      BY <2>1, <2>2 DEF Entries
  <1>4. ASSUME NEW k \in Keys, NEW id \in ControlIds
        PROVE  <<k, id>> \in pairs <=> About(req, k, id) # {}
    <2>1. <<k, id>> \in pairs <=> \E i \in Counted(req) : <<k, id>> \in EntryPairs(i)
      BY Zenon
    <2>2. id \notin Mmsis
      BY PathsAssumption
    <2>3. \A i \in Counted(req) : <<k, id>> \in EntryPairs(i) <=> i \in About(req, k, id)
      BY <1>3, <2>2 DEF About
    <2>4. About(req, k, id) \subseteq Counted(req)
      BY DEF About
    <2> HIDE DEF EntryPairs, pairs
    <2>5. QED
      BY <2>1, <2>3, <2>4
  <1>5. ASSUME NEW m \in Mmsis
        PROVE  <<"*", m>> \in pairs <=> AboutVessels(req) # {}
    <2>1. <<"*", m>> \in pairs <=> \E i \in Counted(req) : <<"*", m>> \in EntryPairs(i)
      BY Zenon
    <2>2. m \notin ControlIds
      BY PathsAssumption
    <2>3. \A i \in Counted(req) : <<"*", m>> \in EntryPairs(i) <=> i \in AboutVessels(req)
      BY <1>3, <2>2 DEF AboutVessels
    <2>4. AboutVessels(req) \subseteq Counted(req)
      BY DEF AboutVessels
    <2> HIDE DEF EntryPairs, pairs
    <2>5. QED
      BY <2>1, <2>3, <2>4
  <1> HIDE DEF EntryPairs, pairs
  <1>6. ASSUME NEW k \in Keys, NEW id \in ControlIds, SubsAfter(req)[k][id] # NoSub
        PROVE  <<k, id>> \in AskedAfter(req)
    <2>1. CASE About(req, k, id) = {}
      <3>1. subs[k][id] # NoSub
        BY <1>6, <2>1, ZenonT(40) DEF SubsAfter
      <3>2. <<k, id>> \in before
        BY <3>1 DEF HasAsked
      <3>3. <<k, id>> \notin pairs
        BY <1>4, <2>1
      <3>4. QED
        BY <1>1, <3>2, <3>3
    <2>2. CASE About(req, k, id) # {}
      <3>1. req.kind # "desubscribe"
        BY <1>6, <2>2, ZenonT(40) DEF SubsAfter
      <3>2. QED
        BY <1>1, <1>2, <1>4, <2>2, <3>1, ZenonT(40)
    <2>3. QED
      BY <2>1, <2>2
  <1>7. ASSUME NEW m \in Mmsis, FleetAfter(req)
        PROVE  <<"*", m>> \in AskedAfter(req)
    <2>1. CASE AboutVessels(req) = {}
      <3>1. <<"*", m>> \in before
        BY <1>7, <2>1 DEF FleetAfter, HasAsked, Keys
      <3>2. QED
        BY <1>1, <1>5, <2>1, <3>1
    <2>2. CASE AboutVessels(req) # {}
      BY <1>1, <1>5, <1>7, <2>2 DEF FleetAfter
    <2>3. QED
      BY <2>1, <2>2
  <1>8. QED
    BY <1>6, <1>7

-------------------------------------------------------------------------------
\* The client's steps.

ClientInv == ClientTypes /\ SinceIsFollowed /\ HasAsked /\ ChannelInv

\* What this step shows the client it has asked for.
AskedStep ==
    \A p \in Paths :
        (view'[p] # view[p] /\ stage' = "streaming") => \E pair \in asked' : pair[2] = p

\* A step of the client changes nothing of what it may show.
LEMMA GoodSame ==
  ASSUME ClientUnchanged
  PROVE  \A p \in Paths : \A v : Good(p, v)' <=> Good(p, v)
  BY ZenonT(40) DEF ClientUnchanged, controlVars, aisVars, Good, Unsettled, Underway

\* What the stream sends of its own accord is good, and is what a delta may say.
LEMMA CurrentIsGood ==
  ASSUME ControlsInv, AisInv, NEW p \in ControlIds \cup known
  PROVE  Good(p, Current(p)) /\ Current(p) \in Shown /\ p \in Paths
  <1>1. CASE p \in ControlIds
    <2>1. control[p].value \in Values \cup {Unset}
      BY <1>1 DEF ControlsInv, ControlTypes
    <2>2. QED
      BY <1>1, <2>1, ZenonT(40) DEF Good, Current, Shown, Paths
  <1>2. CASE p \notin ControlIds
    <2>1. p \in known /\ p \in Mmsis /\ vessels[p] \in Positions \cup {Nothing}
      BY <1>2 DEF AisInv
    <2>2. QED
      BY <1>2, <2>1 DEF Good, Current, Shown, Paths
  <1>3. QED
    BY <1>1, <1>2

\* The client shows the current state of paths it follows, and the channel is as it was.
LEMMA ShowKeeps ==
  ASSUME ControlsInv, AisInv, ClientInv, ClientUnchanged, UNCHANGED channelVars,
         NEW sent \in SUBSET (ControlIds \cup known), ShowCurrent(sent),
         since' \subseteq since \cup sent
  PROVE  view' \in [Paths -> Shown \cup {Unseen}] /\ ChannelInv'
  <1>1. sent \subseteq Paths /\ since \subseteq Paths
    BY FollowedMeans, Zenon DEF ClientInv, SinceIsFollowed, AisInv, Paths
  <1>2. view \in [Paths -> Shown \cup {Unseen}]
    BY DEF ClientInv, ClientTypes
  <1>3. \A p \in sent : Current(p) \in Shown /\ Good(p, Current(p))
    BY CurrentIsGood, Zenon
  <1>4. /\ \A p \in sent : view'[p] = Current(p)
        /\ \A p \in Paths \ sent : view'[p] = view[p]
        /\ view' \in [Paths -> Shown \cup {Unseen}]
    BY <1>1, <1>2, <1>3 DEF ShowCurrent
  <1>5. channel' = channel /\ missed' = missed
    BY DEF channelVars
  <1>6. LatestIsGood'
    <2> SUFFICES ASSUME NEW i \in DOMAIN channel, Latest(i)
                 PROVE  Good(channel[i].path, channel[i].value)'
      BY <1>5 DEF LatestIsGood, Latest
    <2>1. PICK p \in Paths, v \in Shown : p = channel[i].path /\ v = channel[i].value
      BY ChannelTyped DEF ClientInv
    <2>2. Good(p, v)'
      BY <2>1, GoodSame DEF ClientInv, ChannelInv, LatestIsGood
    <2>3. QED
      BY <1>5, <2>1, <2>2, ZenonT(40) DEF Good
  <1>7. SeenIsGood'
    <2> SUFFICES ASSUME NEW p \in since', p \notin missed, ~InChannel(p)
                 PROVE  Good(p, view[p])'
      BY <1>5, ZenonT(40) DEF SeenIsGood, InChannel
    <2>1. p \in Paths /\ (p \in since \/ p \in sent)
      BY <1>1
    <2>2. PICK v : v = view'[p]
      BY Zenon
    <2>3. Good(p, v)
      <3>1. CASE p \in sent
        BY <1>3, <1>4, <2>2, <3>1, ZenonT(40)
      <3>2. CASE p \notin sent
        BY <1>4, <2>1, <2>2, <3>2 DEF ClientInv, ChannelInv, SeenIsGood
      <3>3. QED
        BY <3>1, <3>2
    <2>4. Good(p, v)'
      BY <2>1, <2>3, GoodSame
    <2>5. QED
      BY <2>2, <2>4, ZenonT(40) DEF Good
  <1>8. MissedIsGone'
    BY <1>5 DEF ClientInv, ChannelInv, MissedIsGone, InChannel
  <1>9. QED
    BY <1>4, <1>6, <1>7, <1>8 DEF ChannelInv

\* A client joins with nothing on the channel and nothing seen.
LEMMA JoinKeeps ==
  ASSUME ClientInv, NEW m \in {"none", "all"}, Join(m)
  PROVE  ClientInv' /\ AskedStep
  <1>1. /\ stage = "away" /\ mode = "none" /\ channel = <<>> /\ missed = {} /\ since = {}
        /\ subs = NoSubs /\ ~fleet
        /\ UNCHANGED <<channel, missed, subs, fleet, view, since>>
        /\ stage' = "joined" /\ joined' = TRUE /\ mode' = m
        /\ asked' = IF m = "all" THEN {"all"} \X Paths ELSE {}
    BY DEF ClientInv, ClientTypes, Join
  <1>2. ClientTypes'
    BY <1>1, Zenon DEF ClientInv, ClientTypes
  <1>3. HasAsked'
    BY <1>1 DEF HasAsked, NoSubs
  <1>4. SinceIsFollowed'
    BY <1>1 DEF SinceIsFollowed
  <1>5. ChannelInv'
    <2>1. channel' = <<>> /\ missed' = {} /\ since' = {}
      BY <1>1, Zenon
    <2>2. LatestIsGood'
      BY <2>1 DEF LatestIsGood
    <2>3. SeenIsGood' /\ MissedIsGone'
      BY <2>1 DEF SeenIsGood, MissedIsGone
    <2>4. QED
      BY <2>2, <2>3, Zenon DEF ChannelInv
  <1>6. QED
    BY <1>1, <1>2, <1>3, <1>4, <1>5 DEF ClientInv, AskedStep

\* Its first message shows it the controls if it asked for all.
LEMMA SnapshotKeeps ==
  ASSUME ControlsInv, AisInv, ClientInv, NEW cached \in BOOLEAN, Snapshot(cached)
  PROVE  ClientInv' /\ AskedStep
  <1>1. PICK sent \in SUBSET ControlIds :
          /\ sent # {} => mode = "all"
          /\ ShowCurrent(sent) /\ since' = sent
    <2> DEFINE s == IF cached /\ mode = "all" /\ active THEN ControlIds ELSE {}
    <2>1. s \in SUBSET ControlIds /\ (s # {} => mode = "all")
      OBVIOUS
    <2>2. ShowCurrent(s) /\ since' = s
      BY Zenon DEF Snapshot
    <2>3. QED
      BY <2>1, <2>2, Zenon
  <1>2. /\ ClientUnchanged /\ UNCHANGED <<channelVars, mode, subs, fleet, asked>>
        /\ stage = "joined" /\ stage' = "streaming"
    BY DEF Snapshot
  <1>3. view' \in [Paths -> Shown \cup {Unseen}] /\ ChannelInv'
    BY <1>1, <1>2, ShowKeeps
  <1>4. ClientTypes'
    BY <1>2, <1>3 DEF ClientInv, ClientTypes, channelVars
  <1>5. SinceIsFollowed'
    BY <1>1, <1>2, FollowedMeans, Zenon DEF SinceIsFollowed
  <1>6. HasAsked'
    BY <1>2 DEF ClientInv, HasAsked
  <1>7. AskedStep
    <2> SUFFICES ASSUME NEW p \in Paths, view'[p] # view[p]
                 PROVE  \E pair \in asked' : pair[2] = p
      BY DEF AskedStep
    <2>1. p \in sent
      BY <1>1 DEF ShowCurrent
    <2>2. <<"all", p>> \in asked'
      BY <1>1, <1>2, <2>1 DEF ClientInv, HasAsked
    <2>3. QED
      BY <2>2
  <1>8. QED
    BY <1>3, <1>4, <1>5, <1>6, <1>7 DEF ClientInv

\* A control that is followed is never refused.
LEMMA FollowedPasses ==
  ASSUME NEW s, NEW f, NEW id \in ControlIds, id \in Followed("some", s, f),
         NEW answer \in Answers(s, id, FALSE)
  PROVE  answer
  <1>1. "some" # "all"
    OBVIOUS
  <1>2. id \in {i \in ControlIds : Instant("some", s, i)}
    BY PathsAssumption, Zenon DEF Followed
  <1>3. Instant("some", s, id)
    BY <1>2, Zenon
  <1> DEFINE A == Answers(s, id, FALSE)
  <1>4. A = {TRUE}
    <2> HIDE DEF A
    <2>1. "some" = "all" \/ A = {TRUE}
      BY <1>3, Zenon DEF Instant, A
    <2>2. QED
      BY <1>1, <2>1, Zenon
  <1>5. answer \in A
    BY Zenon
  <1> HIDE DEF A
  <1>6. QED
    BY <1>4, <1>5

SameSubs(s, t) ==
    \A k \in Keys, id \in ControlIds : t[k][id] = NoSub <=> s[k][id] = NoSub

\* Stamping leaves the controls subscribed to as they are.
LEMMA StampKeeps ==
  ASSUME NEW s \in SubsType, NEW p \in ControlIds, NEW no, NEW answer,
         NEW t, t = Stamp(s, p, no, answer)
  PROVE  t \in SubsType /\ SameSubs(s, t)
  BY StampTyped DEF SameSubs

\* Neither that control nor another is less followed after a refusal.
LEMMA StampFollows ==
  ASSUME NEW s \in SubsType, NEW f, NEW p \in ControlIds, NEW no,
         NEW answer \in Answers(s, p, FALSE)
  PROVE  Followed("some", s, f) \subseteq Followed("some", Stamp(s, p, no, answer), f)
  <1> DEFINE t == Stamp(s, p, no, answer)
  <1>1. /\ t \in SubsType
        /\ \A k \in Keys, i \in ControlIds : i # p => t[k][i] = s[k][i]
        /\ answer => t = s
    BY StampTyped
  <1> HIDE DEF t
  <1> SUFFICES ASSUME NEW id \in Followed("some", s, f)
               PROVE  id \in Followed("some", t, f)
    BY Zenon DEF t
  <1>2. CASE id = p
    <2>1. answer
      BY <1>2, FollowedPasses, Zenon
    <2>2. QED
      BY <1>1, <2>1, Zenon
  <1>3. CASE id # p /\ id \in ControlIds
    <2>1. \A k \in Keys : s[k][id] = t[k][id]
      BY <1>1, <1>3, Zenon
    <2>2. Effective(s, id) = Effective(t, id)
      BY <2>1, Zenon DEF Effective, Keys
    <2>3. Answers(s, id, FALSE) = Answers(t, id, FALSE)
      BY <2>2, Zenon DEF Answers
    <2>4. QED
      BY <1>3, <2>3, FollowedMeans, Zenon
  <1>4. CASE id \notin ControlIds
    <2>1. id \in Mmsis
      BY <1>4, FollowedMeans, Zenon DEF Paths
    <2>2. QED
      BY <2>1, FollowedMeans, Zenon
  <1>5. QED
    BY <1>2, <1>3, <1>4, Zenon

\* A delta that passes was asked for, and every delta of a path that is followed passes.
LEMMA PassesMeans ==
  ASSUME ClientTypes, HasAsked, NEW p \in Paths, NEW answer \in Passes(p)
  PROVE  /\ answer \in BOOLEAN
         /\ answer => \E pair \in asked : pair[2] = p
         /\ p \in Followed(mode, subs, fleet) => answer
         /\ mode = "some" /\ p \in ControlIds => answer \in Answers(subs, p, FALSE)
  <1>1. subs \in SubsType /\ fleet \in BOOLEAN /\ mode \in {"none", "some", "all"}
    BY DEF ClientTypes, SubsType
  <1>2. CASE mode = "some" /\ p \in ControlIds
    <2>1. answer \in Answers(subs, p, FALSE)
      BY <1>2, PathsAssumption, Zenon DEF Passes
    <2>2. answer \in BOOLEAN
      BY <1>1, <1>2, <2>1, AnswersNeed, Zenon
    <2>3. ASSUME answer PROVE \E pair \in asked : pair[2] = p
      <3>1. answer = TRUE
        BY <2>2, <2>3, Zenon
      <3>2. TRUE \in Answers(subs, p, FALSE)
        BY <2>1, <3>1, Zenon
      <3>3. PICK k \in Keys : subs[k][p] # NoSub
        BY <1>1, <1>2, <3>2, AnswersNeed, Zenon
      <3>4. <<k, p>> \in asked
        BY <1>2, <3>3 DEF HasAsked
      <3>5. QED
        BY <3>4
    <2>4. p \in Followed(mode, subs, fleet) => answer
      BY <1>2, <2>1, FollowedPasses, Zenon
    <2>5. QED
      BY <2>1, <2>2, <2>3, <2>4, Zenon
  <1>3. CASE ~(mode = "some" /\ p \in ControlIds)
    <2>1. Passes(p) = {mode = "all" \/ (mode = "some" /\ fleet)}
      BY <1>1, <1>3, Zenon DEF Passes, Paths
    <2>2. answer \in BOOLEAN /\ (answer <=> mode = "all" \/ (mode = "some" /\ fleet))
      BY <2>1, Zenon
    <2>3. mode = "some" => p \in Mmsis
      BY <1>3 DEF Paths
    <2>4. ASSUME answer PROVE \E pair \in asked : pair[2] = p
      <3>1. CASE mode = "all"
        <4>1. <<"all", p>> \in asked
          BY <3>1 DEF HasAsked
        <4>2. QED
          BY <4>1
      <3>2. CASE mode = "some" /\ fleet
        <4>1. <<"*", p>> \in asked
          BY <2>3, <3>2 DEF HasAsked
        <4>2. QED
          BY <4>1
      <3>3. QED
        BY <2>2, <2>4, <3>1, <3>2, Zenon
    <2>5. p \in Followed(mode, subs, fleet) => answer
      BY <1>1, <2>2, <2>3, FollowedMeans, Zenon DEF Paths
    <2>6. QED
      BY <1>3, <2>2, <2>4, <2>5, Zenon
  <1>4. QED
    BY <1>2, <1>3, Zenon

\* The client reads the first delta of the channel.
LEMMA DeliverKeeps ==
  ASSUME ClientInv, ClientUnchanged, channel # <<>>, channel' = Tail(channel),
         UNCHANGED missed, NEW answer \in BOOLEAN,
         Head(channel).path \in since => answer,
         view' = IF answer THEN [view EXCEPT ![Head(channel).path] = Head(channel).value]
                 ELSE view,
         \A q \in since' : q \in since \/ (answer /\ q = Head(channel).path)
  PROVE  /\ channel' \in Seq(Deltas) /\ Len(channel') <= ChannelCapacity
         /\ view' \in [Paths -> Shown \cup {Unseen}]
         /\ ChannelInv'
  <1>1. channel \in Seq(Deltas) /\ Len(channel) <= ChannelCapacity
    BY SMTT(30) DEF ClientInv, ClientTypes, Deltas
  <1>2. /\ channel' \in Seq(Deltas) /\ Len(channel') = Len(channel) - 1 /\ Len(channel) > 0
        /\ DOMAIN channel = 1 .. Len(channel) /\ DOMAIN channel' = 1 .. Len(channel')
        /\ Len(channel) \in Nat /\ Len(channel') \in Nat
        /\ Head(channel) = channel[1] /\ 1 \in DOMAIN channel
        /\ \A i \in DOMAIN channel' : i + 1 \in DOMAIN channel /\ channel'[i] = channel[i + 1]
        /\ \A i \in DOMAIN channel : i # 1 =>
              i - 1 \in DOMAIN channel' /\ channel'[i - 1] = channel[i]
    BY <1>1, SMTT(30)
  <1>3. Len(channel') <= ChannelCapacity
    BY <1>1, <1>2, CapacityAssumption
  <1>4. PICK p \in Paths, v \in Shown : p = channel[1].path /\ v = channel[1].value
    BY <1>2, ChannelTyped, SMTT(30) DEF ClientInv
  <1>5. /\ p = Head(channel).path /\ v = Head(channel).value
    BY <1>2, <1>4
  <1>6. view \in [Paths -> Shown \cup {Unseen}]
    BY SMTT(30) DEF ClientInv, ClientTypes
  <1>7. /\ view' \in [Paths -> Shown \cup {Unseen}]
        /\ answer => view'[p] = v
        /\ \A q \in Paths \ {p} : view'[q] = view[q]
    BY <1>4, <1>5, <1>6
  <1>8. \A i \in DOMAIN channel' : Latest(i)' => Latest(i + 1)
    <2> SUFFICES ASSUME NEW i \in DOMAIN channel', Latest(i)', NEW j \in DOMAIN channel, j > i + 1
                 PROVE  channel[j].path # channel[i + 1].path
      BY ZenonT(40) DEF Latest
    <2>1. j # 1 /\ j - 1 > i
      BY <1>2, SMTT(30)
    <2>2. channel'[j - 1].path # channel'[i].path
      BY <1>2, <2>1, ZenonT(40) DEF Latest
    <2>3. QED
      BY <1>2, <2>1, <2>2, SMTT(30)
  <1>9. LatestIsGood'
    <2> SUFFICES ASSUME NEW i \in DOMAIN channel', Latest(i)'
                 PROVE  Good(channel[i].path, channel[i].value)'
      BY Zenon DEF LatestIsGood
    <2>1. i + 1 \in DOMAIN channel /\ channel'[i] = channel[i + 1] /\ Latest(i + 1)
      BY <1>2, <1>8, ZenonT(40)
    <2>2. PICK q \in Paths, w \in Shown : q = channel[i + 1].path /\ w = channel[i + 1].value
      BY <2>1, ChannelTyped, ZenonT(40) DEF ClientInv
    <2>3. Good(q, w)
      BY <2>1, <2>2, Zenon DEF ClientInv, ChannelInv, LatestIsGood
    <2>4. Good(q, w)'
      BY <2>2, <2>3, GoodSame, ZenonT(40)
    <2>5. QED
      BY <2>1, <2>2, <2>4, ZenonT(40) DEF Good
  <1>10. SeenIsGood'
    <2> SUFFICES ASSUME NEW q \in since', q \notin missed, ~InChannel(q)'
                 PROVE  Good(q, view[q])'
      BY ZenonT(40) DEF SeenIsGood
    <2>1. since \subseteq Paths
      BY FollowedMeans, Zenon DEF ClientInv, SinceIsFollowed
    <2>2. CASE q = p
      <3>1. view'[p] = v
        BY <1>5, <1>7, <2>2, ZenonT(40)
      <3>2. Latest(1)
        <4> SUFFICES ASSUME NEW j \in DOMAIN channel, j > 1
                     PROVE  channel[j].path # channel[1].path
          BY DEF Latest
        <4>1. j - 1 \in DOMAIN channel' /\ channel'[j - 1] = channel[j]
          BY <1>2, SMTT(30)
        <4>2. QED
          BY <1>4, <2>2, <4>1 DEF InChannel
      <3>3. Good(p, v)
        BY <1>2, <1>4, <3>2, SMTT(30) DEF ClientInv, ChannelInv, LatestIsGood
      <3>4. Good(p, v)'
        BY <3>3, GoodSame, ZenonT(40)
      <3>5. QED
        BY <2>2, <3>1, <3>4, ZenonT(40) DEF Good
    <2>3. CASE q # p
      <3>1. q \in since /\ q \in Paths /\ view'[q] = view[q]
        BY <1>5, <1>7, <2>1, <2>3, ZenonT(40)
      <3>2. ~InChannel(q)
        BY <1>2, <1>4, <2>3, ZenonT(40) DEF InChannel
      <3>3. PICK w : w = view[q]
        BY Zenon
      <3>4. Good(q, w)
        BY <3>1, <3>2, <3>3, ZenonT(40) DEF ClientInv, ChannelInv, SeenIsGood
      <3>5. Good(q, w)'
        BY <3>1, <3>4, GoodSame, ZenonT(40)
      <3>6. QED
        BY <3>1, <3>3, <3>5, ZenonT(40) DEF Good
    <2>4. QED
      BY <2>2, <2>3, ZenonT(40)
  <1>11. MissedIsGone'
    BY <1>2 DEF ClientInv, ChannelInv, MissedIsGone, InChannel
  <1>12. QED
    BY <1>2, <1>3, <1>7, <1>9, <1>10, <1>11, ZenonT(40) DEF ChannelInv

\* The websocket task reads from its channel, or is told that it lagged.
LEMMA ReceiveKeeps ==
  ASSUME ClientInv, Receive
  PROVE  ClientInv' /\ AskedStep
  <1>1. /\ ClientUnchanged /\ UNCHANGED <<joined, missed, stage, mode, fleet, asked>>
        /\ stage = "streaming"
    BY ZenonT(40) DEF Receive, ClientReady
  <1>2. CASE lagged' = FALSE /\ UNCHANGED <<channel, subs, meta_sent, view, since, awaiting>>
    <2>1. \A p \in Paths : \A v : Good(p, v)' <=> Good(p, v)
      BY <1>1, GoodSame
    <2>4. ClientTypes' /\ SinceIsFollowed' /\ HasAsked' /\ AskedStep
      BY <1>1, <1>2, SMTT(30) DEF ClientInv, ClientTypes, SinceIsFollowed, HasAsked, AskedStep
    <2>5. LatestIsGood'
      <3> SUFFICES ASSUME NEW i \in DOMAIN channel, Latest(i)
                   PROVE  Good(channel[i].path, channel[i].value)'
        BY <1>2 DEF LatestIsGood, Latest
      <3>1. PICK p \in Paths, v \in Shown : p = channel[i].path /\ v = channel[i].value
        BY ChannelTyped DEF ClientInv
      <3>2. Good(p, v)'
        BY <2>1, <3>1 DEF ClientInv, ChannelInv, LatestIsGood
      <3>3. QED
        BY <1>2, <3>1, <3>2, ZenonT(40) DEF Good
    <2>6. SeenIsGood'
      <3> SUFFICES ASSUME NEW p \in since, p \notin missed, ~InChannel(p)
                   PROVE  Good(p, view[p])'
        BY <1>1, <1>2, ZenonT(40) DEF SeenIsGood, InChannel
      <3>1. p \in Paths
        BY FollowedMeans, Zenon DEF ClientInv, SinceIsFollowed
      <3>2. PICK v : v = view[p]
        BY Zenon
      <3>3. Good(p, v)'
        BY <2>1, <3>1, <3>2 DEF ClientInv, ChannelInv, SeenIsGood
      <3>4. QED
        BY <1>2, <3>2, <3>3, ZenonT(40) DEF Good
    <2>7. MissedIsGone'
      BY <1>1, <1>2 DEF ClientInv, ChannelInv, MissedIsGone, InChannel
    <2>8. QED
      BY <2>4, <2>5, <2>6, <2>7 DEF ClientInv, ChannelInv
  <1>3. CASE /\ channel # <<>> /\ channel' = Tail(channel)
             /\ LET p == Head(channel).path
                IN \E answer \in Passes(p) :
                   /\ subs' = IF mode = "some" /\ p \in ControlIds
                              THEN Stamp(subs, p, FALSE, answer) ELSE subs
                   /\ view' = IF answer THEN [view EXCEPT ![p] = Head(channel).value] ELSE view
                   /\ since' = IF answer THEN since \cup ({p} \cap Followed(mode, subs, fleet))
                               ELSE since
    <2>1. Head(channel) = channel[1] /\ 1 \in DOMAIN channel
      BY <1>3 DEF ClientInv, ClientTypes
    <2>2. PICK p \in Paths : p = Head(channel).path
      BY <2>1, ChannelTyped DEF ClientInv
    <2>3. PICK answer \in Passes(p) :
                   /\ subs' = IF mode = "some" /\ p \in ControlIds
                              THEN Stamp(subs, p, FALSE, answer) ELSE subs
                   /\ view' = IF answer THEN [view EXCEPT ![p] = Head(channel).value] ELSE view
                   /\ since' = IF answer THEN since \cup ({p} \cap Followed(mode, subs, fleet))
                               ELSE since
      BY <1>3, <2>2, Zenon
    <2>4. /\ answer \in BOOLEAN
          /\ answer => \E pair \in asked : pair[2] = p
          /\ p \in Followed(mode, subs, fleet) => answer
          /\ mode = "some" /\ p \in ControlIds => answer \in Answers(subs, p, FALSE)
      BY PassesMeans, Zenon DEF ClientInv
    <2>5. subs \in SubsType
      BY DEF ClientInv, ClientTypes, SubsType
    <2>6. /\ subs' \in SubsType /\ (mode # "some" => subs' = subs)
          /\ \A k \in Keys, id \in ControlIds : subs'[k][id] = NoSub <=> subs[k][id] = NoSub
      <3>1. CASE mode = "some" /\ p \in ControlIds
        <4>1. subs' = Stamp(subs, p, FALSE, answer)
          BY <2>3, <3>1, Zenon
        <4>2. subs' \in SubsType
          BY <2>5, <3>1, <4>1, StampKeeps, Zenon
        <4>3. SameSubs(subs, subs')
          BY <2>5, <3>1, <4>1, StampKeeps, Zenon
        <4>4. QED
          BY <3>1, <4>2, <4>3, Zenon DEF SameSubs
      <3>2. CASE ~(mode = "some" /\ p \in ControlIds)
        BY <2>3, <2>5, <3>2, Zenon
      <3>3. QED
        BY <3>1, <3>2, Zenon
    <2>7. Followed(mode, subs, fleet) \subseteq Followed(mode', subs', fleet')
      <3>1. CASE mode = "some" /\ p \in ControlIds
        <4>1. Followed("some", subs, fleet)
                \subseteq Followed("some", Stamp(subs, p, FALSE, answer), fleet)
          BY <2>4, <2>5, <3>1, StampFollows, Zenon
        <4>2. QED
          BY <1>1, <2>3, <3>1, <4>1, Zenon
      <3>2. CASE ~(mode = "some" /\ p \in ControlIds)
        BY <1>1, <2>3, <3>2, Zenon
      <3>3. QED
        BY <3>1, <3>2, Zenon
    <2>8. /\ since \subseteq Followed(mode, subs, fleet)
          /\ \A q \in since' : q \in Followed(mode, subs, fleet)
          /\ \A q \in since' : q \in since \/ (answer /\ q = p)
      BY <2>3, <2>4, Zenon DEF ClientInv, SinceIsFollowed
    <2>9. SinceIsFollowed'
      BY <2>7, <2>8, Zenon DEF SinceIsFollowed
    <2>10. /\ channel' \in Seq(Deltas) /\ Len(channel') <= ChannelCapacity
           /\ view' \in [Paths -> Shown \cup {Unseen}]
           /\ ChannelInv'
      <3>1. p \in since => answer
        BY <2>4, <2>8, Zenon
      <3>2. view' = IF answer THEN [view EXCEPT ![Head(channel).path] = Head(channel).value]
                    ELSE view
        BY <2>2, <2>3, Zenon
      <3>3. QED
        BY <1>1, <1>3, <2>2, <2>4, <2>8, <3>1, <3>2, DeliverKeeps, Zenon
    <2>11. HasAsked'
      BY <1>1, <2>6, Zenon DEF ClientInv, HasAsked
    <2>12. ClientTypes'
      <3>1. mode # "some" => subs' = NoSubs /\ ~fleet
        BY <2>6, Zenon DEF ClientInv, ClientTypes
      <3>2. QED
        BY <1>1, <2>6, <2>10, <3>1, Zenon DEF ClientInv, ClientTypes, SubsType, Deltas
    <2>13. AskedStep
      <3> SUFFICES ASSUME NEW q \in Paths, view'[q] # view[q]
                   PROVE  \E pair \in asked' : pair[2] = q
        BY Zenon DEF AskedStep
      <3>1. view \in [Paths -> Shown \cup {Unseen}]
        BY DEF ClientInv, ClientTypes
      <3>2. answer /\ q = p
        <4>1. answer
          BY <2>3, Zenon
        <4>2. view' = [view EXCEPT ![p] = Head(channel).value]
          BY <2>3, <4>1, Zenon
        <4>3. QED
          BY <3>1, <4>1, <4>2, Zenon
      <3>3. QED
        BY <1>1, <2>4, <3>2, Zenon
    <2>14. QED
      BY <2>9, <2>10, <2>11, <2>12, <2>13, Zenon DEF ClientInv
  <1>4. QED
    BY <1>2, <1>3, Zenon DEF Receive

\* A client that leaves takes its channel with it.
LEMMA LeaveKeeps ==
  ASSUME ClientInv, Leave
  PROVE  ClientInv' /\ AskedStep
  <1>1. /\ stage' = "away" /\ joined' = FALSE /\ channel' = <<>> /\ missed' = {}
        /\ mode' = "none" /\ subs' = NoSubs /\ fleet' = FALSE /\ since' = {}
        /\ view' = [p \in Paths |-> Unseen]
    BY DEF Leave
  <1>2. NoSubs \in [Keys -> [ControlIds -> Subscriptions]]
    BY DEF NoSubs, Subscriptions
  <1>3. ClientTypes'
    <2>1. channel' \in Seq([path : Paths, value : Shown]) /\ Len(channel') <= ChannelCapacity
      BY <1>1, CapacityAssumption
    <2>2. QED
      BY <1>1, <1>2, <2>1, Zenon DEF ClientTypes
  <1>4. HasAsked'
    BY <1>1 DEF HasAsked, NoSubs
  <1>5. SinceIsFollowed' /\ ChannelInv'
    BY <1>1 DEF SinceIsFollowed, ChannelInv, LatestIsGood, SeenIsGood, MissedIsGone
  <1>6. QED
    BY <1>1, <1>3, <1>4, <1>5 DEF ClientInv, AskedStep

\* A message to subscribe is answered with what it asked for, and with nothing else.
LEMMA SubscriptionKeeps ==
  ASSUME ControlsInv, AisInv, ClientInv, NEW req \in Requests, HandleSubscription(req)
  PROVE  ClientInv' /\ AskedStep
  <1> DEFINE new == SubsAfter(req)
             tried == IF Counted(req) = DOMAIN req.entries /\ active THEN ControlIds ELSE {}
             newFleet == Counted(req) = DOMAIN req.entries /\ FleetAfter(req) /\ ~fleet
  <1>1. /\ ClientUnchanged /\ UNCHANGED <<channelVars, stage, meta_sent>>
        /\ mode' = "some" /\ asked' = AskedAfter(req) /\ fleet' = FleetAfter(req)
        /\ stage = "streaming"
    BY ZenonT(40) DEF HandleSubscription, ClientReady
  <1>2. PICK passed \in SUBSET tried :
          /\ \A id \in tried : (id \in passed) \in Answers(new, id, TRUE)
          /\ subs' = [k \in Keys |-> [id \in ControlIds |->
                       IF id \in tried THEN Stamp(new, id, TRUE, id \in passed)[k][id]
                       ELSE new[k][id]]]
          /\ LET sent == passed \cup (IF newFleet THEN known ELSE {})
                 followed == Followed("some", subs', fleet')
             IN ShowCurrent(sent) /\ since' = (since \cup sent) \cap followed
    BY Zenon DEF HandleSubscription
  <1>3. tried \subseteq ControlIds
    OBVIOUS
  <1>4. new \in SubsType
    BY SubsAfterTyped DEF ClientInv, ClientTypes, SubsType
  <1>5. fleet' \in BOOLEAN
    BY <1>1, Zenon DEF FleetAfter, ClientInv, ClientTypes
  <1>6. /\ \A k \in Keys, id \in ControlIds : new[k][id] # NoSub => <<k, id>> \in asked'
        /\ FleetAfter(req) => \A m \in Mmsis : <<"*", m>> \in asked'
    BY <1>1, AskedKept, Zenon DEF ClientInv
  <1> DEFINE sent == passed \cup (IF newFleet THEN known ELSE {})
  <1>7. /\ ShowCurrent(sent)
        /\ since' \subseteq since \cup sent
        /\ since' \subseteq Followed("some", subs', fleet')
    BY <1>2, Zenon
  <1>8. ASSUME NEW p \in sent
        PROVE  \E pair \in asked' : pair[2] = p
    <2>1. CASE p \in passed
      <3>1. p \in ControlIds /\ p \in tried
        BY <1>2, <1>3, <2>1, Zenon
      <3>2. TRUE \in Answers(new, p, TRUE)
        <4>1. (p \in passed) = TRUE
          BY <2>1
        <4>2. QED
          BY <1>2, <3>1, <4>1, Zenon
      <3>3. PICK k \in Keys : new[k][p] # NoSub
        BY <1>4, <3>1, <3>2, AnswersNeed, Zenon
      <3>4. <<k, p>> \in asked'
        BY <1>6, <3>1, <3>3, Zenon
      <3>5. QED
        BY <3>4
    <2>2. CASE p \notin passed
      <3>1. newFleet /\ p \in known
        BY <2>2, Zenon
      <3>2. p \in Mmsis /\ FleetAfter(req)
        BY <3>1, Zenon DEF AisInv
      <3>3. <<"*", p>> \in asked'
        BY <1>6, <3>2, Zenon
      <3>4. QED
        BY <3>3
    <2>3. QED
      BY <2>1, <2>2
  <1>9. sent \in SUBSET (ControlIds \cup known)
    BY <1>2, <1>3, Zenon
  <1>10. subs' \in SubsType /\ SameSubs(new, subs')
    <2> HIDE DEF new, tried
    <2>1. ASSUME NEW id \in ControlIds, NEW yes, NEW passes
          PROVE  Stamp(new, id, yes, passes) \in SubsType
                   /\ SameSubs(new, Stamp(new, id, yes, passes))
      BY <1>4, StampKeeps, Zenon
    <2>2. ASSUME NEW k \in Keys, NEW id \in ControlIds
          PROVE  /\ subs'[k][id] \in Subscriptions
                 /\ subs'[k][id] = NoSub <=> new[k][id] = NoSub
      <3>1. PICK st : st = Stamp(new, id, TRUE, id \in passed)
        BY Zenon
      <3>2. st \in SubsType /\ SameSubs(new, st)
        BY <2>1, <3>1, Zenon
      <3>3. subs'[k][id] = IF id \in tried THEN st[k][id] ELSE new[k][id]
        BY <1>2, <3>1, Zenon
      <3>4. QED
        BY <1>4, <3>2, <3>3 DEF SameSubs, SubsType
    <2>3. subs' = [k \in Keys |-> [id \in ControlIds |-> subs'[k][id]]]
      BY <1>2, Zenon
    <2>4. subs' \in SubsType
      BY <2>2, <2>3 DEF SubsType
    <2>5. QED
      BY <2>2, <2>4, Zenon DEF SameSubs
  <1> HIDE DEF new, tried, newFleet, sent
  <1>11. view' \in [Paths -> Shown \cup {Unseen}] /\ ChannelInv'
    BY <1>1, <1>7, <1>9, ShowKeeps, Zenon
  <1>12. ClientTypes'
    BY <1>1, <1>5, <1>10, <1>11 DEF ClientInv, ClientTypes, SubsType, channelVars
  <1>13. SinceIsFollowed'
    BY <1>1, <1>7, Zenon DEF SinceIsFollowed
  <1>14. HasAsked'
    <2>1. mode' # "all"
      BY <1>1
    <2>2. QED
      BY <1>1, <1>6, <1>10, <2>1, Zenon DEF HasAsked, SameSubs
  <1>15. AskedStep
    <2> SUFFICES ASSUME NEW p \in Paths, view'[p] # view[p]
                 PROVE  \E pair \in asked' : pair[2] = p
      BY Zenon DEF AskedStep
    <2>1. p \in sent
      BY <1>7, Zenon DEF ShowCurrent
    <2>2. QED
      BY <1>8, <2>1, Zenon
  <1>16. QED
    BY <1>11, <1>12, <1>13, <1>14, <1>15, Zenon DEF ClientInv

\* A message to desubscribe shows nothing.
LEMMA DesubscriptionKeeps ==
  ASSUME ControlsInv, AisInv, ClientInv, NEW req \in Requests, HandleDesubscription(req)
  PROVE  ClientInv' /\ AskedStep
  <1>1. /\ ClientUnchanged /\ UNCHANGED <<channelVars, stage, meta_sent, view>>
        /\ subs' = SubsAfter(req) /\ fleet' = FleetAfter(req)
        /\ mode' = "some" /\ asked' = AskedAfter(req)
        /\ since' = since \cap Followed("some", subs', fleet')
        /\ stage = "streaming"
    BY ZenonT(40) DEF HandleDesubscription, ClientReady
  <1>2. subs' \in SubsType
    BY <1>1, SubsAfterTyped, ZenonT(40) DEF ClientInv, ClientTypes, SubsType
  <1>3. fleet' \in BOOLEAN
    BY <1>1, Zenon DEF FleetAfter, ClientInv, ClientTypes
  <1>4. /\ \A k \in Keys, id \in ControlIds : subs'[k][id] # NoSub => <<k, id>> \in asked'
        /\ fleet' => \A m \in Mmsis : <<"*", m>> \in asked'
    BY <1>1, AskedKept, Zenon DEF ClientInv
  <1>5. ShowCurrent({})
    BY <1>1 DEF ShowCurrent, ClientInv, ClientTypes
  <1>6. since' \subseteq since \cup {}
    BY <1>1
  <1>7. {} \in SUBSET (ControlIds \cup known)
    OBVIOUS
  <1>8. view' \in [Paths -> Shown \cup {Unseen}] /\ ChannelInv'
    BY <1>1, <1>5, <1>6, <1>7, ShowKeeps, Zenon
  <1>9. ClientTypes'
    BY <1>1, <1>2, <1>3, <1>8, ZenonT(40) DEF ClientInv, ClientTypes, SubsType, channelVars
  <1>10. SinceIsFollowed'
    BY <1>1 DEF SinceIsFollowed
  <1>11. HasAsked'
    BY <1>1, <1>4 DEF HasAsked
  <1>12. QED
    BY <1>1, <1>8, <1>9, <1>10, <1>11 DEF ClientInv, AskedStep

-------------------------------------------------------------------------------
\* The whole.

\* A step of the client.
LEMMA ClientStepKeeps ==
  ASSUME IInv, ClientUnchanged, ClientInv'
  PROVE  IInv'
  <1>1. UNCHANGED <<controlVars, aisVars>>
    BY DEF ClientUnchanged
  <1>2. ControlsInv'
    BY <1>1, ControlsSame DEF IInv
  <1>3. AisInv'
    BY <1>1 DEF IInv, AisInv, aisVars, UpdatesAreAnnounced
  <1>4. QED
    BY <1>2, <1>3 DEF IInv, ClientInv

\* Nothing is written, announced or seen when the server starts.
LEMMA InitIInv == Init => IInv
  <1> SUFFICES ASSUME Init PROVE IInv
    OBVIOUS
  <1>1. PICK v0 \in Values : v0 = CHOOSE v \in Values : TRUE
    BY ControlsAssumption
  <1>2. ControlTypes
    <2>1. control = [id \in ControlIds |->
                       [value |-> IF id \in Commands THEN Unset ELSE v0, needs_refresh |-> FALSE]]
      BY <1>1 DEF Init, ControlsInit
    <2>2. /\ control \in [ControlIds -> [value : Values \cup {Unset}, needs_refresh : BOOLEAN]]
          /\ \A id \in Internals : control[id].value = v0
      BY <2>1, ControlsAssumption DEF ControlIds
    <2>3. filter \in Values
      BY <2>2, ControlsAssumption DEF Init, ControlsInit
    <2>4. /\ task = [w \in Tasks |-> Idle] /\ commands = <<>>
          /\ device \in [Commands -> Values]
      BY DEF Init, ControlsInit
    <2>5. /\ task \in [Tasks -> {Idle} \cup Writes]
          /\ \A w \in Tasks : task[w].stage = "idle"
      BY <2>4 DEF Idle
    <2>6. commands \in Seq([id : Commands, value : Values]) /\ Len(commands) <= MaxCommands
      BY <2>4, ControlsAssumption
    <2>7. QED
      BY <2>2, <2>3, <2>4, <2>5, <2>6 DEF ControlTypes
  <1>3. \A w \in Tasks : \A id : ~Underway(w, id)
    BY DEF Init, ControlsInit, Underway, Idle
  <1>4. filter = control[RangeUnits].value
    BY DEF Init, ControlsInit
  <1>5. ControlsInv
    BY <1>2, <1>3, <1>4, ZenonT(40) DEF ControlsInv, SoleWriter, CopiesAreCurrent, RangesAreFresh
  <1>6. AisInv
    BY ZenonT(40) DEF Init, AisInit, AisInv, Resting, UpdatesAreAnnounced
  <1>7. NoSubs \in [Keys -> [ControlIds -> Subscriptions]]
    BY DEF NoSubs, Subscriptions
  <1>8. ClientTypes
    <2>1. channel \in Seq([path : Paths, value : Shown]) /\ Len(channel) <= ChannelCapacity
      BY CapacityAssumption DEF Init, ChannelInit
    <2>2. QED
      BY <1>7, <2>1, Zenon DEF ClientTypes, Init, ChannelInit
  <1>9. SinceIsFollowed /\ ChannelInv
    BY DEF Init, ChannelInit, SinceIsFollowed, ChannelInv, LatestIsGood, SeenIsGood,
       MissedIsGone
  <1>10. HasAsked
    BY DEF Init, HasAsked, NoSubs
  <1>11. QED
    BY <1>5, <1>6, <1>8, <1>9, <1>10 DEF IInv

\* Every step keeps the invariant, and shows the client only what it has asked for.
LEMMA NextKeeps ==
  ASSUME IInv, [Next]_vars
  PROVE  IInv' /\ AskedStep
  <1>1. ClientInv /\ ControlsInv /\ AisInv
    BY DEF IInv, ClientInv
  <1>2. UNCHANGED clientVars => AskedStep
    BY DEF clientVars, AskedStep
  <1>3. ASSUME WriteStep \/ ReportStep \/ RadarStep \/ CommandStep
        PROVE  IInv' /\ AskedStep
    <2>1. UNCHANGED clientVars
      BY <1>3, ZenonT(40) DEF WriteStep, ReportStep, RadarStep, CommandStep, Elsewhere
    <2>2. QED
      BY <1>2, <1>3, <2>1, ControlStepKeeps
  <1>4. ASSUME AisStep
        PROVE  IInv' /\ AskedStep
    <2>1. UNCHANGED clientVars
      BY <1>4 DEF AisStep
    <2>2. QED
      BY <1>2, <1>4, <2>1, AisStepKeeps
  <1>5. ASSUME NEW id \in ControlIds, NEW v \in Values, RestSets(id, v) \/ ClientSets(id, v)
        PROVE  IInv' /\ AskedStep
    <2>1. UNCHANGED clientVars
      BY <1>5 DEF RestSets, ClientSets, Elsewhere
    <2>2. IInv'
      BY <1>5, RequestStepKeeps, Zenon
    <2>3. QED
      BY <1>2, <2>1, <2>2
  <1>6. ASSUME Activate \/ UNCHANGED vars
        PROVE  IInv' /\ AskedStep
    <2>1. UNCHANGED <<channelVars, controlVars, aisVars, clientVars>>
      BY <1>6 DEF Activate, vars
    <2>2. AisInv' /\ GoodVesselsStay
      BY <1>1, <2>1, VesselsSame, SMTT(30) DEF AisInv, aisVars, UpdatesAreAnnounced
    <2>3. ControlsInv' /\ GoodControlsStay
      BY <1>1, <2>1, ControlsSame
    <2>4. QED
      BY <1>2, <2>1, <2>2, <2>3, QuietStep
  <1>7. ASSUME NEW m \in {"none", "all"}, Join(m)
        PROVE  IInv' /\ AskedStep
    <2>1. ClientUnchanged
      BY <1>7, Zenon DEF Join
    <2>2. ClientInv' /\ AskedStep
      BY <1>1, <1>7, JoinKeeps, Zenon
    <2>3. QED
      BY <2>1, <2>2, ClientStepKeeps
  <1>8. ASSUME NEW cached \in BOOLEAN, Snapshot(cached)
        PROVE  IInv' /\ AskedStep
    <2>1. ClientUnchanged
      BY <1>8, Zenon DEF Snapshot
    <2>2. ClientInv' /\ AskedStep
      BY <1>1, <1>8, SnapshotKeeps, Zenon
    <2>3. QED
      BY <2>1, <2>2, ClientStepKeeps
  <1>9. ASSUME Receive \/ Leave
        PROVE  IInv' /\ AskedStep
    <2>1. ClientUnchanged
      BY <1>9, Zenon DEF Receive, Leave
    <2>2. ClientInv' /\ AskedStep
      BY <1>1, <1>9, ReceiveKeeps, LeaveKeeps, Zenon
    <2>3. QED
      BY <2>1, <2>2, ClientStepKeeps
  <1>10. ASSUME NEW req \in Requests, HandleSubscription(req) \/ HandleDesubscription(req)
         PROVE  IInv' /\ AskedStep
    <2>1. ClientUnchanged
      BY <1>10, Zenon DEF HandleSubscription, HandleDesubscription
    <2>2. ClientInv' /\ AskedStep
      BY <1>1, <1>10, SubscriptionKeeps, DesubscriptionKeeps, Zenon
    <2>3. QED
      BY <2>1, <2>2, ClientStepKeeps
  <1>11. QED
    BY <1>3, <1>4, <1>5, <1>6, <1>7, <1>8, <1>9, <1>10, Zenon DEF Next

-------------------------------------------------------------------------------
\* The theorems.

\* The inductive invariant holds: of every path the last delta the client has read, or
\* has still to read, is what the server knows of it, unless the server has more to
\* say (the two halves of a write, the flusher and the reaper of the AIS store, and
\* subscribe, desubscribe and apply_subscriptions, in any order).
THEOREM LastWordIsGood == Spec => []IInv
  <1>1. Init => IInv
    BY InitIInv
  <1>2. IInv /\ [Next]_vars => IInv'
    BY NextKeeps
  <1>3. QED
    BY <1>1, <1>2, PTL DEF Spec

\* A client's picture of what it follows is the server's, once nothing is under way:
\* controls, the ranges they allow, and vessels (ws_signalk_delta, SharedControls,
\* AisVesselStore), for any capacity of the channel.
THEOREM ViewFresh == Spec => []ViewIsFresh
  <1>1. IInv => ViewIsFresh
    <2> SUFFICES ASSUME IInv PROVE ViewIsFresh
      OBVIOUS
    <2>1. TypeOK
      BY ZenonT(40) DEF IInv, ControlsInv, ControlTypes, ClientTypes, TypeOK
    <2>2. ControlsAreFresh
      BY Zenon DEF IInv, ChannelInv, SeenIsGood, Good, ControlsAreFresh
    <2>3. RangesAreFresh
      BY DEF IInv, ControlsInv
    <2>4. VesselsAreFresh
      <3> SUFFICES ASSUME NEW m \in since \cap Mmsis, m \notin missed, ~InChannel(m)
                   PROVE  \/ m \in pending \cup flusher.due
                          \/ m \in known /\ vessels[m] = Nothing
                          \/ view[m] = IF m \in known THEN vessels[m] ELSE Lost
        BY Zenon DEF VesselsAreFresh
      <3>1. Good(m, view[m])
        BY DEF IInv, ChannelInv, SeenIsGood
      <3>2. m \notin ControlIds
        BY PathsAssumption
      <3>3. QED
        BY <3>1, <3>2, ZenonT(40) DEF Good
    <2>5. QED
      BY <2>1, <2>2, <2>3, <2>4 DEF ViewIsFresh
  <1>2. QED
    BY <1>1, LastWordIsGood, PTL

\* No update of a vessel is left unannounced: what was last said of it is what is
\* known, or it is still on the schedule or in the flusher's hands (update,
\* flush_pending_broadcasts and check_timeouts, between whose locks any of the others
\* may run).
THEOREM VesselsAnnounced == Spec => []UpdatesAreAnnounced
  <1>1. IInv => UpdatesAreAnnounced
    BY DEF IInv, AisInv
  <1>2. QED
    BY <1>1, LastWordIsGood, PTL

\* A client is sent nothing it did not ask for, whatever messages to subscribe and
\* desubscribe, failing ones included, came before (is_subscribed_path,
\* send_all_subscribed).
THEOREM OnlyWhatWasAsked == Spec => NothingUnasked
  <1>1. IInv /\ [Next]_vars =>
          [\A p \in Paths :
             (view'[p] # view[p] /\ stage' = "streaming") => \E pair \in asked' : pair[2] = p]_vars
    BY NextKeeps DEF AskedStep
  <1>2. QED
    BY <1>1, LastWordIsGood, PTL DEF Spec, NothingUnasked
=============================================================================
