------------------------------- MODULE AisStore -------------------------------
(* AisVesselStore: vessels known from AIS, updated by the navigation task, and *)
(* announced and aged by two timer tasks.  The store and its schedule have a   *)
(* lock each, and a timer task releases one before it takes the other.         *)
EXTENDS DeltaChannel, FiniteSets

CONSTANTS
    Mmsis,      \* vessel identities
    Positions,  \* what is known of a vessel, all its fields together
    Nothing,    \* a vessel of which no field is known, or no vessel
    Lost        \* what a delta says of a vessel that timed out

VARIABLES
    vessels,    \* [Mmsis -> Positions \cup {Nothing}]
    known,      \* the keys of the map
    old,        \* vessels whose last update is more than AIS_TIMEOUT ago
    pending,    \* the keys of pending_broadcast
    flusher,    \* [stage, due]: flush_pending_broadcasts
    reaper,     \* [stage, due]: check_timeouts
    announced   \* history: what the last delta said of each vessel

aisVars == <<vessels, known, old, pending, flusher, reaper, announced>>

\* A timer task in its last stage holds the lock of vessels.
ReadLocked == flusher.stage = "announce"
WriteLocked == reaper.stage = "mark"

Resting == [stage |-> "rest", due |-> {}]

\* AisVesselStore::update.  An update that says nothing new creates the vessel
\* if need be and refreshes its time.
UpdateVessel(m, p) ==
    /\ ~ReadLocked /\ ~WriteLocked
    /\ known' = known \cup {m}
    /\ old' = old \ {m}
    /\ LET changed == p # Nothing /\ vessels[m] # p
       IN /\ vessels' = IF changed THEN [vessels EXCEPT ![m] = p] ELSE vessels
          /\ pending' = IF changed THEN pending \cup {m} ELSE pending
    /\ UNCHANGED <<flusher, reaper, announced>>
    /\ UNCHANGED channelVars

\* More than AIS_TIMEOUT passes without an update.
VesselAges(m) ==
    /\ m \in known \ old
    /\ old' = old \cup {m}
    /\ UNCHANGED <<vessels, known, pending, flusher, reaper, announced>>
    /\ UNCHANGED channelVars

\* flush_pending_broadcasts: the vessels that are due, under the first lock.
\* Any of the pending ones may have reached BROADCAST_DELAY.
FindDue ==
    /\ flusher.stage = "rest"
    /\ \E due \in SUBSET pending \ {{}} :
          flusher' = [stage |-> "remove", due |-> due]
    /\ UNCHANGED <<vessels, known, old, pending, reaper, announced>>
    /\ UNCHANGED channelVars

\* They leave the schedule before they are read.
RemoveDue ==
    /\ flusher.stage = "remove"
    /\ pending' = pending \ flusher.due
    /\ flusher' = [flusher EXCEPT !.stage = "read"]
    /\ UNCHANGED <<vessels, known, old, reaper, announced>>
    /\ UNCHANGED channelVars

\* One vessel of the loop that announces; the read lock is held from the first
\* to the last.  A vessel that was removed in the meantime is passed over.
AnnounceDue ==
    /\ flusher.stage \in {"read", "announce"}
    /\ ~WriteLocked
    /\ \E m \in flusher.due :
          /\ IF m \in known
             THEN /\ Broadcast([path |-> m, value |-> vessels[m]])
                  /\ announced' = [announced EXCEPT ![m] = vessels[m]]
             ELSE UNCHANGED <<announced, channelVars>>
          /\ flusher' = IF flusher.due = {m} THEN Resting
                        ELSE [stage |-> "announce", due |-> flusher.due \ {m}]
    /\ UNCHANGED <<vessels, known, old, pending, reaper>>

\* check_timeouts: the vessels that timed out, under the read lock.
FindLost ==
    /\ reaper.stage = "rest"
    /\ known \cap old # {}
    /\ reaper' = [stage |-> "found", due |-> known \cap old]
    /\ UNCHANGED <<vessels, known, old, pending, flusher, announced>>
    /\ UNCHANGED channelVars

\* Mutant: a lost vessel is announced and never leaves the map.
MarkKeeps ==
    /\ reaper.stage \in {"found", "mark"}
    /\ ~ReadLocked
    /\ \E m \in reaper.due :
          /\ Broadcast([path |-> m, value |-> Lost])
          /\ announced' = [announced EXCEPT ![m] = Lost]
          /\ old' = old \ {m}
          /\ reaper' = IF reaper.due = {m} THEN Resting
                       ELSE [stage |-> "mark", due |-> reaper.due \ {m}]
    /\ UNCHANGED <<vessels, known, pending, flusher>>

\* One vessel of the loop that marks, announces and removes them; the write lock
\* is held from the first to the last, and no task sees the map in between.
MarkLost ==
    /\ reaper.stage \in {"found", "mark"}
    /\ ~ReadLocked
    /\ \E m \in reaper.due :
          /\ IF m \in known
             THEN /\ Broadcast([path |-> m, value |-> Lost])
                  /\ announced' = [announced EXCEPT ![m] = Lost]
             ELSE UNCHANGED <<announced, channelVars>>
          /\ known' = known \ {m}
          /\ vessels' = [vessels EXCEPT ![m] = Nothing]
          /\ old' = old \ {m}
          /\ reaper' = IF reaper.due = {m} THEN Resting
                       ELSE [stage |-> "mark", due |-> reaper.due \ {m}]
    /\ UNCHANGED <<pending, flusher>>

AisInit ==
    /\ vessels = [m \in Mmsis |-> Nothing]
    /\ known = {}
    /\ old = {}
    /\ pending = {}
    /\ flusher = Resting
    /\ reaper = Resting
    /\ announced = [m \in Mmsis |-> Nothing]

\* What was last said of a vessel is what is known of it, unless it is on the
\* schedule or in the hands of the flusher (update and flush_pending_broadcasts,
\* whose locks leave room for an update between any two of their steps).
UpdatesAreAnnounced ==
    \A m \in known :
        \/ vessels[m] = Nothing
        \/ announced[m] = vessels[m]
        \/ m \in pending \cup flusher.due
===============================================================================
