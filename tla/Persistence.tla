----------------------------- MODULE Persistence -----------------------------
(* The settings of radars and the file they are kept in.  Clients change the   *)
(* shared controls or send the change to the radar's task; web tasks and the   *)
(* radar's task store the controls, under the lock of the registry, in the     *)
(* configuration in memory, and write the file if that made a difference.  The *)
(* file is truncated first and written in place.  The process may crash at any *)
(* time, and finds its radars again when it restarts.                          *)
EXTENDS Naturals, Sequences, FiniteSets

CONSTANTS
    Keys,         \* radars
    GuardIds,     \* zones that are stored as they are
    ExclusionIds, \* zones and rectangles that are stored only if enabled
    ListIds,      \* ArpaDetectMaxSpeed: set by the radar's task
    DopplerIds,   \* DopplerAutoTrack
    MaxUpdates,   \* capacity of control_update_tx, 32 in the code
    MaxRequests,  \* bound: requests of clients
    MaxFaults,    \* bound: crashes and failed writes
    Absent,       \* a radar or a record there is not
    Torn          \* a file without a whole configuration in it

ZoneIds == GuardIds \cup ExclusionIds
SettingIds == ZoneIds \cup ListIds \cup DopplerIds

\* A zone has a shape and may be enabled; the other settings are numbers.
Zone == [shape : {0, 1}, enabled : BOOLEAN]
ValuesOf(id) == IF id \in ZoneIds THEN Zone ELSE {0, 1}
Default == [id \in SettingIds |->
              IF id \in ZoneIds THEN [shape |-> 0, enabled |-> FALSE] ELSE 0]

\* The controls of a radar, or a record of them.
Settings == {c \in [SettingIds -> Zone \cup {0, 1}] :
                \A id \in SettingIds : c[id] \in ValuesOf(id)}

ASSUME PersistenceAssumption ==
    /\ MaxUpdates \in Nat \ {0} /\ MaxRequests \in Nat /\ MaxFaults \in Nat
    /\ ZoneIds \cap ListIds = {}
    /\ Absent \notin Settings
    /\ Torn \notin [Keys -> Settings \cup {Absent}]

VARIABLES
    up,           \* the process runs
    file,         \* settings.json: Torn, or what it holds of each radar
    config,       \* Persistence::config: the record of each radar
    controls,     \* the controls of each registered radar
    updates,      \* control_update_tx of each radar
    web,          \* radars whose web task has yet to save
    writing,      \* the registry is locked, and the file truncated
    requests,     \* bound
    faults,       \* bound
    unsaved,      \* history: the last write failed
    lagged,       \* history: an update was lost
    asked,        \* history: the value of each setting requested last
    stored,       \* history: the controls each radar's record was last made from
    fresh         \* history: radars registered and not changed since

fileVars == <<file, config, writing, unsaved, stored>>
persistenceVars ==
    <<up, fileVars, controls, updates, web, requests, faults, lagged, asked, fresh>>

Nowhere == [k \in Keys |-> Absent]

PersistenceInit ==
    /\ up = TRUE
    /\ file = Nowhere
    /\ config = Nowhere
    /\ controls = Nowhere
    /\ updates = [k \in Keys |-> <<>>]
    /\ web = {}
    /\ writing = FALSE
    /\ requests = 0
    /\ faults = 0
    /\ unsaved = FALSE
    /\ lagged = FALSE
    /\ asked = [k \in Keys |-> Default]
    /\ stored = Nowhere
    /\ fresh = {}

Registered(k) == controls[k] # Absent

\* The registry can be locked.
Free == up /\ ~writing

-------------------------------------------------------------------------------
\* SharedRadars::add of a radar that is not yet known, with
\* update_info_from_persistence.
add(k) ==
    /\ Free
    /\ ~Registered(k)
    /\ controls' = [controls EXCEPT ![k] = IF config[k] = Absent THEN Default ELSE config[k]]
    /\ asked' = [asked EXCEPT ![k] = controls'[k]]
    /\ updates' = [updates EXCEPT ![k] = <<>>]
    /\ fresh' = fresh \cup {k}
    /\ UNCHANGED <<up, fileVars, web, requests, faults, lagged>>

\* SharedRadars::remove, by the locator of a Furuno or the end of a playback.
remove(k) ==
    /\ Free
    /\ Registered(k)
    /\ updates[k] = <<>>
    /\ controls' = [controls EXCEPT ![k] = Absent]
    /\ fresh' = fresh \ {k}
    /\ UNCHANGED <<up, fileVars, updates, web, requests, faults, lagged, asked>>

\* The record made of a radar's controls: "Only persist enabled exclusion zones".
RecordOf(c) ==
    [id \in SettingIds |->
        IF id \in ExclusionIds /\ ~c[id].enabled THEN Default[id] ELSE c[id]]

\* Persistence::store of the controls c of radar k.  What changed is remembered
\* first, and then saver creates the file anew; if it cannot, only the log is told.
store(k, c) ==
    /\ config' = [config EXCEPT ![k] = RecordOf(c)]
    /\ stored' = [stored EXCEPT ![k] = c]
    /\ IF config[k] = RecordOf(c) THEN UNCHANGED <<file, writing, unsaved, faults>>
       ELSE \/ /\ file' = Torn
               /\ writing' = TRUE
               /\ UNCHANGED <<unsaved, faults>>
            \/ /\ faults < MaxFaults
               /\ faults' = faults + 1
               /\ unsaved' = TRUE
               /\ UNCHANGED <<file, writing>>

\* The rest of saver, while the registry is locked: the whole configuration is
\* written, or the disk is full and the file stays as far as it got.
saver ==
    /\ up /\ writing
    /\ writing' = FALSE
    /\ \/ /\ file' = config
          /\ unsaved' = FALSE
          /\ UNCHANGED faults
       \/ /\ faults < MaxFaults
          /\ faults' = faults + 1
          /\ unsaved' = TRUE
          /\ UNCHANGED file
    /\ UNCHANGED <<up, config, controls, updates, web, requests, lagged, asked, stored, fresh>>

-------------------------------------------------------------------------------
\* The settings after whose change a web task calls save_persistence.
Saves(via) == IF via = "rest" THEN ZoneIds ELSE GuardIds

\* set_control_value (REST) and handle_control_request (websocket) up to their
\* save: zones are set in the controls by the web task, and every change is sent
\* to the radar's task, over a channel that drops its oldest message when full.
process_client_request(k, id, v, via) ==
    /\ Free
    /\ Registered(k)
    /\ requests < MaxRequests
    /\ requests' = requests + 1
    /\ controls' = IF id \in ZoneIds THEN [controls EXCEPT ![k][id] = v] ELSE controls
    /\ LET full == Len(updates[k]) = MaxUpdates
           kept == IF full THEN Tail(updates[k]) ELSE updates[k]
       IN /\ updates' = [updates EXCEPT ![k] = Append(kept, [id |-> id, value |-> v])]
          /\ lagged' = (lagged \/ full)
    /\ web' = IF id \in Saves(via) THEN web \cup {k} ELSE web
    /\ asked' = [asked EXCEPT ![k][id] = v]
    /\ fresh' = fresh \ {k}
    /\ UNCHANGED <<up, fileVars, faults>>

save_persistence(k) ==
    /\ Free
    /\ k \in web
    /\ web' = web \ {k}
    /\ IF Registered(k) THEN store(k, controls[k]) ELSE UNCHANGED <<fileVars, faults>>
    /\ UNCHANGED <<up, controls, updates, requests, lagged, asked, fresh>>

\* Mutant: the radar's task leaves exclusion zones to the web task.
UpdateSkipsExclusion(k) ==
    /\ Free
    /\ updates[k] # <<>>
    /\ updates' = [updates EXCEPT ![k] = Tail(@)]
    /\ LET u == Head(updates[k])
           c == IF u.id \in ListIds THEN [controls[k] EXCEPT ![u.id] = u.value] ELSE controls[k]
       IN /\ controls' = [controls EXCEPT ![k] = c]
          /\ IF u.id \in ExclusionIds THEN UNCHANGED <<fileVars, faults>> ELSE store(k, c)
    /\ UNCHANGED <<up, web, requests, lagged, asked, fresh>>

\* process_control_update in the radar's task, for these settings: only
\* ArpaDetectMaxSpeed is set here, and for all of them update stores the controls.
process_control_update(k) ==
    /\ Free
    /\ updates[k] # <<>>
    /\ updates' = [updates EXCEPT ![k] = Tail(@)]
    /\ LET u == Head(updates[k])
           c == IF u.id \in ListIds THEN [controls[k] EXCEPT ![u.id] = u.value] ELSE controls[k]
       IN /\ controls' = [controls EXCEPT ![k] = c]
          /\ store(k, c)
    /\ UNCHANGED <<up, web, requests, lagged, asked, fresh>>

-------------------------------------------------------------------------------
\* The process ends, at any point.
Crash ==
    /\ up
    /\ faults < MaxFaults
    /\ faults' = faults + 1
    /\ up' = FALSE
    /\ config' = Nowhere
    /\ controls' = Nowhere
    /\ updates' = [k \in Keys |-> <<>>]
    /\ web' = {}
    /\ writing' = FALSE
    /\ unsaved' = FALSE
    /\ lagged' = FALSE
    /\ stored' = IF writing \/ unsaved THEN Nowhere ELSE stored
    /\ fresh' = {}
    /\ UNCHANGED <<file, requests, asked>>

\* Mutant: a radar whose settings cannot all be read is left out.
LoadLess ==
    /\ ~up
    /\ up' = TRUE
    /\ config' = IF file = Torn THEN Nowhere
                 ELSE [k \in Keys |-> IF file[k] # Absent /\ \E id \in ZoneIds : ~file[k][id].enabled
                                      THEN Absent ELSE file[k]]
    /\ UNCHANGED <<file, controls, updates, web, writing, requests, faults, unsaved,
                   lagged, asked, stored, fresh>>

\* Persistence::load: a file that does not parse counts as none.
load ==
    /\ ~up
    /\ up' = TRUE
    /\ config' = IF file = Torn THEN Nowhere ELSE file
    /\ UNCHANGED <<file, controls, updates, web, writing, requests, faults, unsaved,
                   lagged, asked, stored, fresh>>

PersistenceNext ==
    \/ \E k \in Keys : add(k) \/ remove(k)
    \/ \E k \in Keys, id \in SettingIds : \E v \in ValuesOf(id), via \in {"rest", "websocket"} :
          process_client_request(k, id, v, via)
    \/ \E k \in Keys : save_persistence(k)
    \/ \E k \in Keys : process_control_update(k)
    \/ saver
    \/ Crash
    \/ load

-------------------------------------------------------------------------------
\* A radar that is found again, after a restart or a removal, has the settings it
\* had when they were last stored, apart from exclusion zones that were switched
\* off; unless the process crashed while it wrote the file, or after a write that
\* failed ("restoring any persisted settings").
SettingsSurvive ==
    \A k \in fresh : stored[k] # Absent => controls[k] = RecordOf(stored[k])

\* When nothing is under way, what clients asked for is what the radar has and
\* what the file holds of it, in whatever order the web tasks and the radar's
\* task stored; unless the write failed or the radar's task lagged.  Requests for
\* DopplerAutoTrack are stored without being set, and are left out.
RequestsAreKept ==
    \A k \in Keys :
        (/\ Free /\ ~unsaved /\ ~lagged
         /\ Registered(k) /\ k \notin fresh
         /\ updates[k] = <<>> /\ k \notin web) =>
            /\ \A id \in SettingIds \ DopplerIds : controls[k][id] = asked[k][id]
            /\ file[k] = RecordOf(controls[k])
===============================================================================
