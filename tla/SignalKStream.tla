----------------------------- MODULE SignalKStream -----------------------------
(* One client of /signalk/v1/stream (ws_signalk_delta), with the controls of a  *)
(* radar and the AIS store as the producers of the deltas it receives.  Time is *)
(* left open: whether a rate-limited path is due is a choice of the model.      *)
EXTENDS Controls, AisStore

CONSTANTS
    Key,       \* the radar's key
    Requests,  \* messages to subscribe and desubscribe: [kind, entries]
    Unseen     \* the client has received nothing on this path

Paths == ControlIds \cup Mmsis

Keys == {Key, "*"}  \* "*" is any radar

ASSUME PathsAssumption == ControlIds \cap Mmsis = {}

\* What a message says of one path or pattern.
Entries == [on : {"controls", "vessels", "unknown"}, key : Keys,
            matches : SUBSET ControlIds, policy : {"instant", "ideal", "fixed"},
            period : BOOLEAN, min_period : BOOLEAN]

ASSUME RequestsAssumption ==
    Requests \subseteq [kind : {"subscribe", "desubscribe"}, entries : Seq(Entries)]

NoSub == [policy |-> "none"]

VARIABLES
    producers,  \* which producers this server runs: "radar", "web", "ais"
    active,     \* the radar's ranges are known (get_active)
    stage,      \* "away", "joined", "streaming"
    mode,       \* Subscribe: "none", "some", "all"
    subs,       \* ActiveSubscriptions.paths, [Keys -> [ControlIds -> subscription]]
    fleet,      \* vessel_subscriptions holds "vessels.*"
    meta_sent,  \* the radar's meta data was sent
    view,       \* what the client last received on each path
    since,      \* history: paths received since they were last subscribed to
    asked,      \* history: <<key, path>> pairs the client's messages asked for
    awaiting    \* history: commands taken by the radar and not heard of since

clientVars == <<stage, mode, subs, fleet, meta_sent, view, since, asked>>

vars == <<channelVars, controlVars, aisVars, producers, active, clientVars, awaiting>>

NoSubs == [k \in Keys |-> [id \in ControlIds |-> NoSub]]

\* The subscription is_subscribed looks at: the radar's own before "*".
Effective(s, id) == IF s[Key][id] # NoSub THEN s[Key][id] ELSE s["*"][id]

\* The key whose last_sent it stamps.
EffectiveKey(s, id) == IF s[Key][id] # NoSub THEN Key ELSE "*"

\* is_subscribed and is_subscribed_path for a control in mode Some: the possible
\* answers.  A first call under a period only stamps last_sent; a later one passes
\* when the period has gone by, and stamps it again when it has not.
Answers(s, id, full) ==
    LET e == Effective(s, id)
        periodic == e.policy = "fixed" /\ e.period
    IN IF e = NoSub \/ (e.policy = "fixed" /\ ~full) THEN {FALSE}
       ELSE IF ~periodic /\ ~e.min_period THEN {TRUE}
       ELSE IF e.stamped THEN BOOLEAN ELSE {FALSE}

\* The paths after those calls: a path that was asked and refused is stamped.
Stamp(s, id, full, answer) ==
    LET e == Effective(s, id)
    IN IF e # NoSub /\ ~answer /\ (e.policy # "fixed" \/ full)
       THEN [s EXCEPT ![EffectiveKey(s, id)][id].stamped = TRUE]
       ELSE s

\* apply_subscriptions: the possible answers for a delta on a path.
Passes(p) ==
    IF mode # "some" THEN {mode = "all"}
    ELSE IF p \in Mmsis THEN {fleet} ELSE Answers(subs, p, FALSE)

\* A control sent whenever it changes.
Instant(m, s, id) ==
    \/ m = "all"
    \/ m = "some" /\ Answers(s, id, FALSE) = {TRUE}

\* Paths whose every delta reaches the client.
Followed(m, s, f) == {id \in ControlIds : Instant(m, s, id)}
                     \cup (IF m = "all" \/ (m = "some" /\ f) THEN Mmsis ELSE {})

\* subscribe and desubscribe go through the entries in order and give up at a
\* control that does not exist: the entries that count are those before it.
Counted(req) ==
    {i \in DOMAIN req.entries : \A j \in 1..i : req.entries[j].on # "unknown"}

\* The entries that count for a control under a key, and for the vessels.
About(req, k, id) ==
    {i \in Counted(req) : /\ req.entries[i].on = "controls"
                          /\ req.entries[i].key = k
                          /\ id \in req.entries[i].matches}

AboutVessels(req) == {i \in Counted(req) : req.entries[i].on = "vessels"}

\* ActiveSubscriptions.paths after a message: the last entry about a control is
\* the one it leaves.
SubsAfter(req) ==
    [k \in Keys |-> [id \in ControlIds |->
        LET about == About(req, k, id)
        IN IF about = {} THEN subs[k][id]
           ELSE IF req.kind = "desubscribe" THEN NoSub
           ELSE LET e == req.entries[CHOOSE i \in about : \A j \in about : j <= i]
                IN [policy |-> e.policy, period |-> e.period,
                    min_period |-> e.min_period, stamped |-> FALSE]]]

\* vessel_subscriptions after a message.
FleetAfter(req) ==
    IF AboutVessels(req) = {} THEN fleet ELSE req.kind = "subscribe"

\* What the client has asked for after a message, which ends the time when it had
\* asked for all: its entries count up to the first that names a control that does
\* not exist.
AskedAfter(req) ==
    LET pairs == UNION {LET e == req.entries[i]
                        IN IF e.on = "vessels" THEN {"*"} \X Mmsis
                           ELSE {e.key} \X e.matches : i \in Counted(req)}
        before == {pair \in asked : pair[1] \in Keys}
    IN IF req.kind = "subscribe" THEN before \cup pairs ELSE before \ pairs

ClientReady ==
    /\ stage = "streaming"
    /\ task["client"].stage = "idle"

\* What the stream sends of a path: a control or a vessel.
Current(p) == IF p \in ControlIds THEN control[p].value ELSE vessels[p]

\* The client receives the current state of these paths.
ShowCurrent(sent) ==
    view' = [p \in Paths |-> IF p \in sent THEN Current(p) ELSE view[p]]

ClientUnchanged == UNCHANGED <<controlVars, aisVars, producers, active>>

\* ws_signalk_delta takes its receiver before anything else.
Join(m) ==
    /\ stage = "away"
    /\ stage' = "joined"
    /\ joined' = TRUE
    /\ mode' = m
    /\ asked' = IF m = "all" THEN {"all"} \X Paths ELSE {}
    /\ UNCHANGED <<channel, lagged, missed, subs, fleet, meta_sent, view, since, awaiting>>
    /\ ClientUnchanged

\* Its first message: the meta data, and the values of every control when it asked
\* for all and for cached values.
Snapshot(send_cached) ==
    /\ stage = "joined"
    /\ stage' = "streaming"
    /\ meta_sent' = active
    /\ LET sent == IF send_cached /\ mode = "all" /\ active THEN ControlIds ELSE {}
       IN ShowCurrent(sent) /\ since' = sent
    /\ UNCHANGED <<channelVars, mode, subs, fleet, asked, awaiting>>
    /\ ClientUnchanged

\* Mutant: a receiver that lagged is thrown away for a new one.
ReceiveRenews ==
    /\ ClientReady
    /\ lagged \/ channel # <<>>
    /\ lagged' = FALSE
    /\ IF lagged THEN channel' = <<>> /\ UNCHANGED <<view, since, awaiting>>
       ELSE LET got == {Head(channel).path} \cap Followed(mode, subs, fleet)
            IN /\ channel' = Tail(channel)
               /\ view' = [p \in Paths |-> IF p \in got THEN Head(channel).value ELSE view[p]]
               /\ since' = since \cup got
               /\ awaiting' = awaiting \ got
    /\ UNCHANGED <<joined, missed, stage, mode, subs, fleet, meta_sent, asked>>
    /\ ClientUnchanged

\* A delta arrives: apply_subscriptions, then add_meta_from_updates.
Receive ==
    /\ ClientReady
    /\ UNCHANGED <<joined, missed, stage, mode, fleet, asked>>
    /\ ClientUnchanged
    /\ \/ /\ lagged
          /\ lagged' = FALSE
          /\ UNCHANGED <<channel, subs, meta_sent, view, since, awaiting>>
       \/ /\ ~lagged /\ channel # <<>>
          /\ channel' = Tail(channel)
          /\ LET p == Head(channel).path
             IN \E answer \in Passes(p) :
                /\ subs' = IF mode = "some" /\ p \in ControlIds
                           THEN Stamp(subs, p, FALSE, answer) ELSE subs
                /\ view' = IF answer THEN [view EXCEPT ![p] = Head(channel).value] ELSE view
                /\ meta_sent' = (meta_sent \/ (answer /\ p \in ControlIds /\ active))
                /\ since' = IF answer THEN since \cup ({p} \cap Followed(mode, subs, fleet))
                            ELSE since
                /\ awaiting' = IF answer THEN awaiting \ {p} ELSE awaiting
          /\ UNCHANGED lagged

\* handle_subscription: subscribe, send_all_subscribed, send_all_ais_vessels.
\* An error ends it after the entries that came before.
HandleSubscription(req) ==
    /\ ClientReady
    /\ req.kind = "subscribe"
    /\ LET ok == Counted(req) = DOMAIN req.entries
           new == SubsAfter(req)
           tried == IF ok /\ active THEN ControlIds ELSE {}
           newFleet == ok /\ FleetAfter(req) /\ ~fleet
       IN /\ newFleet => ~WriteLocked
          /\ fleet' = FleetAfter(req)
          /\ \E passed \in SUBSET tried :
               /\ \A id \in tried : (id \in passed) \in Answers(new, id, TRUE)
               /\ subs' = [k \in Keys |-> [id \in ControlIds |->
                            IF id \in tried THEN Stamp(new, id, TRUE, id \in passed)[k][id]
                            ELSE new[k][id]]]
               /\ LET sent == passed \cup (IF newFleet THEN known ELSE {})
                      followed == Followed("some", subs', fleet')
                  IN /\ ShowCurrent(sent)
                     /\ since' = (since \cup sent) \cap followed
                     /\ awaiting' = (awaiting \cap followed) \ sent
    /\ mode' = "some"
    /\ asked' = AskedAfter(req)
    /\ UNCHANGED <<channelVars, stage, meta_sent>>
    /\ ClientUnchanged

\* Mutant: a client that had everything keeps everything.
DesubscribeKeepsMode(req) ==
    /\ ClientReady
    /\ req.kind = "desubscribe"
    /\ subs' = SubsAfter(req)
    /\ fleet' = FleetAfter(req)
    /\ asked' = AskedAfter(req)
    /\ UNCHANGED <<channelVars, mode, stage, meta_sent, view, since, awaiting>>
    /\ ClientUnchanged

\* A message to desubscribe.
HandleDesubscription(req) ==
    /\ ClientReady
    /\ req.kind = "desubscribe"
    /\ subs' = SubsAfter(req)
    /\ fleet' = FleetAfter(req)
    /\ since' = since \cap Followed("some", subs', fleet')
    /\ awaiting' = awaiting \cap Followed("some", subs', fleet')
    /\ mode' = "some"
    /\ asked' = AskedAfter(req)
    /\ UNCHANGED <<channelVars, stage, meta_sent, view>>
    /\ ClientUnchanged

\* The client closes its websocket and may come back.
Leave ==
    /\ ClientReady
    /\ stage' = "away"
    /\ joined' = FALSE
    /\ channel' = <<>>
    /\ lagged' = FALSE
    /\ missed' = {}
    /\ mode' = "none"
    /\ subs' = NoSubs
    /\ fleet' = FALSE
    /\ meta_sent' = FALSE
    /\ view' = [p \in Paths |-> Unseen]
    /\ since' = {}
    /\ asked' = {}
    /\ awaiting' = {}
    /\ ClientUnchanged

-------------------------------------------------------------------------------

\* SharedRadars::update once the ranges are known.
Activate ==
    /\ "ais" \notin producers
    /\ active' = TRUE
    /\ UNCHANGED <<channelVars, controlVars, aisVars, producers, clientVars, awaiting>>

Elsewhere == UNCHANGED <<aisVars, producers, active, clientVars>>

\* A write that was stored goes on.
WriteStep ==
    /\ \E w \in Tasks : ReadUnits(w) \/ FilterRanges(w) \/ SendToAllClients(w)
    /\ awaiting' = IF lagged' THEN {} ELSE awaiting
    /\ Elsewhere

ReportStep ==
    /\ "radar" \in producers
    /\ \E id \in Commands : Report(id)
    /\ UNCHANGED awaiting
    /\ Elsewhere

RadarStep ==
    /\ "radar" \in producers
    /\ RejectControlUpdate \/ DeviceChanges
    /\ UNCHANGED awaiting
    /\ Elsewhere

\* From here on the client is owed a delta of the control.
CommandStep ==
    /\ "radar" \in producers
    /\ ProcessControlUpdate
    /\ awaiting' = IF stage = "streaming"
                   THEN awaiting \cup ({Head(commands).id} \cap Followed(mode, subs, fleet))
                   ELSE awaiting
    /\ Elsewhere

\* The controls that can be written on this server.
Writable == (IF "radar" \in producers THEN Commands ELSE {})
            \cup (IF "web" \in producers THEN Internals ELSE {})

\* set_control_value, the REST request.
RestSets(id, v) ==
    /\ id \in Writable
    /\ ProcessClientRequest("rest", id, v)
    /\ UNCHANGED awaiting
    /\ Elsewhere

\* handle_control_request, the same on the websocket.
ClientSets(id, v) ==
    /\ id \in Writable
    /\ stage = "streaming"
    /\ ProcessClientRequest("client", id, v)
    /\ UNCHANGED awaiting
    /\ Elsewhere

AisStep ==
    /\ "ais" \in producers
    /\ \/ \E m \in Mmsis, p \in Positions \cup {Nothing} : UpdateVessel(m, p)
       \/ \E m \in Mmsis : VesselAges(m)
       \/ FindDue \/ RemoveDue \/ AnnounceDue
       \/ FindLost \/ MarkLost
    /\ UNCHANGED <<controlVars, producers, active, clientVars, awaiting>>

Next ==
    \/ Activate
    \/ WriteStep
    \/ ReportStep
    \/ RadarStep
    \/ CommandStep
    \/ AisStep
    \/ \E m \in {"none", "all"} : Join(m)
    \/ \E cached \in BOOLEAN : Snapshot(cached)
    \/ Receive
    \/ \E req \in Requests : HandleSubscription(req) \/ HandleDesubscription(req)
    \/ \E id \in ControlIds, v \in Values : RestSets(id, v) \/ ClientSets(id, v)
    \/ Leave

\* The producers share nothing but the channel, and are taken one at a time.
Init ==
    /\ ChannelInit
    /\ ControlsInit
    /\ AisInit
    /\ \/ producers = {"radar"}
       \/ /\ producers \in {{"web"}, {"ais"}}
          /\ \A id \in Commands : device[id] = CHOOSE v \in Values : TRUE
    /\ active = FALSE
    /\ stage = "away"
    /\ mode = "none"
    /\ subs = NoSubs
    /\ fleet = FALSE
    /\ meta_sent = FALSE
    /\ view = [p \in Paths |-> Unseen]
    /\ since = {}
    /\ asked = {}
    /\ awaiting = {}

Spec == Init /\ [][Next]_vars

\* A task that has started a write goes on with it, the radar keeps reporting,
\* and the websocket task keeps reading its channel.
FairSpec == Spec /\ WF_vars(WriteStep) /\ WF_vars(ReportStep) /\ WF_vars(Receive)

-------------------------------------------------------------------------------

Subscriptions ==
    {NoSub} \cup [policy : {"instant", "ideal", "fixed"}, period : BOOLEAN,
                  min_period : BOOLEAN, stamped : BOOLEAN]

\* What a delta can say of a path.
Shown == Values \cup {Unset} \cup Positions \cup {Nothing, Lost}

\* Types; a receiver never holds more than the channel's capacity.
TypeOK ==
    /\ joined = (stage # "away")
    /\ channel \in Seq([path : Paths, value : Shown])
    /\ Len(channel) <= ChannelCapacity
    /\ control \in [ControlIds -> [value : Values \cup {Unset}, needs_refresh : BOOLEAN]]
    /\ filter \in Values
    /\ Len(commands) <= MaxCommands
    /\ subs \in [Keys -> [ControlIds -> Subscriptions]]
    /\ view \in [Paths -> Shown \cup {Unseen}]

\* A writer has its copy of the control.
Unsettled(id) == \E w \in Tasks : Underway(w, id)

\* What the client shows of a control it follows is what the server has, once
\* nothing is under way: whatever the order of its request, its snapshot, its
\* backlog and the two halves of a write (set and send_to_all_clients).  Not so
\* when a message was lost to lag, or when two writes overlapped.
ControlsAreFresh ==
    \A id \in since \cap ControlIds :
        \/ id \in missed \cup overlapped
        \/ InChannel(id) \/ Unsettled(id)
        \/ view[id] = control[id].value

\* The same for vessels; one that timed out is shown as lost, and stays so until
\* something is known of it again (flush_pending_broadcasts, check_timeouts).
VesselsAreFresh ==
    \A m \in since \cap Mmsis :
        \/ m \in missed \cup pending \cup flusher.due
        \/ InChannel(m)
        \/ m \in known /\ vessels[m] = Nothing
        \/ view[m] = IF m \in known THEN vessels[m] ELSE Lost

\* The ranges a client may choose from are those of the units it chose, once the
\* write of the units is done (update_valid_ranges reads and filters under
\* different locks).
RangesAreFresh ==
    \/ RangeUnits \in overlapped
    \/ Unsettled(RangeUnits)
    \/ filter = control[RangeUnits].value

\* The client's picture of controls, ranges and vessels ends up as the server's.
ViewIsFresh == TypeOK /\ ControlsAreFresh /\ RangesAreFresh /\ VesselsAreFresh

\* The client receives nothing it did not ask for, after any history of
\* overlapping, failing and repeated messages (subscribe, desubscribe,
\* is_subscribed_path).
NothingUnasked ==
    [][\A p \in Paths :
          (view'[p] # view[p] /\ stage' = "streaming") => \E pair \in asked' : pair[2] = p]_vars

\* A client that follows a control hears of it after every command the radar took,
\* even one that changed nothing (set_refresh), unless lag or its own messages
\* intervene.
CommandIsEchoed ==
    \A id \in Commands : (id \in awaiting) ~> (id \notin awaiting)
===============================================================================
