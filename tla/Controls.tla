------------------------------- MODULE Controls -------------------------------
(* The controls of one radar (SharedControls) and the tasks that write them:   *)
(* the radar's report task, and the web tasks that serve client requests.  A   *)
(* write is made under the lock; the copy it made is broadcast after the lock  *)
(* is released, so two writers of one control can broadcast in either order.   *)
EXTENDS DeltaChannel, FiniteSets

CONSTANTS
    Commands,     \* controls with ControlDestination::Command
    Internals,    \* controls with ControlDestination::Internal
    RangeUnits,   \* the Internal control that also filters the valid ranges
    Values,       \* what a control can be set to
    MaxCommands,  \* capacity of control_update_tx, 32 in the code
    Unset         \* the value of a control that no report has set

ASSUME ControlsAssumption ==
    /\ RangeUnits \in Internals
    /\ Commands \cap Internals = {}
    /\ Values # {} /\ Unset \notin Values
    /\ MaxCommands \in Nat

ControlIds == Commands \cup Internals

\* Threads that write controls: the receiver of the radar, a REST request, and
\* the websocket client's own task.
Tasks == {"radar", "rest", "client"}

VARIABLES
    control,      \* [ControlIds -> [value, needs_refresh]]
    filter,       \* the units Range's valid values were last filtered by
    task,         \* [Tasks -> [stage, id, copy, units]]: a write on its way
    commands,     \* requests in control_update_tx
    device,       \* what the radar itself has: [Commands -> Values]
    overlapped    \* history: controls written while another write was on its way

controlVars == <<control, filter, task, commands, device, overlapped>>

Idle == [stage |-> "idle"]

Underway(w, id) == task[w].stage # "idle" /\ task[w].id = id

\* Mutant: a request for a refresh is forgotten.
SetIgnoresRefresh(c, value) ==
    c.value # value

\* Control::set: tells whether the control changed or must be sent again.
SetChanges(c, value) ==
    c.value # value \/ c.needs_refresh

\* SharedControls::set and set_value for writer w: the first half, which holds
\* the lock.  Only RangeUnits has more to do before the broadcast.
Set(w, id, value) ==
    /\ task[w].stage = "idle"
    /\ IF SetChanges(control[id], value)
       THEN /\ control' = [control EXCEPT ![id] = [value |-> value, needs_refresh |-> FALSE]]
            /\ task' = [task EXCEPT ![w] =
                 [stage |-> IF id = RangeUnits THEN "read" ELSE "send",
                  id |-> id, copy |-> value, units |-> Unset]]
            /\ overlapped' = IF \E other \in Tasks : Underway(other, id)
                             THEN overlapped \cup {id}
                             ELSE overlapped \ {id}
       ELSE UNCHANGED <<control, task, overlapped>>

\* update_valid_ranges, first half: range_units() reads the control.
ReadUnits(w) ==
    /\ task[w].stage = "read"
    /\ task' = [task EXCEPT ![w].stage = "filter",
                            ![w].units = control[RangeUnits].value]
    /\ UNCHANGED <<control, filter, commands, device, overlapped>>
    /\ UNCHANGED channelVars

\* Mutant: the ranges are left as they were.
KeepRanges(w) ==
    /\ task[w].stage = "filter"
    /\ task' = [task EXCEPT ![w].stage = "send"]
    /\ UNCHANGED <<control, filter, commands, device, overlapped>>
    /\ UNCHANGED channelVars

\* update_valid_ranges, second half: the ranges are filtered by what was read.
FilterRanges(w) ==
    /\ task[w].stage = "filter"
    /\ filter' = task[w].units
    /\ task' = [task EXCEPT ![w].stage = "send"]
    /\ UNCHANGED <<control, commands, device, overlapped>>
    /\ UNCHANGED channelVars

\* send_to_all_clients: the copy goes out.
SendToAllClients(w) ==
    /\ task[w].stage = "send"
    /\ Broadcast([path |-> task[w].id, value |-> task[w].copy])
    /\ task' = [task EXCEPT ![w] = Idle]
    /\ UNCHANGED <<control, filter, commands, device, overlapped>>

\* process_client_request of a valid value, on behalf of a client served by w.
\* An invalid one, or one for a read-only control, returns an error and changes
\* nothing.
ProcessClientRequest(w, id, value) ==
    \/ /\ id \in Internals
       /\ Set(w, id, value)
       /\ UNCHANGED <<filter, commands, device>>
       /\ UNCHANGED channelVars
    \/ /\ id \in Commands
       /\ task[w].stage = "idle"
       /\ Len(commands) < MaxCommands
       /\ commands' = Append(commands, [id |-> id, value |-> value])
       /\ UNCHANGED <<control, filter, task, device, overlapped>>
       /\ UNCHANGED channelVars

\* process_control_update for a Command, in the radar's task: the radar takes
\* the value or keeps its own, and either way its next report is to be sent on.
ProcessControlUpdate ==
    /\ task["radar"].stage = "idle"
    /\ commands # <<>>
    /\ LET cv == Head(commands)
       IN /\ \/ device' = [device EXCEPT ![cv.id] = cv.value]
             \/ device' = device
          /\ control' = [control EXCEPT ![cv.id].needs_refresh = TRUE]
    /\ commands' = Tail(commands)
    /\ UNCHANGED <<filter, task, overlapped>>
    /\ UNCHANGED channelVars

\* The same when set_control fails: an error for the client, nothing else.
RejectControlUpdate ==
    /\ task["radar"].stage = "idle"
    /\ commands # <<>>
    /\ commands' = Tail(commands)
    /\ UNCHANGED <<control, filter, task, device, overlapped>>
    /\ UNCHANGED channelVars

\* The radar changes a value by itself, or on another display's command.
DeviceChanges ==
    /\ \E id \in Commands, v \in Values : device' = [device EXCEPT ![id] = v]
    /\ UNCHANGED <<control, filter, task, commands, overlapped>>
    /\ UNCHANGED channelVars

\* A report of the value.
Report(id) ==
    /\ Set("radar", id, device[id])
    /\ UNCHANGED <<filter, commands, device>>
    /\ UNCHANGED channelVars

ControlsInit ==
    /\ control = [id \in ControlIds |->
                    [value |-> IF id \in Commands THEN Unset ELSE CHOOSE v \in Values : TRUE,
                     needs_refresh |-> FALSE]]
    /\ filter = control[RangeUnits].value
    /\ task = [w \in Tasks |-> Idle]
    /\ commands = <<>>
    /\ device \in [Commands -> Values]
    /\ overlapped = {}
===============================================================================
