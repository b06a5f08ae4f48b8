------------------------------- MODULE Session -------------------------------
(* The tasks of a session next to the receivers of the radars: the locator,    *)
(* the navigation data, the tasks that keep the settings, and those that make  *)
(* and keep recordings.  The first two share the request to shut down and the  *)
(* channel of address changes; the others share nothing.  So each is looked at *)
(* while the others rest.                                                      *)
EXTENDS Locator, NavData, Persistence, Recorder

VARIABLE focus    \* the task that runs in this behaviour

vars == <<focus, watchVars, locatorVars, navVars, persistenceVars, recorderVars>>

\* A task that rests has one initial state.
Init ==
    /\ focus \in {"locator", "navdata", "settings", "recordings"}
    /\ WatchInit
    /\ LocatorInit
    /\ NavInit
    /\ PersistenceInit
    /\ RecorderInit
    /\ focus # "locator" => args = [multiple_radar |-> FALSE, interface |-> FALSE]
    /\ focus # "navdata" => /\ source = [how |-> "tcp", nmea0183_mode |-> FALSE, pass_ais |-> FALSE]
                            /\ ~service
    /\ focus # "locator" => nics = {}

\* Which addresses there are matters to the locator alone.
Watch ==
    \/ RequestShutdown
    \/ \E now \in IF focus = "locator" THEN SUBSET Addresses ELSE {{}, Addresses} :
          AddressesChange(now)
    \/ wait_for_ip_addr_change({focus})

Next ==
    \/ /\ focus \in {"locator", "navdata"}
       /\ Watch
       /\ UNCHANGED <<focus, locatorVars, navVars, persistenceVars, recorderVars>>
    \/ /\ focus = "locator"
       /\ LocatorNext
       /\ UNCHANGED <<focus, navVars, persistenceVars, recorderVars>>
    \/ /\ focus = "navdata"
       /\ NavNext
       /\ UNCHANGED <<focus, locatorVars, persistenceVars, recorderVars>>
    \/ /\ focus = "settings"
       /\ PersistenceNext
       /\ UNCHANGED <<focus, watchVars, locatorVars, navVars, recorderVars>>
    \/ /\ focus = "recordings"
       /\ RecorderNext
       /\ UNCHANGED <<focus, watchVars, locatorVars, navVars, persistenceVars>>

\* The runtime runs every task that can go on: the locator, the search for a
\* service (once a second), and the tasks that write recordings.
Fairness ==
    /\ WF_<<watchVars, locatorVars>>(focus = "locator" /\ LocatorGoesOn)
    /\ WF_<<watchVars, navVars>>(focus = "navdata" /\ NavGoesOn)
    /\ \A f \in Files : WF_recorderVars(focus = "recordings" /\ recording_task(f))

Spec == Init /\ [][Next]_vars
FairSpec == Spec /\ Fairness

Ended == CASE focus = "locator" -> stage \in {"ended", "failed"}
           [] focus = "navdata" -> navdata = "ended"
           [] OTHER -> TRUE

\* The locator and the navigation task end when they are asked to, wherever they
\* are: searching, connected, storing a position, or without mDNS (run of both,
\* where receive_loop returns Ok at a shutdown and find_service sees it).
SessionEnds == shutdown ~> Ended
===============================================================================
