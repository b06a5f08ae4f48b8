------------------------------- MODULE Locator -------------------------------
(* The task that finds radars: it opens sockets on every address of this       *)
(* machine, waits for packets, timers, changes and requests, and starts anew   *)
(* when the addresses change.  Opening the sockets and subscribing to changes  *)
(* are two steps; the watcher runs in a task of its own.                       *)
EXTENDS AddressWatch

CONSTANT
    MaxAsked      \* capacity of tx_interface_request, 10 in the code

VARIABLES
    args,         \* [multiple_radar, interface]: the options that matter here
    stage,        \* "enumerate", "subscribe", "listen"; "ended", "failed"
    sockets,      \* addresses with a locator socket
    active_nic,   \* active_nic_addresses, which only grows
    have_active,  \* a radar with ranges is registered
    questions,        \* interface requests its handler has not read
    beacons,      \* where the last beacon requests went
    broken,       \* history: addresses whose socket failed since they were enumerated
    missed        \* history: a change was announced before the subscription

locatorVars == <<args, stage, sockets, active_nic, have_active, questions, beacons,
                 broken, missed>>

LocatorInit ==
    /\ args \in [multiple_radar : BOOLEAN, interface : BOOLEAN]
    /\ stage = "enumerate"
    /\ sockets = {}
    /\ active_nic = {}
    /\ have_active = FALSE
    /\ questions = 0
    /\ beacons = {}
    /\ broken = {}
    /\ missed = FALSE

\* Without multiple_radar the search ends with the first radar.
Searching == args.multiple_radar \/ ~have_active

\* create_listen_sockets: those that cannot be opened are left out.  The system
\* may fail to list its addresses.  With an interface given, that, or never having
\* had an address, ends the locator.
create_listen_sockets ==
    /\ stage = "enumerate"
    /\ missed' = FALSE
    /\ IF ~Searching
       THEN /\ stage' = "subscribe"
            /\ sockets' = {}
            /\ broken' = {}
            /\ UNCHANGED active_nic
       ELSE \E listed \in {{}, nics} : \E opened \in SUBSET listed :
            /\ active_nic' = active_nic \cup listed
            /\ stage' = IF args.interface /\ (listed # nics \/ active_nic' = {})
                        THEN "failed" ELSE "subscribe"
            /\ sockets' = IF stage' = "failed" THEN {} ELSE opened
            /\ broken' = nics \ opened
    /\ UNCHANGED <<args, have_active, questions, beacons>>
    /\ UNCHANGED watchVars

\* The receivers of changes and of requests are new, and hold nothing.
Subscribe ==
    /\ stage = "subscribe"
    /\ stage' = "listen"
    /\ unread' = [unread EXCEPT !["locator"] = 0]
    /\ questions' = 0
    /\ missed' = (missed \/ unread["locator"] > 0)
    /\ UNCHANGED <<args, sockets, active_nic, have_active, beacons, broken>>
    /\ UNCHANGED <<shutdown, nics, changed, unannounced>>

\* Leaving the loop aborts its tasks and drops their receivers.
Leave(next) ==
    /\ stage' = next
    /\ unread' = [unread EXCEPT !["locator"] = 0]
    /\ questions' = 0
    /\ UNCHANGED <<shutdown, nics, changed, unannounced>>

LocatorShutdown ==
    /\ stage = "listen"
    /\ shutdown
    /\ Leave("ended")
    /\ UNCHANGED <<args, sockets, active_nic, have_active, beacons, broken, missed>>

\* Mutant: the task goes on with the sockets it has.
ChangeIgnored ==
    /\ stage = "listen"
    /\ unread["locator"] > 0
    /\ Leave(IF unread["locator"] = 1 THEN "subscribe" ELSE "ended")
    /\ UNCHANGED <<args, sockets, active_nic, have_active, beacons, broken, missed>>

\* A message starts the loop again; any error of the receiver counts as a
\* shutdown, the one that says it lagged included.
IPAddressChanged ==
    /\ stage = "listen"
    /\ unread["locator"] > 0
    /\ Leave(IF unread["locator"] = 1 THEN "enumerate" ELSE "ended")
    /\ UNCHANGED <<args, sockets, active_nic, have_active, beacons, broken, missed>>

\* The 2 and 20 second timer: beacon requests on all addresses ever active.
\* With --transmit this step and the next also ask every radar to transmit
\* (request_transmit_all), a request like a client's, which is not followed here.
Timeout ==
    /\ stage = "listen"
    /\ beacons' = active_nic
    /\ UNCHANGED <<args, stage, sockets, active_nic, have_active, questions, broken, missed>>
    /\ UNCHANGED watchVars

\* A packet, which may complete a radar.  With a radar found the loop starts
\* anew without sockets, unless there may be more.
LocatorPacket ==
    /\ stage = "listen"
    /\ sockets # {}
    /\ have_active' \in {have_active, TRUE}
    /\ IF args.multiple_radar \/ ~have_active'
       THEN UNCHANGED <<stage, questions, watchVars>>
       ELSE Leave("enumerate")
    /\ UNCHANGED <<args, sockets, active_nic, beacons, broken, missed>>

\* A receive error is logged, and its task is not started again.
ReceiveError ==
    /\ stage = "listen"
    /\ \E a \in sockets : sockets' = sockets \ {a} /\ broken' = broken \cup {a}
    /\ UNCHANGED <<args, stage, active_nic, have_active, questions, beacons, missed>>
    /\ UNCHANGED watchVars

\* get_interfaces: a client asks; without a receiver it has its answer at once.
get_interfaces ==
    /\ stage = "listen"
    /\ questions <= MaxAsked
    /\ questions' = questions + 1
    /\ UNCHANGED <<args, stage, sockets, active_nic, have_active, beacons, broken, missed>>
    /\ UNCHANGED watchVars

\* The handler answers one request and subscribes anew, which drops the others:
\* their clients get the empty answer.  Having lagged counts as a shutdown.
InterfaceRequest ==
    /\ stage = "listen"
    /\ questions > 0
    /\ IF questions > MaxAsked THEN Leave("ended")
       ELSE questions' = 0 /\ UNCHANGED <<stage, watchVars>>
    /\ UNCHANGED <<args, sockets, active_nic, have_active, beacons, broken, missed>>

LocatorNext ==
    \/ create_listen_sockets
    \/ Subscribe
    \/ LocatorShutdown
    \/ IPAddressChanged
    \/ Timeout
    \/ LocatorPacket
    \/ ReceiveError
    \/ get_interfaces
    \/ InterfaceRequest

\* What the task does of its own accord.
LocatorGoesOn == create_listen_sockets \/ Subscribe \/ LocatorShutdown

\* While it searches, the locator listens on every address this machine has,
\* failed sockets apart, once it has read all changes; only a change announced
\* after create_listen_sockets and before the subscription escapes it ("We will
\* get here again when the IP address change message causes the main loop to
\* break").
ListensEverywhere ==
    (/\ stage = "listen"
     /\ Searching
     /\ unannounced = 0
     /\ unread["locator"] = 0
     /\ ~missed) => sockets \cup broken = nics
===============================================================================
