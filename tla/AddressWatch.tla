----------------------------- MODULE AddressWatch -----------------------------
(* What the tasks of a session share: the request to shut down, and the        *)
(* channel tx_ip_change on which the address watcher tells them that the       *)
(* addresses of this machine have changed.                                     *)
EXTENDS Naturals, FiniteSets

CONSTANTS
    Addresses,    \* IPv4 addresses this machine may have
    MaxChanges    \* bound: changes of the addresses

ASSUME ChangesAssumption == MaxChanges \in Nat

Listeners == {"locator", "navdata"}

VARIABLES
    shutdown,     \* shutdown has been requested
    nics,         \* the addresses this machine has now
    changed,      \* changes so far
    unannounced,  \* changes the watcher has not read yet
    unread        \* messages a listener has not read: 0, 1, or 2 for "lagged"

watchVars == <<shutdown, nics, changed, unannounced, unread>>

WatchInit ==
    /\ shutdown = FALSE
    /\ nics \in SUBSET Addresses
    /\ changed = 0
    /\ unannounced = 0
    /\ unread = [l \in Listeners |-> 0]

RequestShutdown ==
    /\ ~shutdown
    /\ shutdown' = TRUE
    /\ UNCHANGED <<nics, changed, unannounced, unread>>

\* The system gains or loses addresses, and has the given ones now.
AddressesChange(now) ==
    /\ changed < MaxChanges
    /\ now # nics
    /\ nics' = now
    /\ changed' = changed + 1
    /\ unannounced' = unannounced + 1
    /\ UNCHANGED <<shutdown, unread>>

\* The watcher tells the listeners there are.  The channel holds one message; a
\* second one makes its listener lag.
wait_for_ip_addr_change(there) ==
    /\ ~shutdown
    /\ unannounced > 0
    /\ unannounced' = unannounced - 1
    /\ unread' = [l \in Listeners |-> IF l \notin there \/ unread[l] = 2 THEN unread[l]
                                  ELSE unread[l] + 1]
    /\ UNCHANGED <<shutdown, nics, changed>>

\* A listener that lagged is told so, and finds the last message next time.
ReadChange(l) == unread' = [unread EXCEPT ![l] = IF @ = 2 THEN 1 ELSE 0]
===============================================================================
