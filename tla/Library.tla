------------------------------- MODULE Library -------------------------------
(* What the recordings promise, without channels, tasks, requests or           *)
(* temporary files: a name leads to a recording; a recording is open from its  *)
(* start, grows while it is open, and is sealed or cut short when it closes.   *)
(* A name that is taken is given to another recording only by an import, whose *)
(* name was free when it began.                                                *)
EXTENDS Naturals

CONSTANTS Names, Recordings, Nothing

VARIABLES
    shelf,        \* [Names -> Recordings or Nothing]
    volume,       \* [Recordings -> [made, frames, sealed]]
    open,         \* recordings being made
    stopping,     \* open recordings that have been told to stop
    offered       \* names for which an import has begun

vars == <<shelf, volume, open, stopping, offered>>

Unmade == [made |-> FALSE, frames |-> 0, sealed |-> FALSE]

Init ==
    /\ shelf = [n \in Names |-> Nothing]
    /\ volume = [r \in Recordings |-> Unmade]
    /\ open = {} /\ stopping = {} /\ offered = {}

Begin(n, r) ==
    /\ shelf[n] = Nothing /\ ~volume[r].made
    /\ open = stopping
    /\ shelf' = [shelf EXCEPT ![n] = r]
    /\ volume' = [volume EXCEPT ![r] = [made |-> TRUE, frames |-> 0, sealed |-> FALSE]]
    /\ open' = open \cup {r}
    /\ UNCHANGED <<stopping, offered>>

Grow(r) ==
    /\ r \in open
    /\ volume' = [volume EXCEPT ![r].frames = @ + 1]
    /\ UNCHANGED <<shelf, open, stopping, offered>>

Stop(r) ==
    /\ r \in open
    /\ stopping' = stopping \cup {r}
    /\ UNCHANGED <<shelf, volume, open, offered>>

Close(r) ==
    /\ r \in open
    /\ \E whole \in BOOLEAN : volume' = [volume EXCEPT ![r].sealed = whole]
    /\ open' = open \ {r}
    /\ stopping' = stopping \ {r}
    /\ UNCHANGED <<shelf, offered>>

Remove(n) ==
    /\ shelf[n] # Nothing
    /\ shelf' = [shelf EXCEPT ![n] = Nothing]
    /\ UNCHANGED <<volume, open, stopping, offered>>

Move(n, m) ==
    /\ shelf[n] # Nothing /\ shelf[m] = Nothing
    /\ shelf' = [shelf EXCEPT ![n] = Nothing, ![m] = shelf[n]]
    /\ UNCHANGED <<volume, open, stopping, offered>>

Offer(n) ==
    /\ shelf[n] = Nothing
    /\ offered' = offered \cup {n}
    /\ UNCHANGED <<shelf, volume, open, stopping>>

Withdraw(n) ==
    /\ offered' = offered \ {n}
    /\ UNCHANGED <<shelf, volume, open, stopping>>

\* Another import of the name may still be under way.
Import(n, r) ==
    /\ n \in offered /\ ~volume[r].made
    /\ shelf' = [shelf EXCEPT ![n] = r]
    /\ volume' = [volume EXCEPT ![r] = [made |-> TRUE, frames |-> 0, sealed |-> TRUE]]
    /\ offered' \in {offered, offered \ {n}}
    /\ UNCHANGED <<open, stopping>>

\* The server ends: recordings that were open stay as they are.
Restart ==
    /\ open' = {} /\ stopping' = {} /\ offered' = {}
    /\ UNCHANGED <<shelf, volume>>

Next ==
    \/ \E n \in Names : Remove(n) \/ Offer(n) \/ Withdraw(n) \/ \E m \in Names : Move(n, m)
    \/ \E r \in Recordings :
          \/ Grow(r) \/ Stop(r) \/ Close(r)
          \/ \E n \in Names : Begin(n, r) \/ Import(n, r)
    \/ Restart

Safety == Init /\ [][Next]_vars

\* A recording that has been told to stop closes.
Spec ==
    /\ Safety
    /\ \A r \in Recordings : WF_vars(r \in stopping /\ Close(r))
===============================================================================
