---------------------------- MODULE MCSignalKStream ----------------------------
(* An instance of SignalKStream for TLC. *)
EXTENDS SignalKStream

On(key, ids, policy, limited) ==
    [on |-> "controls", key |-> key, matches |-> ids, policy |-> policy,
     period |-> policy = "fixed", min_period |-> limited]

Other(what) ==
    [on |-> what, key |-> "*", matches |-> {}, policy |-> "instant",
     period |-> FALSE, min_period |-> FALSE]

\* All controls of this radar at once; some of any radar with a rate limit, some at
\* fixed times, and the vessels; a message that fails half way; and the way back.
FewRequests ==
    {[kind |-> "subscribe", entries |-> <<On(Key, ControlIds, "instant", FALSE)>>],
     [kind |-> "subscribe", entries |-> <<On("*", Commands, "ideal", TRUE),
                                          On("*", Internals, "fixed", FALSE), Other("vessels")>>],
     [kind |-> "subscribe", entries |-> <<Other("vessels"), Other("unknown"),
                                          On(Key, Commands, "instant", FALSE)>>],
     [kind |-> "desubscribe", entries |-> <<On(Key, ControlIds, "instant", FALSE)>>],
     [kind |-> "desubscribe", entries |-> <<Other("vessels")>>]}
=============================================================================
