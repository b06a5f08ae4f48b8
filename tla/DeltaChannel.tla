----------------------------- MODULE DeltaChannel -----------------------------
(* The tokio broadcast channel that carries Signal K deltas from every         *)
(* producer to one websocket client: Radars.sk_client_tx and the receiver that *)
(* ws_signalk_delta holds.  A slow receiver loses the oldest messages and is   *)
(* told so once.                                                               *)
EXTENDS Naturals, Sequences

CONSTANT ChannelCapacity  \* SK_CLIENT_CHANNEL_CAPACITY, 128 in the code

ASSUME CapacityAssumption == ChannelCapacity \in Nat \ {0}

VARIABLES
    joined,   \* the client holds a receiver
    channel,  \* the deltas it has not read: [path, value] records
    lagged,   \* the next read returns Lagged
    missed    \* history: paths whose latest delta was overwritten unread

channelVars == <<joined, channel, lagged, missed>>

\* broadcast::Sender::send with one receiver or none.
Broadcast(delta) ==
    /\ UNCHANGED joined
    /\ IF ~joined
       THEN UNCHANGED <<channel, lagged, missed>>
       ELSE IF Len(channel) < ChannelCapacity
       THEN /\ channel' = Append(channel, delta)
            /\ missed' = missed \ {delta.path}
            /\ UNCHANGED lagged
       ELSE /\ channel' = Append(Tail(channel), delta)
            /\ lagged' = TRUE
            /\ missed' = (missed \cup {Head(channel).path})
                           \ {channel'[i].path : i \in DOMAIN channel'}

InChannel(path) == \E i \in DOMAIN channel : channel[i].path = path

ChannelInit ==
    /\ joined = FALSE
    /\ channel = <<>>
    /\ lagged = FALSE
    /\ missed = {}
===============================================================================
