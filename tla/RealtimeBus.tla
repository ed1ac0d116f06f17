---------------------------- MODULE RealtimeBus ----------------------------
(***************************************************************************)
(* Live tracking of drivers: the gateway publishes a driver's updates on   *)
(* the driver's channel, and the open streams of customers share one       *)
(* subscribing connection to Redis, made on first use.  Every await is the *)
(* end of a step.  The cached update a stream starts from is left out.     *)
(***************************************************************************)
EXTENDS Naturals, Sequences, FiniteSets

CONSTANTS
    Streams,         \* requests for live updates that may be open
    Tracked,         \* drivers, each with a channel
    Conns,           \* subscribing connections that may be made
    NoConn,
    MaxBusFaults     \* bound on connects and subscribes that fail

ASSUME NoConnAssumption == NoConn \notin Conns
ASSUME BusBoundAssumption == MaxBusFaults \in Nat

VARIABLES
    stream,              \* stream[s]: [phase, driver, conn]
    deserted,            \* streams whose client has left
    subscriberInstance,  \* the connection new calls use, or NoConn
    made,                \* connections that were opened
    commands,            \* commands[c]: commands on their way to Redis
    subscribed,          \* subscribed[c]: channels Redis has for the connection
    channelToListeners,  \* channelToListeners[d]: streams to hand messages to
    unheard,             \* history: channels for which a subscribe has failed
    busFaults

busVars == <<stream, deserted, subscriberInstance, made, commands, subscribed,
             channelToListeners, unheard, busFaults>>

BusInit ==
    /\ stream \in [Streams -> {[phase |-> "off", driver |-> d, conn |-> NoConn] : d \in Tracked}]
    /\ deserted = {}
    /\ subscriberInstance = NoConn
    /\ made = {}
    /\ commands = [c \in Conns |-> <<>>]
    /\ subscribed = [c \in Conns |-> {}]
    /\ channelToListeners = [d \in Tracked |-> {}]
    /\ unheard = {}
    /\ busFaults = 0

BusFault == busFaults < MaxBusFaults /\ busFaults' = busFaults + 1

Channel(s) == stream[s].driver
Goes(s, phase) == stream' = [stream EXCEPT ![s].phase = phase]
Takes(s, phase, c) == stream' = [stream EXCEPT ![s].phase = phase, ![s].conn = c]
Sends(s, kind) ==
    commands' = [commands EXCEPT ![stream[s].conn] =
                    Append(@, [kind |-> kind, stream |-> s])]

-----------------------------------------------------------------------------
(* A customer's stream.                                                    *)

\* Of a booking that has an assigned driver.  The connection is recorded only
\* once it is made: a call that comes before makes another.
OpenStream(s) ==
    /\ stream[s].phase = "off"
    /\ \/ /\ subscriberInstance # NoConn
          /\ Takes(s, "adding", subscriberInstance)
          /\ UNCHANGED made
       \/ /\ subscriberInstance = NoConn
          /\ \E c \in Conns \ made : Takes(s, "connecting", c) /\ made' = made \cup {c}
    /\ UNCHANGED <<deserted, subscriberInstance, commands, subscribed, channelToListeners,
                   unheard, busFaults>>

Connected(s) ==
    /\ stream[s].phase = "connecting"
    /\ subscriberInstance' = stream[s].conn
    /\ Goes(s, "adding")
    /\ UNCHANGED <<deserted, made, commands, subscribed, channelToListeners, unheard,
                   busFaults>>

ConnectFails(s) ==
    /\ stream[s].phase = "connecting" /\ BusFault
    /\ Goes(s, "failed")
    /\ UNCHANGED <<deserted, subscriberInstance, made, commands, subscribed,
                   channelToListeners, unheard>>

IsFirst(s) == channelToListeners[Channel(s)] = {}

SubscribeChannel(s) ==
    /\ stream[s].phase = "adding"
    /\ channelToListeners' = [channelToListeners EXCEPT ![Channel(s)] = @ \cup {s}]
    /\ IF IsFirst(s)
       THEN Sends(s, "subscribe") /\ Goes(s, "subscribing")
       ELSE Goes(s, "live") /\ UNCHANGED commands
    /\ UNCHANGED <<deserted, subscriberInstance, made, subscribed, unheard, busFaults>>

\* The handler of the client's leaving is set when the stream is live; of one
\* that leaves before nobody hears, and its listener stays.
ClientLeaves(s) ==
    /\ stream[s].phase \notin {"off", "failed"} /\ s \notin deserted
    /\ deserted' = deserted \cup {s}
    /\ IF stream[s].phase = "live" THEN Takes(s, "leaving", subscriberInstance)
                                   ELSE UNCHANGED stream
    /\ UNCHANGED <<subscriberInstance, made, commands, subscribed, channelToListeners,
                   unheard, busFaults>>

\* Mutant: the channel is given up whoever else listens.
IsLastAlways(s) == s \in Streams

IsLast(s) == channelToListeners[Channel(s)] \subseteq {s}

UnsubscribeChannel(s) ==
    /\ stream[s].phase = "leaving"
    /\ channelToListeners' = [channelToListeners EXCEPT ![Channel(s)] = @ \ {s}]
    /\ IF IsLast(s) THEN Sends(s, "unsubscribe") ELSE UNCHANGED commands
    /\ Goes(s, "over")
    /\ UNCHANGED <<deserted, subscriberInstance, made, subscribed, unheard, busFaults>>

-----------------------------------------------------------------------------
(* Redis, which executes a connection's commands in their order.           *)

Execute(c) ==
    /\ commands[c] # <<>>
    /\ LET s == Head(commands[c]).stream
       IN \/ /\ Head(commands[c]).kind = "subscribe"
             /\ subscribed' = [subscribed EXCEPT ![c] = @ \cup {Channel(s)}]
             /\ Goes(s, "live")
          \/ /\ Head(commands[c]).kind = "unsubscribe"
             /\ subscribed' = [subscribed EXCEPT ![c] = @ \ {Channel(s)}]
             /\ UNCHANGED stream
    /\ commands' = [commands EXCEPT ![c] = Tail(@)]
    /\ UNCHANGED <<deserted, subscriberInstance, made, channelToListeners, unheard, busFaults>>

\* The request fails and its listener stays: no later one is the first.
SubscribeFails(c) ==
    /\ commands[c] # <<>> /\ Head(commands[c]).kind = "subscribe" /\ BusFault
    /\ Goes(Head(commands[c]).stream, "failed")
    /\ unheard' = unheard \cup {Channel(Head(commands[c]).stream)}
    /\ commands' = [commands EXCEPT ![c] = Tail(@)]
    /\ UNCHANGED <<deserted, subscriberInstance, made, subscribed, channelToListeners>>

\* A driver's update reaches the stream: some connection has the channel, and
\* the stream is among its listeners.
Hears(s) ==
    /\ \E c \in Conns : Channel(s) \in subscribed[c]
    /\ s \in channelToListeners[Channel(s)]

BusNext ==
    \/ \E s \in Streams :
          \/ OpenStream(s) \/ Connected(s) \/ ConnectFails(s) \/ SubscribeChannel(s)
          \/ ClientLeaves(s) \/ UnsubscribeChannel(s)
    \/ \E c \in Conns : Execute(c) \/ SubscribeFails(c)

BusSpec == BusInit /\ [][BusNext]_busVars

-----------------------------------------------------------------------------
(* Properties.                                                             *)

Asked(d) ==
    \E c \in Conns : \E i \in DOMAIN commands[c] :
        commands[c][i].kind = "subscribe" /\ Channel(commands[c][i].stream) = d

\* A live stream hears the updates of its driver, whatever streams open and
\* close and whichever connections they were given, unless a subscribe for the
\* driver is still on its way or has failed once.
LiveIsHeard ==
    \A s \in Streams :
        stream[s].phase = "live" =>
            Hears(s) \/ Asked(Channel(s)) \/ Channel(s) \in unheard
=============================================================================
