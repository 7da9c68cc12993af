---------------------------- MODULE MetricPolicy ----------------------------
(***************************************************************************)
(* The metric policy of a device and the heartbeats collected under it.  A *)
(* change of the cards (server.go: handleMetricCards) is stored, then the  *)
(* registered connection is looked up, then the policy is sent to it; an   *)
(* agent that connects gets the stored policy with hello_ack.  The agent   *)
(* collects what its current policy names (main.go: collectInfo) and sends *)
(* it as a heartbeat, which a writer goroutine of the connection puts into *)
(* the device's row (runHeartbeatWriter).                                  *)
(*                                                                         *)
(* The device is enrolled and the agent has the capability metric-policy;  *)
(* without it no policy is sent.  A connection and a request are used      *)
(* once.  A heartbeat is the policy it was collected under.                *)
(***************************************************************************)
EXTENDS Integers, Sequences, FiniteSets, SequencesExt

CONSTANTS
    Conn, Request,
    None,   \* no connection, no heartbeat
    Inputs  \* the lists of cards that requests may bring

ASSUME MetricPolicyAssumption ==
    /\ None \notin Conn /\ Request \cap Conn = {}
    /\ \A i \in Inputs : i \in Seq(STRING)

MetricCardOrder == <<"cpu", "memory", "disk", "network", "processes", "diskio">>
Minimum == 3
DefaultMetricCards == MetricCardOrder

\* The cards in the fixed order: the loop over metricCardOrder, written out.
IfSeen(i, seen) == IF MetricCardOrder[i] \in seen THEN <<MetricCardOrder[i]>> ELSE <<>>
InOrder(seen) == IfSeen(1, seen) \o IfSeen(2, seen) \o IfSeen(3, seen)
                 \o IfSeen(4, seen) \o IfSeen(5, seen) \o IfSeen(6, seen)

\* NormalizeMetricCards: which lists it takes, and what it makes of them.
\* Mutant: duplicates are let through and counted.
Picked(cards) == InOrder(ToSet(cards))
ValidWithDuplicates(cards) == ToSet(cards) \subseteq ToSet(MetricCardOrder) /\ Len(cards) >= Minimum
Valid(cards) ==
    /\ ToSet(cards) \subseteq ToSet(MetricCardOrder)
    /\ IsInjective(cards)
    /\ Cardinality(ToSet(cards)) >= Minimum

\* setMetricCards: no list stands for the defaults, and a list that is invalid leaves
\* the policy as it is.
SetMetricCards(old, new) ==
    LET asked == IF new = <<>> THEN DefaultMetricCards ELSE new
    IN  IF Valid(asked) THEN Picked(asked) ELSE old

\* decodeMetricCards of a column that holds an encoded list.
Decoded(cards) == IF Valid(cards) THEN Picked(cards) ELSE DefaultMetricCards

VARIABLES
    stored,  \* metric_cards of the row
    info,    \* the policy under which info_json of the row was collected
    \* Requests.
    rpc,     \* where handleMetricCards stands
    want,    \* its normalized cards, until it has answered
    target,  \* the connection it has looked up, likewise
    \* Connections on the server.
    hpc,     \* where handleAgentWS stands
    rec,     \* the cards of the record it has read, until they are sent
    agents,  \* Server.agents of the device
    up,      \* sockets that are open
    done,    \* connections whose stop has run
    queue,   \* AgentConn.heartbeats
    held,    \* the heartbeat its writer is about to store
    writing, \* connections whose writer goroutine runs
    \* The agent.
    apc,     \* "idle" (between connections), "hello" or "online"
    conn,    \* its latest connection
    cards,   \* agent.metricCards
    toAgent, \* per connection: acks and policies on the wire
    raced    \* changes under way that a later one overtook, and the agent's connection
             \* if it got such a change or missed one in its handshake; for the
             \* properties only

requestVars == <<rpc, want, target>>
serverVars == <<hpc, rec, agents, done, queue, held, writing>>
agentVars == <<apc, conn, cards>>
vars == <<stored, info, requestVars, serverVars, up, agentVars, toAgent, raced>>

\* At least three cards, each once, in the fixed order.
Policy == {InOrder(S) : S \in {S \in SUBSET ToSet(MetricCardOrder) : Cardinality(S) >= Minimum}}
Message == [type : {"ack", "policy"}, cards : Policy]

TypeOK ==
    /\ stored \in Policy /\ info \in Policy /\ cards \in Policy
    /\ rpc \in [Request -> {"idle", "store", "lookup", "send", "done"}]
    /\ want \in [Request -> Policy]
    /\ target \in [Request -> Conn \cup {None}]
    /\ hpc \in [Conn -> {"idle", "hello", "register", "ack", "serve", "done"}]
    /\ rec \in [Conn -> Policy]
    /\ agents \in Conn \cup {None} /\ conn \in Conn \cup {None}
    /\ up \in SUBSET Conn /\ done \in SUBSET Conn
    /\ queue \in [Conn -> Policy \cup {None}] /\ held \in [Conn -> Policy \cup {None}]
    /\ writing \in SUBSET Conn
    /\ apc \in {"idle", "hello", "online"}
    /\ toAgent \in [Conn -> Seq(Message)]
    /\ raced \in SUBSET (Request \cup Conn)

\* The device has been enrolled, which stores the defaults (EnrollDevice); the agent
\* has no list, which stands for the defaults (metricCardsSnapshot), and no connection.
Init ==
    /\ stored = DefaultMetricCards /\ info = DefaultMetricCards
    /\ rpc = [q \in Request |-> "idle"] /\ want = [q \in Request |-> DefaultMetricCards]
    /\ target = [q \in Request |-> None]
    /\ hpc = [c \in Conn |-> "idle"] /\ rec = [c \in Conn |-> DefaultMetricCards]
    /\ agents = None /\ up = {} /\ done = {}
    /\ queue = [c \in Conn |-> None] /\ held = [c \in Conn |-> None]
    /\ writing = {}
    /\ apc = "idle" /\ conn = None /\ cards = DefaultMetricCards
    /\ toAgent = [c \in Conn |-> <<>>]
    /\ raced = {}

\* sendAgent; a closed socket takes nothing.
Post(c, type, p) ==
    toAgent' = IF c \in up THEN [toAgent EXCEPT ![c] = Append(@, [type |-> type, cards |-> p])]
                           ELSE toAgent

\* The unused requests are alike, and so are the unused connections: a fixed one is
\* taken.
IsNext(x, unused) == x \in unused /\ x = CHOOSE y \in unused : TRUE

\* The changes that are stored and not yet sent.
UnderWay == {q \in Request : rpc[q] \in {"lookup", "send"}}

-----------------------------------------------------------------------------
(* handleMetricCards.                                                      *)

RequestGoto(q, l) == rpc' = [rpc EXCEPT ![q] = l]

\* NormalizeMetricCards refuses the list, or makes a policy of it.
Begin(q, input) ==
    /\ IsNext(q, {x \in Request : rpc[x] = "idle"})
    /\ \/ /\ Valid(input)
          /\ want' = [want EXCEPT ![q] = Picked(input)]
          /\ RequestGoto(q, "store")
       \/ ~Valid(input) /\ RequestGoto(q, "done") /\ UNCHANGED want
    /\ UNCHANGED <<stored, info, target, serverVars, up, agentVars, toAgent, raced>>

\* The answer; the locals of the handler are gone.
Answer(q) ==
    /\ RequestGoto(q, "done")
    /\ want' = [want EXCEPT ![q] = DefaultMetricCards]
    /\ target' = [target EXCEPT ![q] = None]

\* UpdateMetricCards, which may fail.
StoreCards(q) ==
    /\ rpc[q] = "store"
    /\ \/ /\ stored' = want[q]
          /\ RequestGoto(q, "lookup")
          /\ raced' = raced \cup UnderWay
          /\ UNCHANGED <<want, target>>
       \/ Answer(q) /\ UNCHANGED <<stored, raced>>
    /\ UNCHANGED <<info, serverVars, up, agentVars, toAgent>>

\* The registered connection, if any.
LookupAgent(q) ==
    /\ rpc[q] = "lookup"
    /\ \/ /\ agents # None
          /\ target' = [target EXCEPT ![q] = agents]
          /\ RequestGoto(q, "send")
          /\ UNCHANGED want
       \/ agents = None /\ Answer(q)
    /\ raced' = raced \cup {c \in Conn : c = conn /\ hpc[c] = "register" /\ rec[c] # want[q]}
    /\ UNCHANGED <<stored, info, serverVars, up, agentVars, toAgent>>

\* What the message carries.  Mutant: the defaults.
SentDefaults(q) == DefaultMetricCards
SentCards(q) == want[q]

SendPolicy(q) ==
    /\ rpc[q] = "send"
    /\ Post(target[q], "policy", SentCards(q))
    /\ Answer(q)
    /\ raced' = IF q \in raced THEN (raced \ {q}) \cup ({target[q]} \cap {conn}) ELSE raced
    /\ UNCHANGED <<stored, info, serverVars, up, agentVars>>

-----------------------------------------------------------------------------
(* handleAgentWS.                                                          *)

Goto(c, l) == hpc' = [hpc EXCEPT ![c] = l]

\* The record is read and the token found right.
ReadRecord(c) ==
    /\ hpc[c] = "hello"
    /\ rec' = [rec EXCEPT ![c] = Decoded(stored)]
    /\ Goto(c, "register")
    /\ UNCHANGED <<stored, info, requestVars, agents, done, queue, held, writing, up, agentVars,
                   toAgent, raced>>

\* The connection takes the entry, an old one is stopped, and its writer starts.
Register(c) ==
    /\ hpc[c] = "register"
    /\ agents' = c
    /\ done' = done \cup ({agents} \ {None})
    /\ up' = up \ {agents}
    /\ writing' = writing \cup {c}
    /\ Goto(c, "ack")
    /\ UNCHANGED <<stored, info, requestVars, rec, queue, held, agentVars, toAgent, raced>>

\* The cards of hello_ack.  Mutant: they are left out, which the agent takes for
\* the defaults.
AckWithout(c) == DefaultMetricCards
AckCards(c) == rec[c]

SendAck(c) ==
    /\ hpc[c] = "ack"
    /\ Post(c, "ack", AckCards(c))
    /\ rec' = [rec EXCEPT ![c] = DefaultMetricCards]
    /\ Goto(c, "serve")
    /\ UNCHANGED <<stored, info, requestVars, agents, done, queue, held, writing, up, agentVars,
                   raced>>

\* The ack could not be sent, or the read loop has ended: the deferred function.
RemoveConn(c) ==
    /\ hpc[c] = "serve" /\ c \notin up
    /\ agents' = IF agents = c THEN None ELSE agents
    /\ done' = done \cup {c}
    /\ Goto(c, "done")
    /\ UNCHANGED <<stored, info, requestVars, rec, queue, held, writing, up, agentVars,
                   toAgent, raced>>

-----------------------------------------------------------------------------
(* runHeartbeatWriter.  A writer that could stop may take one more.        *)

WriterTakes(c) ==
    /\ c \in writing /\ held[c] = None /\ queue[c] # None
    /\ held' = [held EXCEPT ![c] = queue[c]]
    /\ queue' = [queue EXCEPT ![c] = None]
    /\ UNCHANGED <<stored, info, requestVars, hpc, rec, agents, done, writing, up, agentVars,
                   toAgent, raced>>

\* UpdateHeartbeat, whoever is registered by now.
WriterStores(c) ==
    /\ held[c] # None
    /\ info' = held[c]
    /\ held' = [held EXCEPT ![c] = None]
    /\ UNCHANGED <<stored, requestVars, hpc, rec, agents, done, queue, writing, up, agentVars,
                   toAgent, raced>>

\* The error is logged and the loop goes on.
WriterFails(c) ==
    /\ held[c] # None
    /\ held' = [held EXCEPT ![c] = None]
    /\ UNCHANGED <<stored, info, requestVars, hpc, rec, agents, done, queue, writing, up,
                   agentVars, toAgent, raced>>

WriterStops(c) ==
    /\ c \in writing \cap done /\ held[c] = None
    /\ writing' = writing \ {c}
    /\ queue' = [queue EXCEPT ![c] = None]
    /\ UNCHANGED <<stored, info, requestVars, hpc, rec, agents, done, held, up, agentVars,
                   toAgent, raced>>

-----------------------------------------------------------------------------
(* The agent.                                                              *)

\* run: a new connection, and hello.
Dial(c) ==
    /\ apc = "idle" /\ IsNext(c, {x \in Conn : hpc[x] = "idle"})
    /\ apc' = "hello" /\ conn' = c
    /\ up' = up \cup {c}
    /\ Goto(c, "hello")
    /\ raced' = raced \cap Request
    /\ UNCHANGED <<stored, info, requestVars, rec, agents, done, queue, held, writing,
                   cards, toAgent>>

Arrives(type) ==
    /\ conn \in up /\ toAgent[conn] # <<>> /\ Head(toAgent[conn]).type = type
    /\ toAgent' = [toAgent EXCEPT ![conn] = Tail(@)]

\* An ack whose cards are invalid would end the connection; none is sent.
ReadAck ==
    /\ apc = "hello" /\ Arrives("ack")
    /\ cards' = SetMetricCards(cards, Head(toAgent[conn]).cards)
    /\ apc' = "online"
    /\ UNCHANGED <<stored, info, requestVars, serverVars, up, conn, raced>>

\* A policy ahead of the ack ends the handshake: "unexpected handshake response".
EarlyPolicy ==
    /\ apc = "hello" /\ Arrives("policy")
    /\ up' = up \ {conn}
    /\ UNCHANGED <<stored, info, requestVars, serverVars, agentVars, raced>>

ReadPolicy ==
    /\ apc = "online" /\ Arrives("policy")
    /\ cards' = SetMetricCards(cards, Head(toAgent[conn]).cards)
    /\ UNCHANGED <<stored, info, requestVars, serverVars, up, apc, conn, raced>>

\* heartbeatLoop, collectInfo, handleAgentMessage and queueHeartbeat: the heartbeat
\* is collected under the policy of the moment, and replaces one in the channel that
\* the writer has not taken; that of a superseded connection is dropped.  The time
\* it spends on the wire is part of its time in the channel.
Heartbeat ==
    /\ apc = "online" /\ conn \in up /\ hpc[conn] = "serve"
    /\ agents = conn /\ conn \notin done
    /\ queue' = [queue EXCEPT ![conn] = cards]
    /\ UNCHANGED <<stored, info, requestVars, hpc, rec, agents, done, held, writing, up, agentVars,
                   toAgent, raced>>

\* The network loses the connection.
Drop(c) ==
    /\ c \in up
    /\ up' = up \ {c}
    /\ UNCHANGED <<stored, info, requestVars, serverVars, agentVars, toAgent, raced>>

\* run returns; its heartbeatLoop ends at the next write.  What is still on
\* the wire is lost.
RunReturns ==
    /\ apc # "idle" /\ conn \notin up
    /\ apc' = "idle"
    /\ toAgent' = [toAgent EXCEPT ![conn] = <<>>]
    /\ UNCHANGED <<stored, info, requestVars, serverVars, up, conn, cards, raced>>

-----------------------------------------------------------------------------
RequestStep(q) == StoreCards(q) \/ LookupAgent(q) \/ SendPolicy(q)

HandlerStep(c) ==
    ReadRecord(c) \/ Register(c) \/ SendAck(c) \/ RemoveConn(c)

AgentReads == ReadAck \/ EarlyPolicy \/ ReadPolicy

Next ==
    \/ \E q \in Request, i \in Inputs : Begin(q, i)
    \/ \E q \in Request : RequestStep(q)
    \/ \E c \in Conn : HandlerStep(c) \/ Dial(c) \/ Drop(c)
    \/ \E c \in Conn : WriterTakes(c) \/ WriterStores(c) \/ WriterFails(c) \/ WriterStops(c)
    \/ AgentReads \/ Heartbeat \/ RunReturns

\* All goroutines run, the heartbeat ticks, and the database does not refuse a
\* connection's heartbeats for ever.
Fairness ==
    /\ \A q \in Request : WF_vars(RequestStep(q))
    /\ \A c \in Conn : WF_vars(HandlerStep(c)) /\ WF_vars(WriterTakes(c))
                       /\ SF_vars(WriterStores(c))
    /\ WF_vars(AgentReads) /\ WF_vars(Heartbeat) /\ WF_vars(RunReturns)

Spec == Init /\ [][Next]_vars
FairSpec == Spec /\ Fairness

-----------------------------------------------------------------------------
(* Properties.                                                             *)

\* Nothing about the policy is under way: no change, and no message.
Quiet == UnderWay = {} /\ apc = "online" /\ conn = agents /\ conn \in up /\ toAgent[conn] = <<>>

\* docs/WEB_PANEL.md:38 and docs/CONFIGURATION.md:115: an agent that is online gets
\* a new policy at once, one that is offline with the next handshake.  A registered
\* agent with no message under way has the stored policy, unless its connection met
\* one of two windows the code leaves open: a change was stored and looked the
\* agents up while the connection was between the read of its record and its
\* registration, or a change was sent to it after a later one had been stored.  The
\* next connection is right again.
AppliedUnlessRaced == Quiet /\ conn \notin raced => cards = stored

\* What the panel shows follows the policy (runHeartbeatWriter): on a connection that
\* lasts, once the changes have ended, the stored heartbeat is one collected under
\* the stored policy and stays so, although the writers of earlier connections may
\* still store theirs, heartbeats collected before the change are under way and the
\* database may refuse some.
HeartbeatsFollowPolicy ==
    <>[](Quiet /\ conn \notin raced) => <>[](info = stored)

-----------------------------------------------------------------------------
(* The strengthening that makes AppliedUnlessRaced inductive.              *)

\* How far a connection is, at the handler and at the agent, and what may be on its
\* wire: nothing before it is registered, no ack before the handler has sent it, and
\* the ack once it has, until the agent is online.
PhaseInv ==
    /\ \A c \in Conn : hpc[c] \in {"idle", "hello", "register"} =>
          toAgent[c] = <<>> /\ agents # c /\ \A q \in Request : target[q] # c
    /\ \A c \in Conn : hpc[c] = "ack" =>
          \A i \in 1..Len(toAgent[c]) : toAgent[c][i].type = "policy"
    /\ \A c \in up : hpc[c] \notin {"idle", "done"}
    /\ agents # None => hpc[agents] \in {"ack", "serve"}
    /\ apc # "idle" => conn \in Conn
    /\ conn \in up => apc # "idle"
    /\ apc = "online" => hpc[conn] \in {"serve", "done"}
    /\ apc = "hello" /\ conn \in up /\ hpc[conn] = "serve" => toAgent[conn] # <<>>
    /\ \A q \in Request : rpc[q] = "send" => target[q] \in Conn

\* Of the changes under way at most one is not overtaken: it carries what is stored.
RaceInv ==
    /\ \A q \in Request \cap raced : rpc[q] \notin {"idle", "store"}
    /\ \A q \in UnderWay \ raced : want[q] = stored

\* That change has yet to look the agents up, or is about to be sent on c.
Coming(c) == \E q \in UnderWay \ raced : rpc[q] = "lookup" \/ target[q] = c

\* The policy the agent has when it has read all that is on the wire of c.
Upcoming(c) == IF toAgent[c] = <<>> THEN cards ELSE toAgent[c][Len(toAgent[c])].cards

\* The agent reads the wire of c to its end: the handshake does not end with a
\* policy ahead of the ack.
Reads(c) == apc = "online" \/ (toAgent[c] # <<>> /\ Head(toAgent[c]).type = "ack")

\* On the agent's connection, unless it was raced, the stored policy is what its
\* handler has read, or what the agent will have, or a change under way brings it.
DeliveryInv ==
    conn \in Conn \ raced =>
        /\ hpc[conn] = "register" =>
              rec[conn] = stored \/ \E q \in UnderWay \ raced : rpc[q] = "lookup"
        /\ hpc[conn] = "ack" /\ agents = conn /\ conn \in up /\ toAgent[conn] = <<>> =>
              rec[conn] = stored \/ Coming(conn)
        /\ hpc[conn] = "serve" /\ agents = conn /\ conn \in up /\ Reads(conn) =>
              Upcoming(conn) = stored \/ Coming(conn)

PolicyInv == PhaseInv /\ RaceInv /\ DeliveryInv

=============================================================================
