------------------------- MODULE MetricPolicyProofs -------------------------
(***************************************************************************)
(* MetricPolicy, for any number of connections and requests and any lists  *)
(* of cards: what the server stores, sends and keeps is always a           *)
(* normalized list, and a registered agent with nothing under way has the  *)
(* stored one unless its connection was raced.                             *)
(***************************************************************************)
EXTENDS MetricPolicy, FiniteSetTheorems, TLAPS

-----------------------------------------------------------------------------
(* NormalizeMetricCards.                                                   *)

Card == ToSet(MetricCardOrder)

\* The members of a concatenation; it repeats none if its parts repeat none and
\* share none.
LEMMA ConcatFacts ==
    ASSUME NEW s \in Seq(Card), NEW t \in Seq(Card)
    PROVE  /\ s \o t \in Seq(Card)
           /\ ToSet(s \o t) = ToSet(s) \cup ToSet(t)
           /\ IsInjective(s) /\ IsInjective(t) /\ ToSet(s) \cap ToSet(t) = {} => IsInjective(s \o t)
  <1>1. /\ s \o t \in Seq(Card) /\ Len(s \o t) = Len(s) + Len(t)
        /\ Len(s) \in Nat /\ Len(t) \in Nat
        /\ DOMAIN s = 1..Len(s) /\ DOMAIN t = 1..Len(t)
        /\ DOMAIN (s \o t) = 1..Len(s) + Len(t)
        /\ \A i \in 1..Len(s) + Len(t) :
              (s \o t)[i] = IF i =< Len(s) THEN s[i] ELSE t[i - Len(s)]
    OBVIOUS
  <1> DEFINE st == s \o t
             m == Len(s)
             n == Len(t)
  <1>2. /\ m \in Nat /\ n \in Nat /\ DOMAIN s = 1..m /\ DOMAIN t = 1..n /\ DOMAIN st = 1..m + n
        /\ \A i \in 1..m + n : st[i] = IF i =< m THEN s[i] ELSE t[i - m]
    BY <1>1
  <1> HIDE DEF st, m, n
  <1>3. \A i \in 1..m : i \in 1..m + n /\ st[i] = s[i]
    BY <1>2
  <1>4. \A i \in 1..n : i + m \in 1..m + n /\ st[i + m] = t[i]
    BY <1>2
  <1>5. \A i \in 1..m + n : i \in 1..m \/ (i - m \in 1..n /\ i = (i - m) + m)
    BY <1>2
  <1>6. ToSet(st) = ToSet(s) \cup ToSet(t)
    <2>1. ToSet(s) \cup ToSet(t) \subseteq ToSet(st)
      BY <1>2, <1>3, <1>4 DEF ToSet
    <2>2. ToSet(st) \subseteq ToSet(s) \cup ToSet(t)
      BY <1>2, <1>3, <1>4, <1>5 DEF ToSet
    <2> QED
      BY <2>1, <2>2
  <1>7. ASSUME IsInjective(s), IsInjective(t), ToSet(s) \cap ToSet(t) = {}
        PROVE  IsInjective(st)
    <2> SUFFICES ASSUME NEW i \in 1..m + n, NEW j \in 1..m + n, st[i] = st[j] PROVE i = j
      BY <1>2 DEF IsInjective
    <2>1. \A a \in 1..m, b \in 1..n : s[a] # t[b]
      BY <1>2, <1>7 DEF ToSet
    <2>2. CASE i \in 1..m /\ j \in 1..m
      BY <1>2, <1>3, <1>7, <2>2 DEF IsInjective
    <2>3. CASE i - m \in 1..n /\ j - m \in 1..n
      <3>1. t[i - m] = t[j - m]
        BY <1>4, <1>5, <1>2, <2>3
      <3>2. i - m = j - m
        BY <1>2, <1>7, <2>3, <3>1 DEF IsInjective
      <3> QED
        BY <1>2, <3>2
    <2>4. CASE i \in 1..m /\ j - m \in 1..n
      BY <1>2, <1>3, <2>1, <2>4
    <2>5. CASE i - m \in 1..n /\ j \in 1..m
      BY <1>2, <1>3, <2>1, <2>5
    <2> QED
      BY <1>5, <2>2, <2>3, <2>4, <2>5
  <1> QED
    BY <1>1, <1>6, <1>7 DEF st

\* The cards of the fixed order differ.
LEMMA OrderFacts ==
    /\ MetricCardOrder \in Seq(Card) /\ Len(MetricCardOrder) = 6
    /\ \A i, j \in 1..6 : MetricCardOrder[i] = MetricCardOrder[j] => i = j
    /\ Card = {MetricCardOrder[i] : i \in 1..6}
  <1>1. Len(MetricCardOrder) = 6 /\ DOMAIN MetricCardOrder = 1..6
    BY DEF MetricCardOrder
  <1>2. /\ MetricCardOrder[1] = "cpu" /\ MetricCardOrder[2] = "memory" /\ MetricCardOrder[3] = "disk"
        /\ MetricCardOrder[4] = "network" /\ MetricCardOrder[5] = "processes"
        /\ MetricCardOrder[6] = "diskio"
    BY DEF MetricCardOrder
  <1>3. \A i \in 1..6 : i \in {1, 2, 3, 4, 5, 6}
    OBVIOUS
  <1>4. \A i, j \in {1, 2, 3, 4, 5, 6} : MetricCardOrder[i] = MetricCardOrder[j] => i = j
    BY <1>2
  <1>5. \A i, j \in 1..6 : MetricCardOrder[i] = MetricCardOrder[j] => i = j
    BY <1>3, <1>4
  <1>6. Card = {MetricCardOrder[i] : i \in 1..6}
    BY <1>1 DEF Card, ToSet
  <1>7. Card = {"cpu", "memory", "disk", "network", "processes", "diskio"}
    BY <1>2, <1>3, <1>6
  <1>8. MetricCardOrder \in Seq(Card)
    BY <1>7 DEF MetricCardOrder
  <1> QED
    BY <1>1, <1>5, <1>6, <1>8

LEMMA IfSeenFacts ==
    ASSUME NEW seen, NEW i \in 1..6
    PROVE  /\ IfSeen(i, seen) \in Seq(Card)
           /\ ToSet(IfSeen(i, seen)) = seen \cap {MetricCardOrder[i]}
           /\ IsInjective(IfSeen(i, seen))
  <1>1. MetricCardOrder[i] \in Card
    BY OrderFacts
  <1>2. CASE MetricCardOrder[i] \in seen
    <2> DEFINE s == <<MetricCardOrder[i]>>
    <2>1. s \in Seq(Card) /\ DOMAIN s = 1..1 /\ s[1] = MetricCardOrder[i]
      BY <1>1
    <2> HIDE DEF s
    <2>2. \A a \in 1..1 : a = 1
      OBVIOUS
    <2>3. ToSet(s) = {MetricCardOrder[i]}
      <3>1. 1 \in 1..1
        OBVIOUS
      <3> QED
        BY <2>1, <2>2, <3>1 DEF ToSet
    <2>4. IsInjective(s)
      BY <2>1, <2>2 DEF IsInjective
    <2>5. IfSeen(i, seen) = s
      BY <1>2 DEF IfSeen, s
    <2> QED
      BY <1>2, <2>1, <2>3, <2>4, <2>5
  <1>3. CASE MetricCardOrder[i] \notin seen
    <2>1. IfSeen(i, seen) = <<>> /\ <<>> \in Seq(Card) /\ DOMAIN <<>> = {}
      BY <1>3 DEF IfSeen
    <2>2. ToSet(<<>>) = {} /\ IsInjective(<<>>)
      BY <2>1 DEF ToSet, IsInjective
    <2> QED
      BY <1>3, <2>1, <2>2
  <1> QED
    BY <1>2, <1>3

\* The loop returns the cards that were seen, each once.
LEMMA InOrderFacts ==
    ASSUME NEW seen
    PROVE  /\ InOrder(seen) \in Seq(Card)
           /\ ToSet(InOrder(seen)) = seen \cap Card
           /\ IsInjective(InOrder(seen))
  <1> DEFINE k(i) == MetricCardOrder[i]
             f(i) == IfSeen(i, seen)
             s2 == f(1) \o f(2)
             s3 == s2 \o f(3)
             s4 == s3 \o f(4)
             s5 == s4 \o f(5)
             s6 == s5 \o f(6)
  <1>1. \A i \in 1..6 : f(i) \in Seq(Card) /\ ToSet(f(i)) = seen \cap {k(i)} /\ IsInjective(f(i))
    BY IfSeenFacts
  <1>2. \A i, j \in 1..6 : i # j => k(i) # k(j)
    BY OrderFacts
  <1>3. InOrder(seen) = s6
    BY DEF InOrder
  <1> HIDE DEF k, f
  <1>4. s2 \in Seq(Card) /\ ToSet(s2) = seen \cap {k(1), k(2)} /\ IsInjective(s2)
    BY <1>1, <1>2, ConcatFacts
  <1> HIDE DEF s2
  <1>5. s3 \in Seq(Card) /\ ToSet(s3) = seen \cap {k(1), k(2), k(3)} /\ IsInjective(s3)
    BY <1>1, <1>2, <1>4, ConcatFacts
  <1> HIDE DEF s3
  <1>6. s4 \in Seq(Card) /\ ToSet(s4) = seen \cap {k(1), k(2), k(3), k(4)} /\ IsInjective(s4)
    BY <1>1, <1>2, <1>5, ConcatFacts
  <1> HIDE DEF s4
  <1>7. s5 \in Seq(Card) /\ ToSet(s5) = seen \cap {k(1), k(2), k(3), k(4), k(5)} /\ IsInjective(s5)
    BY <1>1, <1>2, <1>6, ConcatFacts
  <1> HIDE DEF s5
  <1>8. /\ s6 \in Seq(Card) /\ IsInjective(s6)
        /\ ToSet(s6) = seen \cap {k(1), k(2), k(3), k(4), k(5), k(6)}
    BY <1>1, <1>2, <1>7, ConcatFacts
  <1> HIDE DEF s6
  <1>9. Card = {k(1), k(2), k(3), k(4), k(5), k(6)}
    <2>1. \A i \in 1..6 : i \in {1, 2, 3, 4, 5, 6}
      OBVIOUS
    <2> QED
      BY <2>1, OrderFacts DEF k
  <1> QED
    BY <1>3, <1>8, <1>9

\* All cards in the fixed order are the defaults.
LEMMA InOrderOfAll == InOrder(Card) = MetricCardOrder
  <1>1. \A i \in 1..6 : IfSeen(i, Card) = <<MetricCardOrder[i]>>
    BY OrderFacts DEF IfSeen
  <1>2. /\ IfSeen(1, Card) = <<"cpu">> /\ IfSeen(2, Card) = <<"memory">>
        /\ IfSeen(3, Card) = <<"disk">> /\ IfSeen(4, Card) = <<"network">>
        /\ IfSeen(5, Card) = <<"processes">> /\ IfSeen(6, Card) = <<"diskio">>
    BY <1>1 DEF MetricCardOrder
  <1>A. ASSUME NEW s \in Seq(Card), NEW x \in Card PROVE s \o <<x>> = Append(s, x)
    OBVIOUS
  <1>B. Card = {"cpu", "memory", "disk", "network", "processes", "diskio"}
    BY DEF Card, ToSet, MetricCardOrder
  <1>3. <<"cpu">> \o <<"memory">>
        = <<"cpu", "memory">>
    <2>1. <<"cpu">> \in Seq(Card) /\ "memory" \in Card
      BY <1>B
    <2>2. <<"cpu", "memory">>
          = Append(<<"cpu">>, "memory")
      OBVIOUS
    <2> QED
      BY <1>A, <2>1, <2>2, Zenon
  <1>4. <<"cpu", "memory">> \o <<"disk">>
        = <<"cpu", "memory", "disk">>
    <2>1. <<"cpu", "memory">> \in Seq(Card) /\ "disk" \in Card
      BY <1>B
    <2>2. <<"cpu", "memory", "disk">>
          = Append(<<"cpu", "memory">>, "disk")
      OBVIOUS
    <2> QED
      BY <1>A, <2>1, <2>2, Zenon
  <1>5. <<"cpu", "memory", "disk">> \o <<"network">>
        = <<"cpu", "memory", "disk", "network">>
    <2>1. <<"cpu", "memory", "disk">> \in Seq(Card) /\ "network" \in Card
      BY <1>B
    <2>2. <<"cpu", "memory", "disk", "network">>
          = Append(<<"cpu", "memory", "disk">>, "network")
      OBVIOUS
    <2> QED
      BY <1>A, <2>1, <2>2, Zenon
  <1>6. <<"cpu", "memory", "disk", "network">> \o <<"processes">>
        = <<"cpu", "memory", "disk", "network", "processes">>
    <2>1. <<"cpu", "memory", "disk", "network">> \in Seq(Card) /\ "processes" \in Card
      BY <1>B
    <2>2. <<"cpu", "memory", "disk", "network", "processes">>
          = Append(<<"cpu", "memory", "disk", "network">>, "processes")
      OBVIOUS
    <2> QED
      BY <1>A, <2>1, <2>2, Zenon
  <1>7. <<"cpu", "memory", "disk", "network", "processes">> \o <<"diskio">>
        = <<"cpu", "memory", "disk", "network", "processes", "diskio">>
    <2>1. <<"cpu", "memory", "disk", "network", "processes">> \in Seq(Card) /\ "diskio" \in Card
      BY <1>B
    <2>2. <<"cpu", "memory", "disk", "network", "processes", "diskio">>
          = Append(<<"cpu", "memory", "disk", "network", "processes">>, "diskio")
      OBVIOUS
    <2> QED
      BY <1>A, <2>1, <2>2, Zenon
  <1>8. InOrder(Card) = <<"cpu", "memory", "disk", "network", "processes", "diskio">>
    BY <1>2, <1>3, <1>4, <1>5, <1>6, <1>7, Zenon DEF InOrder
  <1> QED
    BY <1>8 DEF MetricCardOrder

\* There are enough cards for the defaults to be a policy.
LEMMA CardCount == IsFiniteSet(Card) /\ Cardinality(Card) = 6
  <1>1. MetricCardOrder \in [1..6 -> Card]
    <2>1. MetricCardOrder \in Seq(Card) /\ Len(MetricCardOrder) = 6
      BY OrderFacts
    <2> QED
      BY <2>1
  <1>2. MetricCardOrder \in Injection(1..6, Card) /\ MetricCardOrder \in Surjection(1..6, Card)
    BY <1>1, OrderFacts DEF Injection, IsInjective, Surjection
  <1>3. ExistsBijection(1..6, Card)
    BY <1>2 DEF ExistsBijection, Bijection
  <1>4. IsFiniteSet(1..6) /\ Cardinality(1..6) = 6
    <2>1. ASSUME NEW k \in Nat PROVE IsFiniteSet(1..k) /\ Cardinality(1..k) = k
      BY FS_Interval
    <2> QED
      BY <2>1
  <1> QED
    BY <1>3, <1>4, FS_Bijection

\* What NormalizeMetricCards returns is a policy, and it returns a policy as it is:
\* decodeMetricCards and setMetricCards take the policies they are given.
LEMMA PolicyFacts ==
    /\ DefaultMetricCards \in Policy
    /\ \A x : Valid(x) => Picked(x) \in Policy
    /\ \A p \in Policy : Decoded(p) = p
    /\ \A p \in Policy : \A old : SetMetricCards(old, p) = p
  <1>1. DefaultMetricCards \in Policy
    BY InOrderOfAll, CardCount DEF DefaultMetricCards, Policy, Card, Minimum
  <1>2. \A x : Valid(x) => Picked(x) \in Policy
    BY DEF Valid, Picked, Policy
  <1>3. ASSUME NEW p \in Policy PROVE Valid(p) /\ Picked(p) = p /\ p # <<>>
    <2>1. PICK S \in SUBSET Card : Cardinality(S) >= Minimum /\ p = InOrder(S)
      BY DEF Policy, Card
    <2>2. ToSet(p) = S /\ IsInjective(p)
      BY <2>1, InOrderFacts
    <2>3. Valid(p) /\ Picked(p) = p
      BY <2>1, <2>2 DEF Valid, Picked, Card
    <2>4. S # {}
      BY <2>1, FS_EmptySet DEF Minimum
    <2>5. ToSet(<<>>) = {}
      BY DEF ToSet
    <2> QED
      BY <2>2, <2>3, <2>4, <2>5
  <1>4. \A p \in Policy : Decoded(p) = p
    BY <1>3 DEF Decoded
  <1>5. \A p \in Policy : \A old : SetMetricCards(old, p) = p
    BY <1>3 DEF SetMetricCards
  <1> QED
    BY <1>1, <1>2, <1>4, <1>5

-----------------------------------------------------------------------------
(* Types.                                                                  *)

\* A message is known by its fields.
LEMMA MessageFacts ==
    /\ \A m \in Message : m.type \in {"ack", "policy"} /\ m.cards \in Policy
    /\ \A t \in {"ack", "policy"}, p \in Policy :
          LET m == [type |-> t, cards |-> p]
          IN  m \in Message /\ m.type = t /\ m.cards = p
  BY DEF Message

\* sendAgent appends one message, or nothing.
LEMMA PostFacts ==
    ASSUME TypeOK, NEW c \in Conn, NEW t \in {"ack", "policy"}, NEW p \in Policy, Post(c, t, p)
    PROVE  /\ toAgent' \in [Conn -> Seq(Message)]
           /\ \A e \in Conn : e # c \/ c \notin up => toAgent'[e] = toAgent[e]
           /\ c \in up => /\ Len(toAgent'[c]) = Len(toAgent[c]) + 1
                          /\ \A i \in 1..Len(toAgent[c]) : toAgent'[c][i] = toAgent[c][i]
                          /\ toAgent'[c][Len(toAgent[c]) + 1].type = t
                          /\ toAgent'[c][Len(toAgent[c]) + 1].cards = p
  <1>1. PICK m \in Message : m = [type |-> t, cards |-> p] /\ m.type = t /\ m.cards = p
    BY MessageFacts
  <1>2. toAgent \in [Conn -> Seq(Message)]
    BY DEF TypeOK
  <1>3. CASE c \in up
    <2>1. toAgent' = [toAgent EXCEPT ![c] = Append(toAgent[c], m)]
      BY <1>1, <1>3 DEF Post
    <2>2. /\ Append(toAgent[c], m) \in Seq(Message)
          /\ Len(Append(toAgent[c], m)) = Len(toAgent[c]) + 1
          /\ \A i \in 1..Len(toAgent[c]) : Append(toAgent[c], m)[i] = toAgent[c][i]
          /\ Append(toAgent[c], m)[Len(toAgent[c]) + 1] = m
      BY <1>2
    <2> QED
      BY <1>1, <1>2, <1>3, <2>1, <2>2
  <1>4. CASE c \notin up
    BY <1>2, <1>4 DEF Post
  <1> QED
    BY <1>3, <1>4

\* The agent takes the first message of its connection.
LEMMA ArrivesFacts ==
    ASSUME TypeOK, NEW t, Arrives(t), conn \in Conn
    PROVE  /\ toAgent' \in [Conn -> Seq(Message)]
           /\ \A e \in Conn : e # conn => toAgent'[e] = toAgent[e]
           /\ Len(toAgent[conn]) \in Nat \ {0}
           /\ Len(toAgent'[conn]) = Len(toAgent[conn]) - 1
           /\ \A i \in 1..Len(toAgent'[conn]) : toAgent'[conn][i] = toAgent[conn][i + 1]
           /\ Head(toAgent[conn]) = toAgent[conn][1] /\ Head(toAgent[conn]).cards \in Policy
           /\ toAgent[conn][1].type = t
  <1>1. toAgent \in [Conn -> Seq(Message)] /\ toAgent[conn] \in Seq(Message)
    BY DEF TypeOK
  <1>2. toAgent[conn] # <<>> /\ toAgent' = [toAgent EXCEPT ![conn] = Tail(toAgent[conn])]
    BY DEF Arrives
  <1>3. /\ Tail(toAgent[conn]) \in Seq(Message) /\ Len(toAgent[conn]) \in Nat \ {0}
        /\ Len(Tail(toAgent[conn])) = Len(toAgent[conn]) - 1
        /\ \A i \in 1..Len(Tail(toAgent[conn])) : Tail(toAgent[conn])[i] = toAgent[conn][i + 1]
        /\ Head(toAgent[conn]) = toAgent[conn][1] /\ toAgent[conn][1] \in Message
    BY <1>1, <1>2
  <1> QED
    BY <1>1, <1>2, <1>3, MessageFacts DEF Arrives

\* handleMetricCards keeps the types.
LEMMA RequestTypes ==
    ASSUME TypeOK, NEW q \in Request,
           (\E i \in Inputs : Begin(q, i)) \/ StoreCards(q) \/ LookupAgent(q)
    PROVE  TypeOK'
  <1>1. ASSUME NEW i \in Inputs, Begin(q, i) PROVE TypeOK'
    <2>1. /\ rpc' \in [Request -> {"idle", "store", "lookup", "send", "done"}]
          /\ want' \in [Request -> Policy]
      <3>1. Valid(i) => Picked(i) \in Policy
        BY PolicyFacts
      <3> QED
        BY <1>1, <3>1 DEF Begin, RequestGoto, TypeOK
    <2> QED
      BY <1>1, <2>1 DEF Begin, serverVars, agentVars, TypeOK
  <1>0. ASSUME Answer(q)
        PROVE  /\ rpc' \in [Request -> {"idle", "store", "lookup", "send", "done"}]
               /\ want' \in [Request -> Policy] /\ target' \in [Request -> Conn \cup {None}]
    BY <1>0, PolicyFacts DEF Answer, RequestGoto, TypeOK
  <1>2. CASE StoreCards(q)
    <2>1. /\ rpc' \in [Request -> {"idle", "store", "lookup", "send", "done"}]
          /\ want' \in [Request -> Policy] /\ target' \in [Request -> Conn \cup {None}]
      BY <1>0, <1>2 DEF StoreCards, RequestGoto, TypeOK
    <2>2. stored' \in Policy /\ raced' \in SUBSET (Request \cup Conn)
      BY <1>2 DEF StoreCards, UnderWay, TypeOK
    <2> QED
      BY <1>2, <2>1, <2>2 DEF StoreCards, serverVars, agentVars, TypeOK
  <1>3. CASE LookupAgent(q)
    <2>1. /\ rpc' \in [Request -> {"idle", "store", "lookup", "send", "done"}]
          /\ want' \in [Request -> Policy] /\ target' \in [Request -> Conn \cup {None}]
      BY <1>0, <1>3 DEF LookupAgent, RequestGoto, TypeOK
    <2>2. raced' \in SUBSET (Request \cup Conn)
      BY <1>3 DEF LookupAgent, TypeOK
    <2> QED
      BY <1>3, <2>1, <2>2 DEF LookupAgent, serverVars, agentVars, TypeOK
  <1> QED
    BY <1>1, <1>2, <1>3

LEMMA SendTypes ==
    ASSUME TypeOK, PhaseInv, NEW q \in Request, SendPolicy(q)
    PROVE  TypeOK'
  <1>1. target[q] \in Conn /\ want[q] \in Policy
    BY DEF SendPolicy, PhaseInv, TypeOK
  <1>2. toAgent' \in [Conn -> Seq(Message)]
    BY <1>1, PostFacts DEF SendPolicy, SentCards
  <1>3. raced' \in SUBSET (Request \cup Conn)
    BY <1>1 DEF SendPolicy, TypeOK
  <1> QED
    BY <1>2, <1>3, PolicyFacts DEF SendPolicy, Answer, RequestGoto, serverVars, agentVars, TypeOK

\* handleAgentWS and runHeartbeatWriter keep them.
LEMMA HandlerTypes ==
    ASSUME TypeOK, NEW c \in Conn, HandlerStep(c)
    PROVE  TypeOK'
  <1>1. CASE ReadRecord(c)
    BY <1>1, PolicyFacts DEF ReadRecord, Goto, requestVars, agentVars, TypeOK
  <1>2. CASE Register(c)
    BY <1>2 DEF Register, Goto, requestVars, agentVars, TypeOK
  <1>3. CASE SendAck(c)
    <2>1. toAgent' \in [Conn -> Seq(Message)]
      BY <1>3, PostFacts DEF SendAck, AckCards, TypeOK
    <2> QED
      BY <1>3, <2>1, PolicyFacts DEF SendAck, Goto, requestVars, agentVars, TypeOK
  <1>4. CASE RemoveConn(c)
    BY <1>4 DEF RemoveConn, Goto, requestVars, agentVars, TypeOK
  <1> QED
    BY <1>1, <1>2, <1>3, <1>4 DEF HandlerStep

Writer(c) == WriterTakes(c) \/ WriterStores(c) \/ WriterFails(c) \/ WriterStops(c)

LEMMA WriterTypes ==
    ASSUME TypeOK, NEW c \in Conn, Writer(c)
    PROVE  TypeOK'
  <1>1. CASE WriterTakes(c)
    BY <1>1 DEF WriterTakes, requestVars, agentVars, TypeOK
  <1>2. CASE WriterStores(c)
    BY <1>2 DEF WriterStores, requestVars, agentVars, TypeOK
  <1>3. CASE WriterFails(c)
    BY <1>3 DEF WriterFails, requestVars, agentVars, TypeOK
  <1>4. CASE WriterStops(c)
    BY <1>4 DEF WriterStops, requestVars, agentVars, TypeOK
  <1> QED
    BY <1>1, <1>2, <1>3, <1>4 DEF Writer

\* The agent and the network keep them.
LEMMA AgentTypes ==
    ASSUME TypeOK, PhaseInv,
           AgentReads \/ Heartbeat \/ RunReturns \/ \E c \in Conn : Dial(c) \/ Drop(c)
    PROVE  TypeOK'
  <1>1. CASE AgentReads
    <2>1. conn \in Conn
      BY <1>1 DEF AgentReads, ReadAck, EarlyPolicy, ReadPolicy, PhaseInv
    <2>2. toAgent' \in [Conn -> Seq(Message)] /\ Head(toAgent[conn]).cards \in Policy
      BY <1>1, <2>1, ArrivesFacts DEF AgentReads, ReadAck, EarlyPolicy, ReadPolicy
    <2>3. cards' \in Policy
      BY <1>1, <2>2, PolicyFacts DEF AgentReads, ReadAck, EarlyPolicy, ReadPolicy, agentVars, TypeOK
    <2> QED
      BY <1>1, <2>2, <2>3
      DEF AgentReads, ReadAck, EarlyPolicy, ReadPolicy, requestVars, serverVars, agentVars, TypeOK
  <1>2. CASE Heartbeat
    BY <1>2 DEF Heartbeat, requestVars, agentVars, TypeOK
  <1>3. CASE RunReturns
    <2>1. toAgent' \in [Conn -> Seq(Message)]
      <3>1. <<>> \in Seq(Message)
        OBVIOUS
      <3> QED
        BY <1>3, <3>1 DEF RunReturns, TypeOK
    <2> QED
      BY <1>3, <2>1 DEF RunReturns, requestVars, serverVars, TypeOK
  <1>4. ASSUME NEW c \in Conn, Dial(c) PROVE TypeOK'
    BY <1>4 DEF Dial, Goto, requestVars, TypeOK
  <1>5. ASSUME NEW c \in Conn, Drop(c) PROVE TypeOK'
    BY <1>5 DEF Drop, requestVars, serverVars, agentVars, TypeOK
  <1> QED
    BY <1>1, <1>2, <1>3, <1>4, <1>5

-----------------------------------------------------------------------------
(* The invariant.  First the requests.                                     *)

\* The writers and the heartbeats touch nothing the invariant is about.
LEMMA HeartbeatKeeps ==
    ASSUME PolicyInv,
           UNCHANGED <<stored, rpc, want, target, hpc, rec, agents, up, apc, conn, cards, toAgent, raced>>
    PROVE  PolicyInv'
  BY DEF PolicyInv, PhaseInv, RaceInv, DeliveryInv, Coming, Upcoming, Reads, UnderWay

\* A change is not under way before it is stored.
LEMMA BeginKeeps ==
    ASSUME TypeOK, PolicyInv, NEW q \in Request, NEW i \in Inputs, Begin(q, i)
    PROVE  PolicyInv'
  <1>1. rpc[q] = "idle"
    BY DEF Begin, IsNext
  <1>2. /\ \A r \in Request : r # q => rpc'[r] = rpc[r] /\ want'[r] = want[r]
        /\ rpc'[q] \in {"store", "done"}
        /\ UNCHANGED <<stored, target, hpc, rec, agents, up, apc, conn, cards, toAgent, raced>>
    BY DEF Begin, RequestGoto, serverVars, agentVars, TypeOK
  <1>3. UnderWay' = UnderWay /\ q \notin UnderWay
    BY <1>1, <1>2 DEF UnderWay
  <1>4. q \notin raced
    BY <1>1 DEF PolicyInv, RaceInv
  <1>5. PhaseInv'
    BY <1>2 DEF PolicyInv, PhaseInv
  <1>6. RaceInv'
    <2>1. \A r \in UnderWay : r \in Request /\ r # q
      BY <1>3 DEF UnderWay
    <2> QED
      BY <1>2, <1>3, <1>4, <2>1 DEF PolicyInv, RaceInv
  <1>7. \A r \in UnderWay : rpc'[r] = rpc[r]
    BY <1>2, <1>3 DEF UnderWay
  <1>8. DeliveryInv'
    BY <1>2, <1>3, <1>7 DEF PolicyInv, DeliveryInv, Coming, Upcoming, Reads
  <1> QED
    BY <1>5, <1>6, <1>8 DEF PolicyInv

\* UpdateMetricCards: the change it stores is the one under way that is not
\* overtaken; all others are.
LEMMA StoreKeeps ==
    ASSUME TypeOK, PolicyInv, NEW q \in Request, StoreCards(q)
    PROVE  PolicyInv'
  <1>0. q \notin UnderWay /\ q \notin raced /\ rpc[q] = "store"
    BY DEF StoreCards, UnderWay, PolicyInv, RaceInv
  <1>1. CASE stored' = want[q] /\ RequestGoto(q, "lookup") /\ raced' = raced \cup UnderWay
             /\ UNCHANGED <<want, target>>
    <2>1. /\ \A r \in Request : r # q => rpc'[r] = rpc[r]
          /\ rpc'[q] = "lookup" /\ stored' = want[q] /\ raced' = raced \cup UnderWay
          /\ UNCHANGED <<want, target, hpc, rec, agents, up, apc, conn, cards, toAgent>>
      BY <1>1 DEF StoreCards, RequestGoto, serverVars, agentVars, TypeOK
    <2>2. PhaseInv'
      BY <2>1 DEF PolicyInv, PhaseInv
    <2>3. UnderWay' = UnderWay \cup {q}
      BY <2>1 DEF UnderWay
    <2>4. UnderWay' \ raced' = {q}
      BY <1>0, <2>1, <2>3
    <2>5. RaceInv'
      <3>1. \A r \in Request \cap raced' : rpc'[r] \notin {"idle", "store"}
        BY <2>1 DEF PolicyInv, RaceInv, UnderWay
      <3> QED
        BY <2>1, <2>4, <3>1 DEF RaceInv
    <2>6. DeliveryInv'
      BY <2>1, <2>4 DEF DeliveryInv, Coming
    <2> QED
      BY <2>2, <2>5, <2>6 DEF PolicyInv
  <1>2. CASE Answer(q) /\ UNCHANGED <<stored, raced>>
    <2>1. /\ \A r \in Request : r # q => /\ rpc'[r] = rpc[r] /\ want'[r] = want[r]
                                         /\ target'[r] = target[r]
          /\ rpc'[q] = "done" /\ target'[q] = None
          /\ UNCHANGED <<stored, hpc, rec, agents, up, apc, conn, cards, toAgent, raced>>
      BY <1>2 DEF StoreCards, Answer, RequestGoto, serverVars, agentVars, TypeOK
    <2>2. PhaseInv'
      BY <2>1, MetricPolicyAssumption DEF PolicyInv, PhaseInv
    <2>3. UnderWay' = UnderWay /\ \A r \in UnderWay : r \in Request /\ r # q
      BY <1>0, <2>1 DEF UnderWay
    <2>4. RaceInv'
      BY <2>1, <2>3 DEF PolicyInv, RaceInv
    <2>5. DeliveryInv'
      BY <2>1, <2>3 DEF PolicyInv, DeliveryInv, Coming, Upcoming, Reads
    <2> QED
      BY <2>2, <2>4, <2>5 DEF PolicyInv
  <1> QED
    BY <1>1, <1>2 DEF StoreCards

\* The change that is not overtaken finds the agent's connection, unless that is
\* between its record and its registration: then it has read this change, or is
\* raced from now on.
LEMMA LookupKeeps ==
    ASSUME TypeOK, PolicyInv, NEW q \in Request, LookupAgent(q)
    PROVE  PolicyInv'
  <1>1. /\ \A r \in Request : r # q => /\ rpc'[r] = rpc[r] /\ want'[r] = want[r]
                                       /\ target'[r] = target[r]
        /\ \/ agents # None /\ rpc'[q] = "send" /\ target'[q] = agents /\ want'[q] = want[q]
           \/ agents = None /\ rpc'[q] = "done" /\ target'[q] = None
        /\ rpc[q] = "lookup"
        /\ UNCHANGED <<stored, hpc, rec, agents, up, apc, conn, cards, toAgent>>
    BY DEF LookupAgent, Answer, RequestGoto, serverVars, agentVars, TypeOK
  <1>2. /\ raced' = raced \cup {c \in Conn : c = conn /\ hpc[c] = "register" /\ rec[c] # want[q]}
        /\ \A r \in Request : r \in raced' <=> r \in raced
    BY MetricPolicyAssumption DEF LookupAgent
  <1>3. agents \in Conn \cup {None}
    BY DEF TypeOK
  <1>4. PhaseInv'
    <2>1. \A c \in Conn : hpc[c] \in {"idle", "hello", "register"} => target'[q] # c
      BY <1>1, MetricPolicyAssumption DEF PolicyInv, PhaseInv
    <2> QED
      BY <1>1, <1>3, <2>1 DEF PolicyInv, PhaseInv
  <1>5. /\ \A r \in Request : r # q => (r \in UnderWay' <=> r \in UnderWay)
        /\ q \in UnderWay /\ UnderWay \subseteq Request /\ UnderWay' \subseteq UnderWay
        /\ agents # None => q \in UnderWay'
    BY <1>1 DEF UnderWay
  <1>6. RaceInv'
    <2>1. q \in UnderWay' => want'[q] = want[q]
      BY <1>1 DEF UnderWay
    <2>2. \A r \in Request \cap raced' : rpc'[r] \notin {"idle", "store"}
      BY <1>1, <1>2 DEF PolicyInv, RaceInv
    <2>3. \A r \in UnderWay' \ raced' : want'[r] = stored
      BY <1>1, <1>2, <1>5, <2>1 DEF PolicyInv, RaceInv
    <2> QED
      BY <1>1, <2>2, <2>3 DEF RaceInv
  <1>7. DeliveryInv'
    <2> SUFFICES ASSUME conn \in Conn \ raced' PROVE DeliveryInv'
      BY <1>1 DEF DeliveryInv
    <2>1. conn \in Conn \ raced
      BY <1>2
    <2>2. q \notin raced => want[q] = stored
      BY <1>5 DEF PolicyInv, RaceInv
    <2>3. hpc[conn] = "register" => rec[conn] = want[q]
      BY <1>2
    <2>4. ASSUME hpc[conn] = "register"
          PROVE  rec[conn] = stored \/ \E r \in UnderWay' \ raced' : rpc'[r] = "lookup"
      <3>1. CASE rec[conn] = stored
        BY <3>1
      <3>2. CASE \E r \in UnderWay \ raced : rpc[r] = "lookup"
        BY <1>1, <1>2, <1>5, <2>2, <2>3, <2>4, <3>2
      <3> QED
        BY <2>1, <2>4, <3>1, <3>2 DEF PolicyInv, DeliveryInv
    <2>5. ASSUME agents = conn, Coming(conn) PROVE Coming(conn)'
      <3>1. PICK r \in UnderWay \ raced : rpc[r] = "lookup" \/ target[r] = conn
        BY <2>5 DEF Coming
      <3>2. r \in UnderWay' \ raced'
        BY <1>2, <1>5, <2>1, <2>5, <3>1, MetricPolicyAssumption
      <3>3. rpc'[r] = "lookup" \/ target'[r] = conn
        BY <1>1, <1>5, <2>1, <2>5, <3>1, MetricPolicyAssumption
      <3> QED
        BY <1>1, <3>2, <3>3 DEF Coming
    <2>6. Upcoming(conn)' = Upcoming(conn) /\ Reads(conn)' = Reads(conn)
      BY <1>1 DEF Upcoming, Reads
    <2> QED
      BY <1>1, <2>1, <2>4, <2>5, <2>6 DEF PolicyInv, DeliveryInv
  <1> QED
    BY <1>4, <1>6, <1>7 DEF PolicyInv

\* metric_policy: the change that is not overtaken ends up last on the wire; one that
\* was makes the connection raced.
LEMMA SendKeeps ==
    ASSUME TypeOK, PolicyInv, NEW q \in Request, SendPolicy(q)
    PROVE  PolicyInv'
  <1> DEFINE t == target[q]
  <1>0. t \in Conn /\ want[q] \in Policy /\ q \in UnderWay /\ rpc[q] = "send"
    BY DEF SendPolicy, UnderWay, PolicyInv, PhaseInv, TypeOK
  <1>1. /\ \A r \in Request : r # q => /\ rpc'[r] = rpc[r] /\ want'[r] = want[r]
                                       /\ target'[r] = target[r]
        /\ rpc'[q] = "done" /\ target'[q] = None
        /\ UNCHANGED <<stored, hpc, rec, agents, up, apc, conn, cards>>
    BY DEF SendPolicy, Answer, RequestGoto, serverVars, agentVars, TypeOK
  <1>2. raced' = IF q \in raced THEN (raced \ {q}) \cup ({t} \cap {conn}) ELSE raced
    BY DEF SendPolicy
  <1>3. /\ toAgent' \in [Conn -> Seq(Message)]
        /\ \A e \in Conn : e # t \/ t \notin up => toAgent'[e] = toAgent[e]
        /\ t \in up => /\ Len(toAgent'[t]) = Len(toAgent[t]) + 1
                       /\ \A i \in 1..Len(toAgent[t]) : toAgent'[t][i] = toAgent[t][i]
                       /\ toAgent'[t][Len(toAgent[t]) + 1].type = "policy"
                       /\ toAgent'[t][Len(toAgent[t]) + 1].cards = want[q]
    BY <1>0, PostFacts DEF SendPolicy, SentCards
  <1>4. /\ toAgent[t] \in Seq(Message) /\ Len(toAgent[t]) \in Nat
        /\ toAgent'[t] \in Seq(Message) /\ Len(toAgent'[t]) \in Nat
        /\ t \in up => toAgent'[t] # <<>>
    BY <1>0, <1>3 DEF TypeOK
  <1>5. hpc[t] \notin {"idle", "hello", "register"}
    BY <1>0 DEF PolicyInv, PhaseInv
  <1> HIDE DEF t
  <1>6. PhaseInv'
    <2>1. \A c \in Conn : hpc[c] \in {"idle", "hello", "register"} =>
             toAgent'[c] = <<>> /\ agents # c /\ \A r \in Request : target'[r] # c
      BY <1>0, <1>1, <1>3, <1>5, MetricPolicyAssumption DEF PolicyInv, PhaseInv
    <2>2. ASSUME NEW c \in Conn, hpc[c] = "ack", NEW i \in 1..Len(toAgent'[c])
          PROVE  toAgent'[c][i].type = "policy"
      <3>1. CASE c = t /\ t \in up
        <4>1. i \in 1..Len(toAgent[t]) \/ i = Len(toAgent[t]) + 1
          BY <1>3, <1>4, <2>2, <3>1
        <4> QED
          BY <1>3, <2>2, <3>1, <4>1 DEF PolicyInv, PhaseInv
      <3>2. CASE ~(c = t /\ t \in up)
        BY <1>3, <2>2, <3>2 DEF PolicyInv, PhaseInv
      <3> QED
        BY <3>1, <3>2
    <2>3. apc = "hello" /\ conn \in up /\ hpc[conn] = "serve" => toAgent'[conn] # <<>>
      BY <1>3, <1>4 DEF PolicyInv, PhaseInv
    <2>4. \A r \in Request : rpc'[r] = "send" => target'[r] \in Conn
      BY <1>1 DEF PolicyInv, PhaseInv
    <2> QED
      BY <1>1, <2>1, <2>2, <2>3, <2>4 DEF PolicyInv, PhaseInv
  <1>7. /\ UnderWay' = UnderWay \ {q} /\ UnderWay \subseteq Request
        /\ \A r \in Request : r # q => (r \in raced' <=> r \in raced)
    <2>1. UnderWay' = UnderWay \ {q} /\ UnderWay \subseteq Request
      BY <1>1 DEF UnderWay
    <2>2. t \notin Request
      BY <1>0, MetricPolicyAssumption
    <2> QED
      BY <1>2, <2>1, <2>2
  <1>8. RaceInv'
    <2>1. \A r \in Request \cap raced' : rpc'[r] \notin {"idle", "store"}
      BY <1>1, <1>7 DEF PolicyInv, RaceInv
    <2>2. \A r \in UnderWay' \ raced' : want'[r] = stored
      BY <1>1, <1>7 DEF PolicyInv, RaceInv
    <2> QED
      BY <1>1, <2>1, <2>2 DEF RaceInv
  <1>9. DeliveryInv'
    <2> SUFFICES ASSUME conn \in Conn \ raced' PROVE DeliveryInv'
      BY <1>1 DEF DeliveryInv
    <2>1. conn \in Conn \ raced
      BY <1>0, <1>2, MetricPolicyAssumption
    <2>2. conn = t => q \notin raced
      BY <1>2
    <2>3. q \notin raced => want[q] = stored
      BY <1>0 DEF PolicyInv, RaceInv
    <2>4. \A r \in UnderWay \ raced : r # q => r \in UnderWay' \ raced' /\ rpc'[r] = rpc[r]
                                               /\ target'[r] = target[r]
      BY <1>1, <1>7
    <2>5. hpc[conn] = "register" =>
             rec[conn] = stored \/ \E r \in UnderWay' \ raced' : rpc'[r] = "lookup"
      BY <1>0, <2>1, <2>4 DEF PolicyInv, DeliveryInv
    <2>6. Coming(conn) /\ conn # t => Coming(conn)'
      BY <1>0, <1>1, <2>4 DEF Coming, t
    <2>7. ASSUME hpc[conn] = "ack", agents = conn, conn \in up, toAgent'[conn] = <<>>
          PROVE  rec[conn] = stored \/ Coming(conn)'
      <3>1. conn # t /\ toAgent'[conn] = toAgent[conn]
        BY <1>3, <1>4, <2>1, <2>7
      <3> QED
        BY <2>1, <2>6, <2>7, <3>1 DEF PolicyInv, DeliveryInv
    <2>8. ASSUME hpc[conn] = "serve", agents = conn, conn \in up, Reads(conn)'
          PROVE  Upcoming(conn)' = stored \/ Coming(conn)'
      <3>1. CASE conn = t
        <4>1. Upcoming(conn)' = toAgent'[conn][Len(toAgent'[conn])].cards
          BY <1>1, <1>4, <2>8, <3>1 DEF Upcoming
        <4> QED
          BY <1>3, <2>2, <2>3, <2>8, <3>1, <4>1
      <3>2. CASE conn # t
        <4>1. toAgent'[conn] = toAgent[conn]
          BY <1>3, <2>1, <3>2
        <4>2. Upcoming(conn)' = Upcoming(conn) /\ Reads(conn)
          BY <1>1, <2>8, <4>1 DEF Upcoming, Reads
        <4> QED
          BY <2>1, <2>6, <2>8, <3>2, <4>2 DEF PolicyInv, DeliveryInv
      <3> QED
        BY <3>1, <3>2
    <2> QED
      BY <1>1, <2>5, <2>7, <2>8 DEF DeliveryInv
  <1> QED
    BY <1>6, <1>8, <1>9 DEF PolicyInv

-----------------------------------------------------------------------------
(* The handler of a connection.                                            *)

\* handleAgentWS reads what is stored at this moment.
LEMMA ReadRecordKeeps ==
    ASSUME TypeOK, PolicyInv, NEW c \in Conn, ReadRecord(c)
    PROVE  PolicyInv'
  <1>1. /\ hpc[c] = "hello" /\ hpc'[c] = "register" /\ rec'[c] = stored
        /\ \A e \in Conn : e # c => hpc'[e] = hpc[e] /\ rec'[e] = rec[e]
        /\ UNCHANGED <<stored, rpc, want, target, agents, up, apc, conn, cards, toAgent, raced>>
    BY PolicyFacts DEF ReadRecord, Goto, requestVars, agentVars, TypeOK
  <1>2. agents \in Conn \cup {None} /\ up \subseteq Conn
    BY DEF TypeOK
  <1>3. PhaseInv'
    BY <1>1, <1>2 DEF PolicyInv, PhaseInv
  <1>4. RaceInv' /\ UnderWay' = UnderWay
    BY <1>1 DEF PolicyInv, RaceInv, UnderWay
  <1>5. DeliveryInv'
    BY <1>1, <1>4 DEF PolicyInv, DeliveryInv, Coming, Upcoming, Reads
  <1> QED
    BY <1>3, <1>4, <1>5 DEF PolicyInv

\* The registration: what the handler has read is stored, or the change that was
\* stored since has yet to look the agents up.
LEMMA RegisterKeeps ==
    ASSUME TypeOK, PolicyInv, NEW c \in Conn, Register(c)
    PROVE  PolicyInv'
  <1>1. /\ hpc[c] = "register" /\ hpc'[c] = "ack" /\ agents' = c /\ up' = up \ {agents}
        /\ \A e \in Conn : e # c => hpc'[e] = hpc[e]
        /\ UNCHANGED <<stored, rpc, want, target, rec, apc, conn, cards, toAgent, raced>>
    BY DEF Register, Goto, requestVars, agentVars, TypeOK
  <1>2. toAgent[c] = <<>> /\ agents # c /\ up \subseteq Conn
    BY <1>1 DEF PolicyInv, PhaseInv, TypeOK
  <1>3. PhaseInv'
    <2>1. \A e \in Conn : hpc'[e] = "ack" =>
             \A i \in 1..Len(toAgent[e]) : toAgent[e][i].type = "policy"
      BY <1>1, <1>2 DEF PolicyInv, PhaseInv
    <2>2. \A e \in Conn : hpc'[e] \in {"idle", "hello", "register"} =>
             e # c /\ toAgent[e] = <<>> /\ \A q \in Request : target[q] # e
      BY <1>1 DEF PolicyInv, PhaseInv
    <2>3. \A e \in up' : hpc'[e] \notin {"idle", "done"}
      BY <1>1, <1>2 DEF PolicyInv, PhaseInv
    <2>4. apc = "online" => hpc'[conn] \in {"serve", "done"}
      BY <1>1 DEF PolicyInv, PhaseInv
    <2>5. apc = "hello" /\ conn \in up' /\ hpc'[conn] = "serve" => toAgent[conn] # <<>>
      BY <1>1, <1>2 DEF PolicyInv, PhaseInv
    <2> QED
      BY <1>1, <2>1, <2>2, <2>3, <2>4, <2>5 DEF PolicyInv, PhaseInv
  <1>4. RaceInv' /\ UnderWay' = UnderWay
    BY <1>1 DEF PolicyInv, RaceInv, UnderWay
  <1>5. DeliveryInv'
    BY <1>1, <1>4 DEF PolicyInv, DeliveryInv, Coming
  <1> QED
    BY <1>3, <1>4, <1>5 DEF PolicyInv

\* hello_ack, with what the handler has read: the agent will have it, or a change
\* follows on the wire, or one was there before the ack and ends the handshake.
LEMMA SendAckKeeps ==
    ASSUME TypeOK, PolicyInv, NEW c \in Conn, SendAck(c)
    PROVE  PolicyInv'
  <1>1. /\ hpc[c] = "ack" /\ hpc'[c] = "serve" /\ rec[c] \in Policy
        /\ \A e \in Conn : e # c => hpc'[e] = hpc[e] /\ rec'[e] = rec[e]
        /\ UNCHANGED <<stored, rpc, want, target, agents, up, apc, conn, cards, raced>>
    BY DEF SendAck, Goto, requestVars, agentVars, TypeOK
  <1>2. /\ toAgent' \in [Conn -> Seq(Message)]
        /\ \A e \in Conn : e # c \/ c \notin up => toAgent'[e] = toAgent[e]
        /\ c \in up => /\ Len(toAgent'[c]) = Len(toAgent[c]) + 1
                       /\ \A i \in 1..Len(toAgent[c]) : toAgent'[c][i] = toAgent[c][i]
                       /\ toAgent'[c][Len(toAgent[c]) + 1].cards = rec[c]
    BY <1>1, PostFacts DEF SendAck, AckCards
  <1>3. /\ toAgent[c] \in Seq(Message) /\ Len(toAgent[c]) \in Nat
        /\ toAgent'[c] \in Seq(Message) /\ Len(toAgent'[c]) \in Nat
        /\ c \in up => toAgent'[c] # <<>>
    BY <1>2 DEF TypeOK
  <1>4. PhaseInv'
    <2>1. \A e \in Conn : hpc'[e] \in {"idle", "hello", "register"} =>
             toAgent'[e] = <<>> /\ agents # e /\ \A q \in Request : target[q] # e
      BY <1>1, <1>2 DEF PolicyInv, PhaseInv
    <2>2. \A e \in Conn : hpc'[e] = "ack" =>
             \A i \in 1..Len(toAgent'[e]) : toAgent'[e][i].type = "policy"
      BY <1>1, <1>2 DEF PolicyInv, PhaseInv
    <2>3. /\ \A e \in up : hpc'[e] \notin {"idle", "done"}
          /\ agents # None => hpc'[agents] \in {"ack", "serve"}
      BY <1>1 DEF PolicyInv, PhaseInv, TypeOK
    <2>4. apc = "online" => hpc'[conn] \in {"serve", "done"}
      BY <1>1 DEF PolicyInv, PhaseInv
    <2>5. apc = "hello" /\ conn \in up /\ hpc'[conn] = "serve" => toAgent'[conn] # <<>>
      BY <1>1, <1>2, <1>3 DEF PolicyInv, PhaseInv
    <2> QED
      BY <1>1, <2>1, <2>2, <2>3, <2>4, <2>5 DEF PolicyInv, PhaseInv
  <1>5. RaceInv' /\ UnderWay' = UnderWay
    BY <1>1 DEF PolicyInv, RaceInv, UnderWay
  <1>6. DeliveryInv'
    <2>1. CASE conn = c
      <3> SUFFICES ASSUME conn \notin raced, agents = conn, conn \in up, Reads(conn)'
                   PROVE  Upcoming(conn)' = stored \/ Coming(conn)'
        BY <1>1, <2>1 DEF DeliveryInv
      <3>1. apc # "online"
        BY <1>1, <2>1 DEF PolicyInv, PhaseInv
      <3>2. toAgent[c] = <<>>
        <4>1. SUFFICES ASSUME toAgent[c] # <<>> PROVE FALSE
          OBVIOUS
        <4>2. 1 \in 1..Len(toAgent[c]) /\ Head(toAgent'[c]) = toAgent'[c][1]
          BY <1>3, <4>1, <2>1
        <4>3. toAgent'[c][1].type = "policy"
          BY <1>1, <1>2, <2>1, <4>2 DEF PolicyInv, PhaseInv
        <4> QED
          BY <1>1, <2>1, <3>1, <4>2, <4>3 DEF Reads
      <3>3. rec[conn] = stored \/ Coming(conn)
        BY <1>1, <2>1, <3>2 DEF PolicyInv, DeliveryInv
      <3>4. Upcoming(conn)' = rec[conn]
        BY <1>1, <1>2, <1>3, <2>1 DEF Upcoming
      <3>5. Coming(conn)' = Coming(conn)
        BY <1>1, <1>5 DEF Coming
      <3> QED
        BY <3>3, <3>4, <3>5
    <2>2. CASE conn # c
      <3>1. conn \in Conn => /\ toAgent'[conn] = toAgent[conn] /\ hpc'[conn] = hpc[conn]
                             /\ rec'[conn] = rec[conn]
        BY <1>1, <1>2, <2>2
      <3> QED
        BY <1>1, <1>5, <3>1 DEF PolicyInv, DeliveryInv, Coming, Upcoming, Reads
    <2> QED
      BY <2>1, <2>2
  <1> QED
    BY <1>4, <1>5, <1>6 DEF PolicyInv

\* The deferred function: the socket of the connection is closed.
LEMMA RemoveKeeps ==
    ASSUME TypeOK, PolicyInv, NEW c \in Conn, RemoveConn(c)
    PROVE  PolicyInv'
  <1>1. /\ hpc[c] = "serve" /\ hpc'[c] = "done" /\ c \notin up
        /\ agents' = IF agents = c THEN None ELSE agents
        /\ \A e \in Conn : e # c => hpc'[e] = hpc[e]
        /\ UNCHANGED <<stored, rpc, want, target, rec, up, apc, conn, cards, toAgent, raced>>
    BY DEF RemoveConn, Goto, requestVars, agentVars, TypeOK
  <1>2. agents \in Conn \cup {None} /\ up \subseteq Conn
    BY DEF TypeOK
  <1>3. PhaseInv'
    BY <1>1, <1>2, MetricPolicyAssumption DEF PolicyInv, PhaseInv
  <1>4. RaceInv' /\ UnderWay' = UnderWay
    BY <1>1 DEF PolicyInv, RaceInv, UnderWay
  <1>5. DeliveryInv'
    BY <1>1, <1>2, <1>4, MetricPolicyAssumption DEF PolicyInv, DeliveryInv, Coming, Upcoming, Reads
  <1> QED
    BY <1>3, <1>4, <1>5 DEF PolicyInv

-----------------------------------------------------------------------------
(* The agent and the network.                                              *)

\* A new connection starts with nothing on its wire and no race.
LEMMA DialKeeps ==
    ASSUME TypeOK, PolicyInv, NEW c \in Conn, Dial(c)
    PROVE  PolicyInv'
  <1>1. /\ hpc[c] = "idle" /\ hpc'[c] = "hello" /\ apc' = "hello" /\ conn' = c
        /\ up' = up \cup {c} /\ raced' = raced \cap Request
        /\ \A e \in Conn : e # c => hpc'[e] = hpc[e]
        /\ UNCHANGED <<stored, rpc, want, target, rec, agents, cards, toAgent>>
    BY DEF Dial, IsNext, Goto, requestVars, TypeOK
  <1>2. agents \in Conn \cup {None} /\ up \subseteq Conn
    BY DEF TypeOK
  <1>3. PhaseInv'
    <2>1. /\ \A e \in up' : hpc'[e] \notin {"idle", "done"}
          /\ agents # None => hpc'[agents] \in {"ack", "serve"}
      BY <1>1, <1>2 DEF PolicyInv, PhaseInv
    <2>2. \A e \in Conn : hpc'[e] \in {"idle", "hello", "register"} =>
             toAgent[e] = <<>> /\ agents # e /\ \A q \in Request : target[q] # e
      BY <1>1 DEF PolicyInv, PhaseInv
    <2> QED
      BY <1>1, <2>1, <2>2 DEF PolicyInv, PhaseInv
  <1>4. RaceInv'
    <2>1. UnderWay' = UnderWay /\ UnderWay \subseteq Request
      BY <1>1 DEF UnderWay
    <2> QED
      BY <1>1, <2>1 DEF PolicyInv, RaceInv
  <1>5. DeliveryInv'
    BY <1>1 DEF DeliveryInv
  <1> QED
    BY <1>3, <1>4, <1>5 DEF PolicyInv

\* A message the agent reads: what it will have stays the same.
LEMMA ReadKeeps ==
    ASSUME TypeOK, PolicyInv, ReadAck \/ ReadPolicy
    PROVE  PolicyInv'
  <1>0. conn \in Conn /\ conn \in up
    BY DEF ReadAck, ReadPolicy, Arrives, PolicyInv, PhaseInv
  <1>1. /\ apc' = "online" /\ cards' = SetMetricCards(cards, Head(toAgent[conn]).cards)
        /\ UNCHANGED <<stored, rpc, want, target, hpc, rec, agents, up, conn, raced>>
    BY DEF ReadAck, ReadPolicy, requestVars, serverVars
  <1>2. PICK ty \in {"ack", "policy"} :
           /\ Arrives(ty)
           /\ ty = "ack" => apc = "hello"
           /\ ty = "policy" => apc = "online"
    BY DEF ReadAck, ReadPolicy
  <1>3. /\ toAgent' \in [Conn -> Seq(Message)]
        /\ \A e \in Conn : e # conn => toAgent'[e] = toAgent[e]
        /\ Len(toAgent[conn]) \in Nat \ {0}
        /\ Len(toAgent'[conn]) = Len(toAgent[conn]) - 1
        /\ \A i \in 1..Len(toAgent'[conn]) : toAgent'[conn][i] = toAgent[conn][i + 1]
        /\ Head(toAgent[conn]) = toAgent[conn][1] /\ Head(toAgent[conn]).cards \in Policy
        /\ toAgent[conn][1].type = ty
    BY <1>0, <1>2, ArrivesFacts
  <1>4. cards' = toAgent[conn][1].cards
    BY <1>1, <1>3, PolicyFacts
  <1>5. toAgent[conn] # <<>> /\ hpc[conn] \in {"ack", "serve"}
    <2>1. toAgent[conn] # <<>>
      BY <1>2 DEF Arrives
    <2> QED
      BY <1>0, <2>1 DEF PolicyInv, PhaseInv, TypeOK
  <1>6. hpc[conn] = "serve"
    <2>1. 1 \in 1..Len(toAgent[conn])
      BY <1>3
    <2>2. hpc[conn] = "ack" => toAgent[conn][1].type = "policy" /\ apc # "online"
      BY <1>0, <2>1 DEF PolicyInv, PhaseInv
    <2> QED
      BY <1>2, <1>3, <1>5, <2>2
  <1>7. PhaseInv'
    <2>1. \A e \in Conn : e = conn => hpc[e] = "serve"
      BY <1>6
    <2> QED
      BY <1>0, <1>1, <1>3, <1>6, <2>1 DEF PolicyInv, PhaseInv
  <1>8. RaceInv' /\ UnderWay' = UnderWay
    BY <1>1 DEF PolicyInv, RaceInv, UnderWay
  <1>9. DeliveryInv'
    <2>1. Reads(conn)
      BY <1>2, <1>3, <1>5 DEF Reads
    <2>2. Upcoming(conn)' = Upcoming(conn)
      <3>1. CASE Len(toAgent[conn]) = 1
        <4>1. toAgent'[conn] = <<>>
          <5>1. toAgent'[conn] \in Seq(Message) /\ Len(toAgent'[conn]) = 0
            BY <1>0, <1>3, <3>1
          <5> QED
            BY <5>1
        <4> QED
          BY <1>1, <1>4, <1>5, <3>1, <4>1 DEF Upcoming
      <3>2. CASE Len(toAgent[conn]) # 1
        <4>0. \A m, n \in Int : n \in Nat \ {0} /\ n # 1 /\ m = n - 1 => m \in 1..m /\ m + 1 = n
          OBVIOUS
        <4>1. /\ Len(toAgent'[conn]) \in 1..Len(toAgent'[conn])
              /\ Len(toAgent'[conn]) + 1 = Len(toAgent[conn])
          <5>1. toAgent'[conn] \in Seq(Message)
            BY <1>0, <1>3
          <5>2. Len(toAgent'[conn]) \in Int /\ Len(toAgent[conn]) \in Int
            BY <1>3, <5>1
          <5> DEFINE m == Len(toAgent'[conn])
                     n == Len(toAgent[conn])
          <5>3. m \in Int /\ n \in Int /\ n \in Nat \ {0} /\ n # 1 /\ m = n - 1
            BY <1>3, <3>2, <5>2
          <5> HIDE DEF m, n
          <5>4. m \in 1..m /\ m + 1 = n
            BY <4>0, <5>3
          <5> QED
            BY <5>4 DEF m, n
        <4>2. toAgent'[conn] # <<>>
          BY <4>1
        <4>3. toAgent'[conn][Len(toAgent'[conn])] = toAgent[conn][Len(toAgent[conn])]
          BY <1>3, <4>1
        <4> QED
          BY <1>1, <1>5, <4>2, <4>3 DEF Upcoming
      <3> QED
        BY <3>1, <3>2
    <2>3. Coming(conn)' = Coming(conn)
      BY <1>1, <1>8 DEF Coming
    <2> QED
      BY <1>1, <1>6, <2>1, <2>2, <2>3 DEF PolicyInv, DeliveryInv
  <1> QED
    BY <1>7, <1>8, <1>9 DEF PolicyInv

\* A socket that closes, and an agent that has noticed, end the claims about its
\* connection.
LEMMA CloseKeeps ==
    ASSUME TypeOK, PolicyInv, EarlyPolicy \/ RunReturns \/ \E c \in Conn : Drop(c)
    PROVE  PolicyInv'
  <1>0. up \subseteq Conn
    BY DEF TypeOK
  <1>1. CASE \E c \in Conn : Drop(c)
    <2>1. /\ up' \subseteq up
          /\ UNCHANGED <<stored, rpc, want, target, hpc, rec, agents, apc, conn, cards, toAgent, raced>>
      BY <1>1 DEF Drop, requestVars, serverVars, agentVars
    <2>2. RaceInv' /\ UnderWay' = UnderWay
      BY <2>1 DEF PolicyInv, RaceInv, UnderWay
    <2>3. PhaseInv' /\ DeliveryInv'
      BY <2>1, <2>2 DEF PolicyInv, PhaseInv, DeliveryInv, Coming, Upcoming, Reads
    <2> QED
      BY <2>2, <2>3 DEF PolicyInv
  <1>2. CASE EarlyPolicy
    <2>1. /\ conn \in Conn /\ up' = up \ {conn} /\ Arrives("policy") /\ apc = "hello"
          /\ UNCHANGED <<stored, rpc, want, target, hpc, rec, agents, apc, conn, cards, raced>>
      BY <1>2 DEF EarlyPolicy, requestVars, serverVars, agentVars, PolicyInv, PhaseInv
    <2>2. /\ toAgent' \in [Conn -> Seq(Message)]
          /\ \A e \in Conn : e # conn => toAgent'[e] = toAgent[e]
          /\ Len(toAgent[conn]) \in Nat \ {0}
          /\ Len(toAgent'[conn]) = Len(toAgent[conn]) - 1
          /\ \A i \in 1..Len(toAgent'[conn]) : toAgent'[conn][i] = toAgent[conn][i + 1]
      BY <2>1, ArrivesFacts
    <2>3. RaceInv' /\ UnderWay' = UnderWay
      BY <2>1 DEF PolicyInv, RaceInv, UnderWay
    <2>4. toAgent[conn] # <<>>
      BY <2>1 DEF Arrives
    <2>5. PhaseInv'
      <3>1. ASSUME NEW c \in Conn, hpc[c] = "ack", NEW i \in 1..Len(toAgent'[c])
            PROVE  toAgent'[c][i].type = "policy"
        <4>1. CASE c = conn
          <5>1. i + 1 \in 1..Len(toAgent[conn]) /\ toAgent'[c][i] = toAgent[conn][i + 1]
            BY <2>2, <3>1, <4>1
          <5> QED
            BY <3>1, <4>1, <5>1 DEF PolicyInv, PhaseInv
        <4>2. CASE c # conn
          BY <2>2, <3>1, <4>2 DEF PolicyInv, PhaseInv
        <4> QED
          BY <4>1, <4>2
      <3>2. \A c \in Conn : hpc[c] \in {"idle", "hello", "register"} => toAgent'[c] = <<>>
        BY <2>1, <2>2, <2>4 DEF PolicyInv, PhaseInv
      <3> QED
        BY <2>1, <3>1, <3>2 DEF PolicyInv, PhaseInv
    <2>6. DeliveryInv'
      BY <2>1, <2>3 DEF PolicyInv, DeliveryInv
    <2> QED
      BY <2>3, <2>5, <2>6 DEF PolicyInv
  <1>3. CASE RunReturns
    <2>1. /\ conn \in Conn /\ conn \notin up /\ apc' = "idle"
          /\ \A e \in Conn : e # conn => toAgent'[e] = toAgent[e]
          /\ toAgent'[conn] = <<>>
          /\ UNCHANGED <<stored, rpc, want, target, hpc, rec, agents, up, conn, cards, raced>>
      BY <1>3 DEF RunReturns, requestVars, serverVars, PolicyInv, PhaseInv, TypeOK
    <2>2. RaceInv' /\ UnderWay' = UnderWay
      BY <2>1 DEF PolicyInv, RaceInv, UnderWay
    <2>3. PhaseInv'
      <3>1. \A c \in Conn : hpc[c] = "ack" =>
               \A i \in 1..Len(toAgent'[c]) : toAgent'[c][i].type = "policy"
        BY <2>1 DEF PolicyInv, PhaseInv
      <3> QED
        BY <2>1, <3>1 DEF PolicyInv, PhaseInv
    <2>4. DeliveryInv'
      BY <2>1, <2>2 DEF PolicyInv, DeliveryInv
    <2> QED
      BY <2>2, <2>3, <2>4 DEF PolicyInv
  <1> QED
    BY <1>1, <1>2, <1>3

-----------------------------------------------------------------------------
(* The theorems.                                                           *)

LEMMA PolicyInit == Init => TypeOK /\ PolicyInv
  <1> SUFFICES ASSUME Init PROVE TypeOK /\ PolicyInv
    OBVIOUS
  <1>1. TypeOK
    <2>1. <<>> \in Seq(Message)
      OBVIOUS
    <2> QED
      BY <2>1, PolicyFacts DEF Init, TypeOK
  <1>2. PhaseInv
    BY MetricPolicyAssumption DEF Init, PhaseInv
  <1>3. RaceInv /\ DeliveryInv
    BY MetricPolicyAssumption DEF Init, RaceInv, DeliveryInv, UnderWay
  <1> QED
    BY <1>1, <1>2, <1>3 DEF PolicyInv

LEMMA PolicyStep == TypeOK /\ PolicyInv /\ [Next]_vars => (TypeOK /\ PolicyInv)'
  <1> SUFFICES ASSUME TypeOK, PolicyInv, [Next]_vars PROVE (TypeOK /\ PolicyInv)'
    OBVIOUS
  <1>0. PhaseInv
    BY DEF PolicyInv
  <1>1. ASSUME NEW q \in Request, NEW i \in Inputs, Begin(q, i) PROVE (TypeOK /\ PolicyInv)'
    BY <1>1, RequestTypes, BeginKeeps
  <1>2. ASSUME NEW q \in Request, RequestStep(q) PROVE (TypeOK /\ PolicyInv)'
    BY <1>0, <1>2, RequestTypes, SendTypes, StoreKeeps, LookupKeeps, SendKeeps DEF RequestStep
  <1>3. ASSUME NEW c \in Conn, HandlerStep(c) PROVE (TypeOK /\ PolicyInv)'
    BY <1>3, HandlerTypes, ReadRecordKeeps, RegisterKeeps, SendAckKeeps, RemoveKeeps DEF HandlerStep
  <1>4. ASSUME NEW c \in Conn, Writer(c) PROVE (TypeOK /\ PolicyInv)'
    <2>1. UNCHANGED <<stored, rpc, want, target, hpc, rec, agents, up, apc, conn, cards, toAgent, raced>>
      BY <1>4 DEF Writer, WriterTakes, WriterStores, WriterFails, WriterStops, requestVars, agentVars
    <2> QED
      BY <1>4, <2>1, WriterTypes, HeartbeatKeeps
  <1>5. CASE Heartbeat
    <2>1. UNCHANGED <<stored, rpc, want, target, hpc, rec, agents, up, apc, conn, cards, toAgent, raced>>
      BY <1>5 DEF Heartbeat, requestVars, agentVars
    <2> QED
      BY <1>0, <1>5, <2>1, AgentTypes, HeartbeatKeeps
  <1>6. CASE AgentReads \/ RunReturns \/ \E c \in Conn : Drop(c)
    <2>1. TypeOK'
      BY <1>0, <1>6, AgentTypes
    <2>2. PolicyInv'
      BY <1>6, ReadKeeps, CloseKeeps DEF AgentReads
    <2> QED
      BY <2>1, <2>2
  <1>7. ASSUME NEW c \in Conn, Dial(c) PROVE (TypeOK /\ PolicyInv)'
    BY <1>0, <1>7, AgentTypes, DialKeeps
  <1>8. CASE UNCHANGED vars
    <2>1. TypeOK'
      BY <1>8 DEF vars, requestVars, serverVars, agentVars, TypeOK
    <2>2. PolicyInv'
      BY <1>8, HeartbeatKeeps DEF vars, requestVars, serverVars, agentVars
    <2> QED
      BY <2>1, <2>2
  <1> QED
    BY <1>1, <1>2, <1>3, <1>4, <1>5, <1>6, <1>7, <1>8 DEF Next, Writer

\* The inductive invariant: where the stored policy is, between the row, the record of
\* a handler, the wire and the agent.
THEOREM PolicyInvHolds == Spec => [](TypeOK /\ PolicyInv)
  BY PolicyInit, PolicyStep, PTL DEF Spec

\* Whatever lists requests bring, the row, the messages, the agent and the heartbeats
\* have normalized ones: NormalizeMetricCards stands in front of them all.
THEOREM TypeCorrect == Spec => []TypeOK
  BY PolicyInvHolds, PTL

\* A registered agent with nothing under way has the stored policy, unless its
\* connection met one of the two windows handleMetricCards leaves open.
THEOREM AppliedUnlessRacedHolds == Spec => []AppliedUnlessRaced
  <1>1. TypeOK /\ PolicyInv => AppliedUnlessRaced
    <2> SUFFICES ASSUME TypeOK, PolicyInv, Quiet, conn \notin raced PROVE cards = stored
      BY DEF AppliedUnlessRaced
    <2>1. conn \in Conn /\ conn = agents /\ hpc[conn] = "serve"
      BY MetricPolicyAssumption DEF Quiet, PolicyInv, PhaseInv
    <2>2. Reads(conn) /\ Upcoming(conn) = cards /\ ~Coming(conn)
      BY DEF Quiet, Reads, Upcoming, Coming
    <2> QED
      BY <2>1, <2>2 DEF Quiet, PolicyInv, DeliveryInv
  <1> QED
    BY <1>1, PolicyInvHolds, PTL

=============================================================================
