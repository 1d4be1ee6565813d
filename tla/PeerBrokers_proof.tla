--------------------------- MODULE PeerBrokers_proof ---------------------------
(***************************************************************************)
(* The whole of peering.cpp, for any number of brokers, clients and        *)
(* workers: the handshake, which clients, workers, links and routing do    *)
(* not disturb; where each message may be and where it leads; whose turn   *)
(* it is; and how many copies of a request there are.                      *)
(***************************************************************************)
EXTENDS PeerBrokers, SequenceFacts

-----------------------------------------------------------------------------
(* The handshake.  HandshakeIsMutual is not inductive: a broker leaves the   *)
(* collecting phase when its counter is 0, so the proof needs that the       *)
(* counter is the number of peers that are still to be answered.             *)

\* The peers whose notification b has not answered.
Pending(b) == {p \in Peers(b) : notice[p][b] # "answered"}

\* A broker that has not notified anybody has not answered anybody either.
Early(b) ==
    phase[b] \in {"down", "bound"} =>
        \A p \in Peers(b) : notice[p][b] # "answered" /\ notice[b][p] = "none"

Counted(b) == phase[b] = "collect" => count[b] = Cardinality(Pending(b))

Late(b) == /\ phase[b] \in {"ack", "running"} => Pending(b) = {}
           /\ phase[b] = "running" => AllAnswered(b)

HandshakeInv == HandshakeTypeOK /\ \A b \in Brokers : Early(b) /\ Counted(b) /\ Late(b)

-----------------------------------------------------------------------------
\* The peers of a broker can be counted, and so can any of them.
LEMMA PeersFinite ==
    ASSUME NEW b \in Brokers, NEW S \in SUBSET Peers(b)
    PROVE  /\ IsFiniteSet(Peers(b)) /\ IsFiniteSet(S)
           /\ Cardinality(S) \in 0 .. Cardinality(Brokers)
<1>1. Peers(b) \in SUBSET Brokers /\ S \in SUBSET Brokers
  BY DEF Peers
<1>2. IsFiniteSet(S) /\ Cardinality(S) <= Cardinality(Brokers)
  BY <1>1, BrokersAssumption, FS_Subset
<1>3. IsFiniteSet(Peers(b))
  BY <1>1, BrokersAssumption, FS_Subset
<1>4. Cardinality(S) \in Nat /\ Cardinality(Brokers) \in Nat
  BY <1>2, BrokersAssumption, FS_CardinalityType
<1> QED
  BY <1>2, <1>3, <1>4

LEMMA HandshakeInitHolds == HandshakeInit => HandshakeInv
<1> SUFFICES ASSUME HandshakeInit PROVE HandshakeInv
  OBVIOUS
<1>1. Cardinality(Brokers) \in Nat
  BY BrokersAssumption, FS_CardinalityType
<1>2. HandshakeTypeOK
  BY <1>1 DEF HandshakeInit, HandshakeTypeOK
<1>3. \A b \in Brokers : Early(b) /\ Counted(b) /\ Late(b)
  BY DEF HandshakeInit, Early, Counted, Late, Peers
<1> QED
  BY <1>2, <1>3 DEF HandshakeInv

-----------------------------------------------------------------------------
(* One lemma per action. *)

LEMMA StartKeeps == ASSUME HandshakeInv, NEW a \in Brokers, Start(a) PROVE HandshakeInv'
<1>1. HandshakeTypeOK'
  BY DEF HandshakeInv, HandshakeTypeOK, Start
<1>2. ASSUME NEW b \in Brokers PROVE (Early(b) /\ Counted(b) /\ Late(b))'
  <2>1. Early(b)'
    BY DEF HandshakeInv, HandshakeTypeOK, Start, Early, Peers
  <2>2. Pending(b)' = Pending(b) /\ (AllAnswered(b)' <=> AllAnswered(b))
    BY DEF Start, Pending, AllAnswered, Peers
  <2>3. Counted(b)' /\ Late(b)'
    BY <2>2 DEF HandshakeInv, HandshakeTypeOK, Start, Counted, Late
  <2> QED
    BY <2>1, <2>3
<1> QED
  BY <1>1, <1>2 DEF HandshakeInv

LEMMA NotifyKeeps == ASSUME HandshakeInv, NEW a \in Brokers, Notify(a) PROVE HandshakeInv'
<1>1. Peers(a) \subseteq Brokers /\ Cardinality(Peers(a)) \in 0 .. Cardinality(Brokers)
  BY PeersFinite DEF Peers
<1>2. HandshakeTypeOK'
  BY <1>1 DEF HandshakeInv, HandshakeTypeOK, Notify, Expected
<1>3. \A b \in Brokers : \A p \in Peers(b) :
        notice'[p][b] = "answered" <=> notice[p][b] = "answered"
  BY DEF HandshakeInv, HandshakeTypeOK, Notify, Early, Peers
<1>4. ASSUME NEW b \in Brokers PROVE (Early(b) /\ Counted(b) /\ Late(b))'
  <2>1. Pending(b)' = Pending(b)
    BY <1>3 DEF Pending, Peers
  <2>2. CASE b = a
    <3>1. Pending(a) = Peers(a)
      BY DEF HandshakeInv, Notify, Early, Pending
    <3> QED
      BY <2>1, <2>2, <3>1 DEF HandshakeInv, HandshakeTypeOK, Notify, Expected, Early, Counted, Late, Peers
  <2>3. CASE b # a
    <3>1. phase'[b] = phase[b] /\ count'[b] = count[b] /\ notice'[b] = notice[b]
      BY <2>3 DEF HandshakeInv, HandshakeTypeOK, Notify
    <3>2. Early(b)'
      BY <1>3, <3>1 DEF HandshakeInv, Early, Peers
    <3>3. Counted(b)' /\ Late(b)'
      BY <2>1, <3>1 DEF HandshakeInv, Counted, Late, AllAnswered, Peers
    <3> QED
      BY <3>2, <3>3
  <2> QED
    BY <2>2, <2>3
<1> QED
  BY <1>2, <1>4 DEF HandshakeInv

LEMMA DeliverKeeps ==
    ASSUME HandshakeInv, NEW a \in Brokers, NEW q \in Peers(a), Deliver(a, q) PROVE HandshakeInv'
<1>1. HandshakeTypeOK'
  BY DEF HandshakeInv, HandshakeTypeOK, Deliver, Peers
<1>2. \A b, p \in Brokers : notice'[p][b] = "answered" <=> notice[p][b] = "answered"
  BY DEF HandshakeInv, HandshakeTypeOK, Deliver, Peers
<1>3. ASSUME NEW b \in Brokers PROVE (Early(b) /\ Counted(b) /\ Late(b))'
  <2>1. Pending(b)' = Pending(b) /\ (AllAnswered(b)' <=> AllAnswered(b))
    BY <1>2 DEF Pending, AllAnswered, Peers
  <2>2. Early(b)'
    BY <1>2 DEF HandshakeInv, HandshakeTypeOK, Deliver, Early, Peers
  <2>3. Counted(b)' /\ Late(b)'
    BY <2>1 DEF HandshakeInv, Deliver, Counted, Late
  <2> QED
    BY <2>2, <2>3
<1> QED
  BY <1>1, <1>3 DEF HandshakeInv

LEMMA AnswerKeeps ==
    ASSUME HandshakeInv, NEW a \in Brokers, NEW q \in Peers(a), Answer(a, q) PROVE HandshakeInv'
<1> USE DEF Answer, Collecting
<1>0. q \in Brokers /\ q # a
  BY DEF Peers
<1>1. HandshakeTypeOK'
  <2>1. count[a] - 1 \in 0 .. Cardinality(Brokers)
    BY BrokersAssumption, FS_CardinalityType DEF HandshakeInv, HandshakeTypeOK
  <2> QED
    BY <1>0, <2>1 DEF HandshakeInv, HandshakeTypeOK
<1>2. \A b, p \in Brokers : notice'[p][b] = IF p = q /\ b = a THEN "answered" ELSE notice[p][b]
  BY <1>0 DEF HandshakeInv, HandshakeTypeOK
<1>3. ASSUME NEW b \in Brokers PROVE (Early(b) /\ Counted(b) /\ Late(b))'
  <2>1. Early(b)'
    BY <1>0, <1>2 DEF HandshakeInv, HandshakeTypeOK, Early, Peers
  <2>2. CASE b = a
    <3>1. Pending(a)' = Pending(a) \ {q} /\ q \in Pending(a)
      BY <1>0, <1>2 DEF Pending, Peers
    <3>2. IsFiniteSet(Pending(a))
      BY PeersFinite DEF Pending
    <3>3. Cardinality(Pending(a)') = Cardinality(Pending(a)) - 1
      BY <3>1, <3>2, FS_RemoveElement
    <3>4. Counted(a)'
      BY <3>3 DEF HandshakeInv, HandshakeTypeOK, Counted
    <3>5. Late(a)'
      BY DEF HandshakeInv, HandshakeTypeOK, Late
    <3> QED
      BY <2>1, <2>2, <3>4, <3>5
  <2>3. CASE b # a
    <3>1. Pending(b)' = Pending(b) /\ phase'[b] = phase[b] /\ count'[b] = count[b]
      BY <1>2, <2>3 DEF HandshakeInv, HandshakeTypeOK, Pending, Peers
    <3>2. AllAnswered(b) => AllAnswered(b)'
      BY <1>2 DEF AllAnswered, Peers
    <3> QED
      BY <2>1, <3>1, <3>2 DEF HandshakeInv, Counted, Late
  <2> QED
    BY <2>2, <2>3
<1> QED
  BY <1>1, <1>3 DEF HandshakeInv

LEMMA CollectedKeeps == ASSUME HandshakeInv, NEW a \in Brokers, Collected(a) PROVE HandshakeInv'
<1>1. HandshakeTypeOK'
  BY DEF HandshakeInv, HandshakeTypeOK, Collected
<1>2. Pending(a) = {}
  <2>1. IsFiniteSet(Pending(a))
    BY PeersFinite DEF Pending
  <2>2. Cardinality(Pending(a)) = 0
    BY DEF HandshakeInv, Counted, Collected
  <2> QED
    BY <2>1, <2>2, FS_EmptySet
<1>3. ASSUME NEW b \in Brokers PROVE (Early(b) /\ Counted(b) /\ Late(b))'
  <2>1. Early(b)'
    BY DEF HandshakeInv, HandshakeTypeOK, Collected, Early, Peers
  <2>0. Pending(b)' = Pending(b)
    BY DEF Collected, Pending, Peers
  <2>2. Counted(b)'
    BY <2>0 DEF HandshakeInv, HandshakeTypeOK, Collected, Counted
  <2>3. Late(b)'
    BY <1>2 DEF HandshakeInv, HandshakeTypeOK, Collected, Late, Pending, AllAnswered, Peers
  <2> QED
    BY <2>1, <2>2, <2>3
<1> QED
  BY <1>1, <1>3 DEF HandshakeInv

LEMMA ReadAnswersKeeps == ASSUME HandshakeInv, NEW a \in Brokers, ReadAnswers(a) PROVE HandshakeInv'
<1>1. HandshakeTypeOK'
  BY DEF HandshakeInv, HandshakeTypeOK, ReadAnswers
<1>2. ASSUME NEW b \in Brokers PROVE (Early(b) /\ Counted(b) /\ Late(b))'
  <2>1. Early(b)'
    BY DEF HandshakeInv, HandshakeTypeOK, ReadAnswers, Early, Peers
  <2>0. Pending(b)' = Pending(b)
    BY DEF ReadAnswers, Pending, Peers
  <2>2. Counted(b)'
    BY <2>0 DEF HandshakeInv, HandshakeTypeOK, ReadAnswers, Counted
  <2>3. Late(b)'
    BY DEF HandshakeInv, HandshakeTypeOK, ReadAnswers, Late, Pending, AllAnswered, Peers
  <2> QED
    BY <2>1, <2>2, <2>3
<1> QED
  BY <1>1, <1>2 DEF HandshakeInv

-----------------------------------------------------------------------------
LEMMA HandshakeStepKeeps == HandshakeInv /\ [HandshakeNext]_handshakeVars => HandshakeInv'
<1> SUFFICES ASSUME HandshakeInv, [HandshakeNext]_handshakeVars PROVE HandshakeInv'
  OBVIOUS
<1>1. CASE UNCHANGED handshakeVars
  BY <1>1 DEF HandshakeInv, HandshakeTypeOK, Early, Counted, Late, Pending, AllAnswered, Peers, handshakeVars
<1>2. ASSUME NEW b \in Brokers, Start(b) PROVE HandshakeInv'
  BY <1>2, StartKeeps
<1>3. ASSUME NEW b \in Brokers, StartUp(b) PROVE HandshakeInv'
  BY <1>3, NotifyKeeps, CollectedKeeps, ReadAnswersKeeps, AnswerKeeps DEF StartUp
<1>4. ASSUME NEW b \in Brokers, Carry(b) PROVE HandshakeInv'
  BY <1>4, DeliverKeeps DEF Carry
<1> QED
  BY <1>1, <1>2, <1>3, <1>4 DEF HandshakeNext

\* The variables keep their types; a counter never goes below 0.
THEOREM HandshakeTypeCorrect == HandshakeSpec => []HandshakeTypeOK
<1>1. HandshakeInv => HandshakeTypeOK
  BY DEF HandshakeInv
<1> QED
  BY <1>1, HandshakeInitHolds, HandshakeStepKeeps, PTL DEF HandshakeSpec

\* Whatever the number of brokers and the order they start in, a broker that
\* routes has exchanged notifications with every peer (peering.cpp:221-247).
THEOREM NobodyIsMissed == HandshakeSpec => []HandshakeIsMutual
<1>1. HandshakeInv => HandshakeIsMutual
  BY DEF HandshakeInv, Late, Pending, AllAnswered, HandshakeIsMutual
<1> QED
  BY <1>1, HandshakeInitHolds, HandshakeStepKeeps, PTL DEF HandshakeSpec

-----------------------------------------------------------------------------
(* The handshake within the whole system. *)

\* A step of the brokers is a step of the handshake or leaves it alone.
LEMMA StepGreets == [Next]_vars => [HandshakeNext]_handshakeVars
<1> SUFFICES ASSUME [Next]_vars PROVE [HandshakeNext]_handshakeVars
  OBVIOUS
<1> USE DEF Client, Worker, Broker, Stop, Link, HandshakeStep
<1>1. CASE UNCHANGED vars
  BY <1>1 DEF vars
<1>2. CASE HandshakeStep
  BY <1>2
<1>3. ASSUME NEW c \in Clients, Client(c) PROVE UNCHANGED handshakeVars
  BY <1>3
<1>4. ASSUME NEW w \in Workers, Worker(w) PROVE UNCHANGED handshakeVars
  BY <1>4
<1>5. ASSUME NEW b \in Brokers, Broker(b) \/ Stop(b) PROVE UNCHANGED handshakeVars
  BY <1>5
<1>6. ASSUME NEW b \in Brokers, NEW p \in Peers(b), Link(b, p) PROVE UNCHANGED handshakeVars
  BY <1>6
<1> QED
  BY <1>1, <1>2, <1>3, <1>4, <1>5, <1>6 DEF Next

\* Whatever the number of brokers, of their clients and of their workers, a broker
\* that routes has exchanged notifications with every peer (peering.cpp:221-247).
THEOREM RoutesAfterGreeting == Spec => []HandshakeIsMutual
<1>1. Init => HandshakeInv
  BY HandshakeInitHolds DEF Init
<1>2. HandshakeInv /\ [Next]_vars => HandshakeInv'
  BY StepGreets, HandshakeStepKeeps
<1>3. HandshakeInv => HandshakeIsMutual
  BY DEF HandshakeInv, Late, Pending, AllAnswered, HandshakeIsMutual
<1> QED
  BY <1>1, <1>2, <1>3, PTL DEF Spec
-----------------------------------------------------------------------------
(* Where an envelope may be.  The inductive invariant says it with the type   *)
(* of each queue.                                                             *)

\* What leads straight to a client of b, and what b sends through a peer.
Direct(b) == {<<c>> : c \in ClientsOf(b)}
Through(b) == UNION {{<<p, c>> : c \in ClientsOf(p)} : p \in Peers(b)}
EnvAt(b) == Direct(b) \cup Through(b)

Message == Envelope \cup {READY}

Typed ==
    /\ cpc \in [Clients -> {"send", "wait"}]
    /\ sent \in [Clients -> 0 .. MaxRequests]
    /\ replies \in [Clients -> Nat]
    /\ wpc \in [Workers -> {"start", "wait"}]
    /\ localfe \subseteq Clients
    /\ linked \in [Brokers -> SUBSET Brokers]
    /\ lost \subseteq Clients
    /\ bpc \in [Brokers -> {"backends", "frontends", "closed"}]

QueuesTyped ==
    /\ tasks \in [Workers -> Seq(Envelope)]
    /\ localbe \in [Workers -> Seq(Message)]
    /\ cloudfe \in [Brokers -> [Brokers -> Seq(Envelope)]]
    /\ cloudbe \in [Brokers -> [Brokers -> Seq(Envelope)]]
    /\ worker_queue \in [Brokers -> Seq(Workers)]

QueuesLeadHome ==
    /\ \A w \in Workers : /\ tasks[w] \in Seq(EnvAt(Home(w)))
                          /\ localbe[w] \in Seq(EnvAt(Home(w)) \cup {READY})
    /\ \A b, p \in Brokers : /\ cloudfe[b][p] \in Seq(Direct(p))
                             /\ cloudbe[b][p] \in Seq(Direct(b))
    /\ \A b \in Brokers : worker_queue[b] \in Seq(WorkersOf(b))

\* The client a message is to return to.
Goes(env, c) == env # READY /\ env[Len(env)] = c

-----------------------------------------------------------------------------
\* The names: a client's or a worker's broker is one of them.
LEMMA NameFacts ==
    /\ \A c \in Clients : Home(c) \in Brokers /\ c \in ClientsOf(Home(c)) /\ c \notin Brokers
    /\ \A w \in Workers : Home(w) \in Brokers /\ w \in WorkersOf(Home(w))
    /\ \A b : ClientsOf(b) \subseteq Clients /\ \A c \in ClientsOf(b) : Home(c) = b
    /\ \A b : WorkersOf(b) \subseteq Workers /\ \A w \in WorkersOf(b) : Home(w) = b
    /\ \A b \in Brokers : \A p \in Peers(b) : p \in Brokers /\ b \in Peers(p) /\ p # b
<1>1. \A c \in Clients : Home(c) \in Brokers
  BY DEF Clients, Home
<1>2. \A w \in Workers : Home(w) \in Brokers
  BY DEF Workers, Home
<1> QED
  BY <1>1, <1>2, NamesAssumption DEF ClientsOf, WorkersOf, Peers

\* An envelope without a peer's name is for a client of the broker that has it; one
\* with a peer's name is for a client of that peer.
LEMMA DirectFacts ==
    ASSUME NEW b \in Brokers, NEW env \in Direct(b)
    PROVE  /\ env \in Envelope /\ env # READY /\ env \in EnvAt(b)
           /\ Len(env) = 1 /\ env = <<env[1]>> /\ Head(env) = env[1]
           /\ env[1] \in ClientsOf(b)
           /\ Head(env) \notin Brokers /\ Goes(env, Head(env))
<1>1. PICK c \in ClientsOf(b) : env = <<c>>
  BY DEF Direct
<1>2. c \in Clients /\ c \notin Brokers
  BY NameFacts
<1>3. env # << >> /\ Len(env) = 1 /\ env[1] = c /\ Head(env) = c
  BY <1>1
<1> QED
  BY <1>1, <1>2, <1>3 DEF Envelope, READY, EnvAt, Goes

LEMMA ThroughFacts ==
    ASSUME NEW b \in Brokers, NEW env \in Through(b)
    PROVE  /\ env \in Envelope /\ env # READY /\ env \in EnvAt(b)
           /\ Len(env) = 2 /\ env[1] \in Peers(b) /\ env[2] \in ClientsOf(env[1])
           /\ Head(env) = env[1] /\ Goes(env, env[2])
           /\ Tail(env) = <<env[2]>> /\ Tail(env) \in Direct(Head(env))
<1>1. PICK p \in Peers(b) : \E c \in ClientsOf(p) : env = <<p, c>>
  BY DEF Through
<1>0. PICK c \in ClientsOf(p) : env = <<p, c>>
  BY <1>1
<1>2. c \in Clients /\ p \in Brokers
  BY NameFacts
<1>3. /\ env # << >> /\ Len(env) = 2 /\ env[1] = p /\ env[2] = c
      /\ Head(env) = p /\ Tail(env) = <<c>>
  BY <1>0
<1>4. env \in Brokers \X Clients
  BY <1>0, <1>2
<1> QED
  BY <1>0, <1>2, <1>3, <1>4 DEF Envelope, READY, EnvAt, Goes, Direct

\* A broker that puts a peer's name before the peer's request.
LEMMA WrapFacts ==
    ASSUME NEW b \in Brokers, NEW p \in Peers(b), NEW env \in Direct(p)
    PROVE  Wrapped(p, env) = <<p, env[1]>> /\ Wrapped(p, env) \in Through(b)
<1>1. PICK c \in ClientsOf(p) : env = <<c>>
  BY DEF Direct
<1>2. <<p>> \o <<c>> = <<p, c>>
  BY PairFacts
<1> QED
  BY <1>1, <1>2 DEF Wrapped, Through

LEMMA ReadyFacts == READY \in Message /\ Envelope \subseteq Message /\ \A c : ~ Goes(READY, c)
  BY DEF Message, Goes

\* What heads the queues.
LEMMA HeadFacts ==
    ASSUME QueuesLeadHome
    PROVE  /\ \A w \in Workers :
                /\ tasks[w] # << >> => Head(tasks[w]) \in EnvAt(Home(w))
                /\ localbe[w] # << >> => Head(localbe[w]) \in EnvAt(Home(w)) \cup {READY}
           /\ \A b, p \in Brokers :
                /\ cloudfe[b][p] # << >> => Head(cloudfe[b][p]) \in Direct(p)
                /\ cloudbe[b][p] # << >> => Head(cloudbe[b][p]) \in Direct(b)
           /\ \A b \in Brokers : worker_queue[b] # << >> =>
                /\ Head(worker_queue[b]) \in WorkersOf(b)
                /\ Head(worker_queue[b]) \in Workers
                /\ Home(Head(worker_queue[b])) = b
<1>1. \A S : \A s \in Seq(S) : s # << >> => Head(s) \in S
  OBVIOUS
<1> QED
  BY <1>1, NameFacts DEF QueuesLeadHome

-----------------------------------------------------------------------------
(* What the two parts that actions share do to the queues.                    *)

\* A reply moves to the peer its envelope names, or is given to its client.
LEMMA RouteFacts ==
    ASSUME NEW b \in Brokers, NEW env \in EnvAt(b), NEW unrouted,
           Typed, Route(b, env, unrouted)
    PROVE  \/ /\ env \in Through(b)
              /\ cloudbe' = [unrouted EXCEPT ![Head(env)][b] = Append(@, Tail(env))]
              /\ replies' = replies
           \/ /\ env \in Direct(b)
              /\ cloudbe' = unrouted
              /\ replies' = [replies EXCEPT ![Head(env)] = @ + 1]
<1>1. CASE env \in Through(b)
  <2>1. Head(env) \in Peers(b)
    BY <1>1, ThroughFacts
  <2> QED BY <1>1, <2>1 DEF Route
<1>2. CASE env \in Direct(b)
  <2>1. /\ Head(env) \notin Peers(b) /\ Head(env) \in Clients /\ Home(Head(env)) = b
    BY <1>2, DirectFacts, NameFacts DEF Peers
  <2>2. /\ cloudbe' = unrouted
        /\ replies' = [c \in Clients |-> IF c = Head(env) /\ Home(c) = b
                                         THEN replies[c] + 1 ELSE replies[c]]
    BY <2>1 DEF Route
  <2>3. replies' = [replies EXCEPT ![Head(env)] = @ + 1]
    BY <2>1, <2>2 DEF Typed
  <2> QED BY <1>2, <2>2, <2>3
<1> QED
  BY <1>1, <1>2 DEF EnvAt

\* The replies and the cloud's replies stay what they should be.
LEMMA RouteTypes ==
    ASSUME NEW b \in Brokers, NEW env \in EnvAt(b), NEW unrouted,
           unrouted \in [Brokers -> [Brokers -> Seq(Envelope)]],
           \A a, p \in Brokers : unrouted[a][p] \in Seq(Direct(a)),
           Typed, Route(b, env, unrouted)
    PROVE  /\ replies' \in [Clients -> Nat]
           /\ cloudbe' \in [Brokers -> [Brokers -> Seq(Envelope)]]
           /\ \A a, p \in Brokers : cloudbe'[a][p] \in Seq(Direct(a))
<1>1. CASE /\ env \in Through(b)
           /\ cloudbe' = [unrouted EXCEPT ![Head(env)][b] = Append(@, Tail(env))]
           /\ replies' = replies
  <2> DEFINE e == Tail(env)
             q == Head(env)
  <2>1. e \in Direct(q) /\ q \in Brokers
    BY <1>1, ThroughFacts DEF Peers
  <2>2. e \in Envelope
    BY <2>1, DirectFacts
  <2> HIDE DEF e, q
  <2>3. cloudbe' = [unrouted EXCEPT ![q][b] = Append(@, e)]
    BY <1>1 DEF e, q
  <2>4. Append(unrouted[q][b], e) \in Seq(Envelope) /\ Append(unrouted[q][b], e) \in Seq(Direct(q))
    BY <2>1, <2>2
  <2>5. cloudbe' \in [Brokers -> [Brokers -> Seq(Envelope)]]
    BY <2>1, <2>3, <2>4
  <2>6. ASSUME NEW a \in Brokers, NEW p \in Brokers PROVE cloudbe'[a][p] \in Seq(Direct(a))
    BY <2>1, <2>3, <2>4
  <2> QED BY <1>1, <2>5, <2>6 DEF Typed
<1>2. CASE /\ env \in Direct(b)
           /\ cloudbe' = unrouted
           /\ replies' = [replies EXCEPT ![Head(env)] = @ + 1]
  <2>1. replies \in [Clients -> Nat]
    BY DEF Typed
  <2>2. ASSUME NEW c \in Clients PROVE [replies EXCEPT ![c] = @ + 1] \in [Clients -> Nat]
    BY <2>1
  <2>3. Head(env) \in Clients
    BY <1>2, DirectFacts, NameFacts
  <2> QED BY <1>2, <2>2, <2>3
<1> QED
  BY <1>1, <1>2, RouteFacts

LEMMA ToWorkerTypes ==
    ASSUME NEW b \in Brokers, NEW env \in EnvAt(b),
           QueuesTyped, QueuesLeadHome, worker_queue[b] # << >>, ToWorker(b, env)
    PROVE  /\ tasks' \in [Workers -> Seq(Envelope)]
           /\ worker_queue' \in [Brokers -> Seq(Workers)]
           /\ \A w \in Workers : tasks'[w] \in Seq(EnvAt(Home(w)))
           /\ \A a \in Brokers : worker_queue'[a] \in Seq(WorkersOf(a))
<1> DEFINE w == Head(worker_queue[b])
<1>1. w \in Workers /\ Home(w) = b
  BY HeadFacts
<1>2. env \in Envelope
  BY DirectFacts, ThroughFacts DEF EnvAt
<1> HIDE DEF w
<1>3. /\ tasks' = [tasks EXCEPT ![w] = Append(@, env)]
      /\ worker_queue' = [worker_queue EXCEPT ![b] = Tail(@)]
  BY DEF ToWorker, w
<1>4. Append(tasks[w], env) \in Seq(Envelope) /\ Append(tasks[w], env) \in Seq(EnvAt(Home(w)))
  <2>1. tasks[w] \in Seq(Envelope) /\ tasks[w] \in Seq(EnvAt(b))
    BY <1>1 DEF QueuesTyped, QueuesLeadHome
  <2> QED BY <1>1, <1>2, <2>1
<1>5. Tail(worker_queue[b]) \in Seq(Workers) /\ Tail(worker_queue[b]) \in Seq(WorkersOf(b))
  BY DEF QueuesTyped, QueuesLeadHome
<1>6. tasks' \in [Workers -> Seq(Envelope)] /\ \A x \in Workers : tasks'[x] \in Seq(EnvAt(Home(x)))
  BY <1>1, <1>3, <1>4 DEF QueuesTyped, QueuesLeadHome
<1>7. /\ worker_queue' \in [Brokers -> Seq(Workers)]
      /\ \A a \in Brokers : worker_queue'[a] \in Seq(WorkersOf(a))
  BY <1>3, <1>5 DEF QueuesTyped, QueuesLeadHome
<1> QED
  BY <1>6, <1>7

-----------------------------------------------------------------------------
(* Types are kept, and every envelope stays where it leads home.              *)

Types == Typed /\ QueuesTyped /\ QueuesLeadHome

LEMMA TypesInit == Init => Types
<1> SUFFICES ASSUME Init PROVE Types
  OBVIOUS
<1>1. 0 \in 0 .. MaxRequests
  BY PeeringAssumption
<1>2. \A S : << >> \in Seq(S)
  OBVIOUS
<1> QED
  BY <1>1, <1>2 DEF Init, Types, Typed, QueuesTyped, QueuesLeadHome

LEMMA ClientTypes == ASSUME Types, NEW c \in Clients, Client(c) PROVE Types'
<1>1. UNCHANGED <<tasks, localbe, cloudfe, cloudbe, worker_queue>>
  BY DEF Client, ClientSend, ClientReceive, workerVars, cloudVars
<1>2. QueuesTyped' /\ QueuesLeadHome'
  BY <1>1 DEF Types, QueuesTyped, QueuesLeadHome
<1>3. Typed'
  <2>1. UNCHANGED <<wpc, linked, lost, bpc>>
    BY DEF Client, ClientSend, ClientReceive, workerVars, cloudVars
  <2>2. cpc' \in [Clients -> {"send", "wait"}] /\ localfe' \subseteq Clients
    BY DEF Client, ClientSend, ClientReceive, Types, Typed
  <2>3. sent' \in [Clients -> 0 .. MaxRequests]
    BY PeeringAssumption DEF Client, ClientSend, ClientReceive, Types, Typed
  <2>4. replies' \in [Clients -> Nat]
    BY DEF Client, ClientSend, ClientReceive, Types, Typed
  <2> QED BY <2>1, <2>2, <2>3, <2>4 DEF Types, Typed
<1> QED
  BY <1>2, <1>3 DEF Types

LEMMA WorkerTypes == ASSUME Types, NEW w \in Workers, Worker(w) PROVE Types'
<1> DEFINE e == IF wpc[w] = "start" THEN READY ELSE Head(tasks[w])
<1>1. Typed'
  <2>1. UNCHANGED <<cpc, sent, replies, localfe, linked, lost, bpc>>
    BY DEF Worker, WorkerStart, WorkerAnswer, clientVars, cloudVars
  <2>2. wpc' \in [Workers -> {"start", "wait"}]
    BY DEF Worker, WorkerStart, WorkerAnswer, Types, Typed
  <2> QED BY <2>1, <2>2 DEF Types, Typed
<1>2. /\ UNCHANGED <<cloudfe, cloudbe, worker_queue>>
      /\ localbe' = [localbe EXCEPT ![w] = Append(@, e)]
      /\ tasks' = tasks \/ (tasks[w] # << >> /\ tasks' = [tasks EXCEPT ![w] = Tail(@)])
  <2>1. CASE WorkerStart(w)
    BY <2>1 DEF WorkerStart, cloudVars
  <2>2. CASE WorkerAnswer(w)
    BY <2>2 DEF WorkerAnswer, cloudVars
  <2> QED BY <2>1, <2>2 DEF Worker
<1>3. /\ tasks[w] \in Seq(Envelope) /\ tasks[w] \in Seq(EnvAt(Home(w)))
      /\ localbe[w] \in Seq(Message) /\ localbe[w] \in Seq(EnvAt(Home(w)) \cup {READY})
  BY DEF Types, QueuesTyped, QueuesLeadHome
<1>4. e \in Message /\ e \in EnvAt(Home(w)) \cup {READY}
  <2>1. CASE wpc[w] = "start"
    BY <2>1, ReadyFacts
  <2>2. CASE wpc[w] # "start"
    <3>1. tasks[w] # << >>
      BY <2>2 DEF Worker, WorkerStart, WorkerAnswer
    <3>2. Head(tasks[w]) \in Envelope /\ Head(tasks[w]) \in EnvAt(Home(w))
      BY <1>3, <3>1
    <3> QED BY <2>2, <3>2, ReadyFacts
  <2> QED BY <2>1, <2>2
<1> HIDE DEF e
<1>5. Append(localbe[w], e) \in Seq(Message) /\ Append(localbe[w], e) \in Seq(EnvAt(Home(w)) \cup {READY})
  BY <1>3, <1>4
<1>6. tasks[w] # << >> => Tail(tasks[w]) \in Seq(Envelope) /\ Tail(tasks[w]) \in Seq(EnvAt(Home(w)))
  BY <1>3
<1>7. /\ localbe' \in [Workers -> Seq(Message)]
      /\ \A x \in Workers : localbe'[x] \in Seq(EnvAt(Home(x)) \cup {READY})
  BY <1>2, <1>5 DEF Types, QueuesTyped, QueuesLeadHome
<1>8. /\ tasks' \in [Workers -> Seq(Envelope)]
      /\ \A x \in Workers : tasks'[x] \in Seq(EnvAt(Home(x)))
  BY <1>2, <1>6 DEF Types, QueuesTyped, QueuesLeadHome
<1> QED
  BY <1>1, <1>2, <1>7, <1>8 DEF Types, QueuesTyped, QueuesLeadHome

LEMMA LocalReplyTypes ==
    ASSUME Types, NEW w \in Workers, LocalReply(w), linked' = linked
    PROVE  Types'
<1> DEFINE b == Home(w)
           e == Head(localbe[w])
<1>1. /\ localbe[w] # << >>
      /\ worker_queue' = [worker_queue EXCEPT ![b] = Append(@, w)]
      /\ localbe' = [localbe EXCEPT ![w] = Tail(@)]
      /\ bpc' = [bpc EXCEPT ![b] = "frontends"]
      /\ UNCHANGED <<cpc, sent, wpc, tasks, localfe, cloudfe, lost>>
      /\ \/ e = READY /\ UNCHANGED <<replies, cloudbe>>
         \/ e # READY /\ Route(b, e, cloudbe)
  BY DEF LocalReply, Queued, workerVars
<1>2. b \in Brokers /\ w \in WorkersOf(b) /\ e \in EnvAt(b) \cup {READY}
  BY <1>1, HeadFacts, NameFacts DEF Types
<1> HIDE DEF b, e
<1>3. /\ replies' \in [Clients -> Nat]
      /\ cloudbe' \in [Brokers -> [Brokers -> Seq(Envelope)]]
      /\ \A a, p \in Brokers : cloudbe'[a][p] \in Seq(Direct(a))
  <2>1. CASE e = READY
    BY <1>1, <2>1 DEF Types, Typed, QueuesTyped, QueuesLeadHome
  <2>2. CASE e # READY
    BY <1>1, <1>2, <2>2, RouteTypes DEF Types, QueuesTyped, QueuesLeadHome
  <2> QED BY <2>1, <2>2
<1>4. /\ localbe[w] \in Seq(Message) /\ localbe[w] \in Seq(EnvAt(Home(w)) \cup {READY})
      /\ worker_queue[b] \in Seq(Workers) /\ worker_queue[b] \in Seq(WorkersOf(b))
  BY <1>2 DEF Types, QueuesTyped, QueuesLeadHome
<1>5. /\ Tail(localbe[w]) \in Seq(Message) /\ Tail(localbe[w]) \in Seq(EnvAt(Home(w)) \cup {READY})
  BY <1>1, <1>4
<1>6. Append(worker_queue[b], w) \in Seq(Workers) /\ Append(worker_queue[b], w) \in Seq(WorkersOf(b))
  BY <1>2, <1>4
<1>7. /\ localbe' \in [Workers -> Seq(Message)]
      /\ \A x \in Workers : localbe'[x] \in Seq(EnvAt(Home(x)) \cup {READY})
  BY <1>1, <1>5 DEF Types, QueuesTyped, QueuesLeadHome
<1>8. /\ worker_queue' \in [Brokers -> Seq(Workers)]
      /\ \A a \in Brokers : worker_queue'[a] \in Seq(WorkersOf(a))
  BY <1>1, <1>6 DEF Types, QueuesTyped, QueuesLeadHome
<1>9. bpc' \in [Brokers -> {"backends", "frontends", "closed"}]
  BY <1>1 DEF Types, Typed
<1> QED
  BY <1>1, <1>3, <1>7, <1>8, <1>9 DEF Types, Typed, QueuesTyped, QueuesLeadHome

LEMMA CloudReplyTypes ==
    ASSUME Types, NEW b \in Brokers, NEW p \in Peers(b), CloudReply(b, p), linked' = linked
    PROVE  Types'
<1> DEFINE e == Head(cloudbe[b][p])
           rest == [cloudbe EXCEPT ![b][p] = Tail(@)]
<1>1. /\ cloudbe[b][p] # << >>
      /\ Route(b, e, rest)
      /\ bpc' = [bpc EXCEPT ![b] = "frontends"]
      /\ UNCHANGED <<cpc, sent, wpc, tasks, localfe, localbe, cloudfe, lost, worker_queue>>
  BY DEF CloudReply, workerVars
<1>2. p \in Brokers
  BY NameFacts
<1>3. e \in EnvAt(b)
  BY <1>1, <1>2, HeadFacts, DirectFacts DEF Types
<1>4. Tail(cloudbe[b][p]) \in Seq(Envelope) /\ Tail(cloudbe[b][p]) \in Seq(Direct(b))
  <2>1. cloudbe[b][p] \in Seq(Envelope) /\ cloudbe[b][p] \in Seq(Direct(b))
    BY <1>2 DEF Types, QueuesTyped, QueuesLeadHome
  <2> QED BY <1>1, <2>1
<1>5. /\ rest \in [Brokers -> [Brokers -> Seq(Envelope)]]
      /\ \A a, q \in Brokers : rest[a][q] \in Seq(Direct(a))
  BY <1>2, <1>4 DEF Types, QueuesTyped, QueuesLeadHome
<1> HIDE DEF e, rest
<1>6. /\ replies' \in [Clients -> Nat]
      /\ cloudbe' \in [Brokers -> [Brokers -> Seq(Envelope)]]
      /\ \A a, q \in Brokers : cloudbe'[a][q] \in Seq(Direct(a))
  BY <1>1, <1>3, <1>5, RouteTypes DEF Types
<1>7. bpc' \in [Brokers -> {"backends", "frontends", "closed"}]
  BY <1>1 DEF Types, Typed
<1> QED
  BY <1>1, <1>6, <1>7 DEF Types, Typed, QueuesTyped, QueuesLeadHome

LEMMA CloudRequestTypes ==
    ASSUME Types, NEW b \in Brokers, NEW p \in Peers(b), CloudRequest(b, p), linked' = linked
    PROVE  Types'
<1> DEFINE e == Wrapped(p, Head(cloudfe[b][p]))
<1>1. /\ cloudfe[b][p] # << >> /\ worker_queue[b] # << >>
      /\ ToWorker(b, e)
      /\ cloudfe' = [cloudfe EXCEPT ![b][p] = Tail(@)]
      /\ UNCHANGED <<cpc, sent, replies, wpc, localfe, localbe, cloudbe, lost, bpc>>
  BY DEF CloudRequest, AtFrontends, clientVars
<1>2. p \in Brokers
  BY NameFacts
<1>3. e \in EnvAt(b)
  BY <1>1, <1>2, HeadFacts, WrapFacts DEF Types, EnvAt
<1> HIDE DEF e
<1>4. /\ tasks' \in [Workers -> Seq(Envelope)]
      /\ worker_queue' \in [Brokers -> Seq(Workers)]
      /\ \A w \in Workers : tasks'[w] \in Seq(EnvAt(Home(w)))
      /\ \A a \in Brokers : worker_queue'[a] \in Seq(WorkersOf(a))
  BY <1>1, <1>3, ToWorkerTypes DEF Types
<1>5. Tail(cloudfe[b][p]) \in Seq(Envelope) /\ Tail(cloudfe[b][p]) \in Seq(Direct(p))
  <2>1. cloudfe[b][p] \in Seq(Envelope) /\ cloudfe[b][p] \in Seq(Direct(p))
    BY <1>2 DEF Types, QueuesTyped, QueuesLeadHome
  <2> QED BY <1>1, <2>1
<1>6. /\ cloudfe' \in [Brokers -> [Brokers -> Seq(Envelope)]]
      /\ \A a, q \in Brokers : cloudfe'[a][q] \in Seq(Direct(q))
  BY <1>1, <1>2, <1>5 DEF Types, QueuesTyped, QueuesLeadHome
<1> QED
  BY <1>1, <1>4, <1>6 DEF Types, Typed, QueuesTyped, QueuesLeadHome

LEMMA LocalRequestTypes ==
    ASSUME Types, NEW c \in Clients, LocalRequest(c), linked' = linked
    PROVE  Types'
<1> DEFINE b == Home(c)
<1>1. b \in Brokers /\ c \in ClientsOf(b) /\ <<c>> \in Direct(b)
  BY NameFacts DEF Direct
<1>2. <<c>> \in Envelope /\ <<c>> \in EnvAt(b)
  BY <1>1, DirectFacts
<1>3. /\ worker_queue[b] # << >>
      /\ localfe' = localfe \ {c}
      /\ UNCHANGED <<cpc, sent, replies, wpc, localbe, cloudbe, bpc>>
  BY DEF LocalRequest, AtFrontends, clientVars
<1>4. localfe' \subseteq Clients
  BY <1>3 DEF Types, Typed
<1>5. ASSUME NEW p \in Peers(b), ToPeer(b, p, c), UNCHANGED <<tasks, worker_queue>>
      PROVE  Types'
  <2>1. lost' \subseteq Clients
    BY <1>5 DEF ToPeer, Types, Typed
  <2>2. p \in Brokers
    BY NameFacts
  <2>3. Append(cloudfe[p][b], <<c>>) \in Seq(Envelope) /\ Append(cloudfe[p][b], <<c>>) \in Seq(Direct(b))
    <3>1. cloudfe[p][b] \in Seq(Envelope) /\ cloudfe[p][b] \in Seq(Direct(b))
      BY <1>1, <2>2 DEF Types, QueuesTyped, QueuesLeadHome
    <3> DEFINE m == <<c>>
    <3>2. m \in Envelope /\ m \in Direct(b)
      BY <1>1, <1>2
    <3> HIDE DEF m
    <3>3. Append(cloudfe[p][b], m) \in Seq(Envelope) /\ Append(cloudfe[p][b], m) \in Seq(Direct(b))
      BY <3>1, <3>2
    <3> QED BY <3>3 DEF m
  <2>4. /\ cloudfe' \in [Brokers -> [Brokers -> Seq(Envelope)]]
        /\ \A a, q \in Brokers : cloudfe'[a][q] \in Seq(Direct(q))
    <3> DEFINE longer == Append(cloudfe[p][b], <<c>>)
    <3>1. CASE cloudfe' = cloudfe
      BY <3>1 DEF Types, QueuesTyped, QueuesLeadHome
    <3>2. CASE cloudfe' = [cloudfe EXCEPT ![p][b] = longer]
      <4> HIDE DEF longer, b
      <4>1. b \in Brokers /\ longer \in Seq(Envelope) /\ longer \in Seq(Direct(b))
        BY <1>1, <2>3 DEF longer
      <4>2. cloudfe' \in [Brokers -> [Brokers -> Seq(Envelope)]]
        BY <2>2, <3>2, <4>1 DEF Types, QueuesTyped
      <4>3. \A a, q \in Brokers : cloudfe'[a][q] \in Seq(Direct(q))
        BY <2>2, <3>2, <4>1 DEF Types, QueuesTyped, QueuesLeadHome
      <4> QED BY <4>2, <4>3
    <3> QED BY <1>5, <3>1, <3>2 DEF ToPeer
  <2> QED
    BY <1>3, <1>4, <1>5, <2>1, <2>4 DEF Types, Typed, QueuesTyped, QueuesLeadHome
<1>6. CASE ToWorker(b, <<c>>) /\ UNCHANGED <<cloudfe, lost>>
  <2>1. /\ tasks' \in [Workers -> Seq(Envelope)]
        /\ worker_queue' \in [Brokers -> Seq(Workers)]
        /\ \A w \in Workers : tasks'[w] \in Seq(EnvAt(Home(w)))
        /\ \A a \in Brokers : worker_queue'[a] \in Seq(WorkersOf(a))
    BY <1>1, <1>2, <1>3, <1>6, ToWorkerTypes DEF Types
  <2> QED
    BY <1>3, <1>4, <1>6, <2>1 DEF Types, Typed, QueuesTyped, QueuesLeadHome
<1> QED
  BY <1>5, <1>6 DEF LocalRequest

\* The steps that move no message.
Quiet == /\ UNCHANGED <<clientVars, workerVars, localfe, localbe, cloudVars, worker_queue>>
         /\ \/ bpc' = bpc
            \/ \E b \in Brokers, pc \in {"backends", "frontends", "closed"} :
                  bpc' = [bpc EXCEPT ![b] = pc]

LEMMA QuietTypes ==
    ASSUME Types, Quiet, linked' \in [Brokers -> SUBSET Brokers]
    PROVE  Types'
<1>1. bpc' \in [Brokers -> {"backends", "frontends", "closed"}]
  BY DEF Quiet, Types, Typed
<1> QED
  BY <1>1 DEF Quiet, Types, Typed, QueuesTyped, QueuesLeadHome, clientVars, workerVars, cloudVars

\* What a step of the whole system is.
LEMMA StepCases ==
    ASSUME Types, [Next]_vars
    PROVE  \/ \E c \in Clients : Client(c)
           \/ \E w \in Workers : Worker(w)
           \/ \E w \in Workers : LocalReply(w) /\ linked' = linked
           \/ \E b \in Brokers : \E p \in Peers(b) : CloudReply(b, p) /\ linked' = linked
           \/ \E b \in Brokers : \E p \in Peers(b) : CloudRequest(b, p) /\ linked' = linked
           \/ \E c \in Clients : LocalRequest(c) /\ linked' = linked
           \/ Quiet /\ linked' \in [Brokers -> SUBSET Brokers]
<1>1. CASE UNCHANGED vars
  BY <1>1 DEF vars, routingVars, Quiet, Types, Typed
<1>2. CASE HandshakeStep
  BY <1>2 DEF HandshakeStep, routingVars, Quiet, Types, Typed
<1>3. ASSUME NEW b \in Brokers, Stop(b)
      PROVE  Quiet /\ linked' \in [Brokers -> SUBSET Brokers]
  BY <1>3 DEF Stop, Interrupted, Quiet, Types, Typed
<1>4. ASSUME NEW b \in Brokers, NEW p \in Peers(b), Link(b, p)
      PROVE  Quiet /\ linked' \in [Brokers -> SUBSET Brokers]
  <2>1. linked' = [linked EXCEPT ![b] = @ \cup {p}] /\ p \in Brokers
    BY <1>4, NameFacts DEF Link
  <2>2. linked' \in [Brokers -> SUBSET Brokers]
    BY <2>1 DEF Types, Typed
  <2> QED BY <1>4, <2>2 DEF Link, routingVars, Quiet
<1>5. ASSUME NEW b \in Brokers, PollTimeout(b) \/ NoWork(b)
      PROVE  Quiet
  BY <1>5 DEF PollTimeout, NoWork, Quiet
<1>6. ASSUME NEW b \in Brokers, Broker(b)
      PROVE  \/ \E w \in Workers : LocalReply(w) /\ linked' = linked
             \/ \E p \in Peers(b) : CloudReply(b, p) /\ linked' = linked
             \/ \E p \in Peers(b) : CloudRequest(b, p) /\ linked' = linked
             \/ \E c \in Clients : LocalRequest(c) /\ linked' = linked
             \/ Quiet /\ linked' \in [Brokers -> SUBSET Brokers]
  BY <1>5, <1>6 DEF Broker, Loop, WorkersOf, ClientsOf, Types, Typed
<1> QED
  BY <1>1, <1>2, <1>3, <1>4, <1>6 DEF Next

LEMMA TypesKept == Types /\ [Next]_vars => Types'
<1> SUFFICES ASSUME Types, [Next]_vars PROVE Types'
  OBVIOUS
<1> QED
  BY StepCases, ClientTypes, WorkerTypes, LocalReplyTypes, CloudReplyTypes, CloudRequestTypes,
     LocalRequestTypes, QuietTypes

-----------------------------------------------------------------------------
(* A worker's turn.                                                           *)

InQueue(w) == Cardinality(Places(worker_queue[Home(w)], {w}))

Turns == \A w \in Workers : Len(tasks[w]) + Len(localbe[w]) + InQueue(w)
                                = IF wpc[w] = "start" THEN 0 ELSE 1

LEMMA TurnsAre == Turns <=> OneTurnPerWorker
<1> \A w : {i \in 1 .. Len(worker_queue[Home(w)]) : worker_queue[Home(w)][i] = w}
             = Places(worker_queue[Home(w)], {w})
  BY DEF Places
<1> QED
  BY DEF Turns, InQueue, OneTurnPerWorker

LEMMA TurnTypes ==
    ASSUME Types, NEW w \in Workers
    PROVE  /\ Len(tasks[w]) \in Nat /\ Len(localbe[w]) \in Nat /\ InQueue(w) \in Nat
           /\ worker_queue[Home(w)] \in Seq(Workers)
           /\ tasks[w] \in Seq(Envelope) /\ localbe[w] \in Seq(Message)
<1>1. /\ worker_queue[Home(w)] \in Seq(Workers)
      /\ tasks[w] \in Seq(Envelope) /\ localbe[w] \in Seq(Message)
  BY NameFacts DEF Types, QueuesTyped
<1>2. InQueue(w) \in 0 .. Len(worker_queue[Home(w)])
  BY <1>1, PlacesFinite DEF InQueue
<1> QED
  BY <1>1, <1>2

\* The worker at the head of the queue gets its task.
LEMMA ToWorkerTurns ==
    ASSUME Types, Turns, NEW b \in Brokers, worker_queue[b] # << >>, NEW env \in Envelope,
           ToWorker(b, env), UNCHANGED <<wpc, localbe>>
    PROVE  Turns'
<1> DEFINE h == Head(worker_queue[b])
<1>1. h \in Workers /\ Home(h) = b
  BY HeadFacts DEF Types
<1>2. worker_queue[b] \in Seq(Workers)
  BY DEF Types, QueuesTyped
<1>3. /\ tasks' = [tasks EXCEPT ![h] = Append(@, env)]
      /\ worker_queue' = [worker_queue EXCEPT ![b] = Tail(@)]
  BY DEF ToWorker
<1>4. \A w : Cardinality(Places(Tail(worker_queue[b]), {w}))
               = Cardinality(Places(worker_queue[b], {w})) - (IF h = w THEN 1 ELSE 0)
  BY <1>2, TailCounts
<1> HIDE DEF h
<1>5. ASSUME NEW w \in Workers
      PROVE  Len(tasks'[w]) + Len(localbe'[w]) + InQueue(w)' = IF wpc'[w] = "start" THEN 0 ELSE 1
  <2> DEFINE n == InQueue(w)
             t == Len(tasks[w])
             l == Len(localbe[w])
  <2>1. /\ tasks[w] \in Seq(Envelope)
        /\ t \in Nat /\ l \in Nat /\ n \in Nat
    BY TurnTypes
  <2>2. t + l + n = IF wpc[w] = "start" THEN 0 ELSE 1
    BY DEF Turns
  <2>3. t' = t + (IF h = w THEN 1 ELSE 0)
    BY <1>3, <2>1 DEF Types, QueuesTyped
  <2>4. n' = n - (IF h = w THEN 1 ELSE 0)
    <3>1. CASE Home(w) = b
      <4>1. worker_queue'[Home(w)] = Tail(worker_queue[b])
        BY <1>3, <3>1 DEF Types, QueuesTyped
      <4> QED BY <1>4, <3>1, <4>1 DEF InQueue
    <3>2. CASE Home(w) # b
      <4>1. worker_queue'[Home(w)] = worker_queue[Home(w)] /\ h # w
        BY <1>1, <1>3, <3>2 DEF Types, QueuesTyped
      <4> QED BY <2>1, <4>1 DEF InQueue
    <3> QED BY <3>1, <3>2
  <2>5. l' = l /\ wpc'[w] = wpc[w]
    OBVIOUS
  <2> HIDE DEF n, t, l
  <2>6. t' + l' + n' = IF wpc'[w] = "start" THEN 0 ELSE 1
    BY <2>1, <2>2, <2>3, <2>4, <2>5
  <2> QED BY <2>6 DEF n, t, l
<1> QED
  BY <1>5 DEF Turns

\* A message to its broker ends a worker's turn and begins the next one.
LEMMA LocalReplyTurns ==
    ASSUME Types, Turns, NEW w \in Workers, LocalReply(w)
    PROVE  Turns'
<1> DEFINE b == Home(w)
<1>1. /\ localbe[w] # << >>
      /\ worker_queue' = [worker_queue EXCEPT ![b] = Append(@, w)]
      /\ localbe' = [localbe EXCEPT ![w] = Tail(@)]
      /\ wpc' = wpc /\ tasks' = tasks
  BY DEF LocalReply, Queued, workerVars
<1>2. worker_queue[b] \in Seq(Workers) /\ b \in Brokers
  BY NameFacts DEF Types, QueuesTyped
<1>3. \A x : Cardinality(Places(Append(worker_queue[b], w), {x}))
               = Cardinality(Places(worker_queue[b], {x})) + (IF w = x THEN 1 ELSE 0)
  BY <1>2, AppendCounts
<1>4. ASSUME NEW x \in Workers
      PROVE  Len(tasks'[x]) + Len(localbe'[x]) + InQueue(x)' = IF wpc'[x] = "start" THEN 0 ELSE 1
  <2> DEFINE n == InQueue(x)
             t == Len(tasks[x])
             l == Len(localbe[x])
  <2>1. /\ localbe[w] \in Seq(Message)
        /\ t \in Nat /\ l \in Nat /\ n \in Nat
    BY TurnTypes
  <2>2. t + l + n = IF wpc[x] = "start" THEN 0 ELSE 1
    BY DEF Turns
  <2>3. l' = l - (IF w = x THEN 1 ELSE 0)
    <3>1. localbe'[x] = IF w = x THEN Tail(localbe[w]) ELSE localbe[x]
      BY <1>1 DEF Types, QueuesTyped
    <3>2. Len(Tail(localbe[w])) = Len(localbe[w]) - 1
      BY <1>1, <2>1
    <3> QED BY <2>1, <3>1, <3>2
  <2>4. n' = n + (IF w = x THEN 1 ELSE 0)
    <3>1. CASE Home(x) = b
      <4>1. worker_queue'[Home(x)] = Append(worker_queue[b], w)
        BY <1>1, <1>2, <3>1 DEF Types, QueuesTyped
      <4> QED BY <1>3, <3>1, <4>1 DEF InQueue
    <3>2. CASE Home(x) # b
      <4>1. worker_queue'[Home(x)] = worker_queue[Home(x)] /\ w # x
        BY <1>1, <3>2 DEF Types, QueuesTyped
      <4> QED BY <2>1, <4>1 DEF InQueue
    <3> QED BY <3>1, <3>2
  <2>5. t' = t /\ wpc'[x] = wpc[x]
    BY <1>1
  <2> HIDE DEF n, t, l, b
  <2>6. t' + l' + n' = IF wpc'[x] = "start" THEN 0 ELSE 1
    BY <2>1, <2>2, <2>3, <2>4, <2>5
  <2> QED BY <2>6 DEF n, t, l
<1> QED
  BY <1>4 DEF Turns

LEMMA WorkerTurns == ASSUME Types, Turns, NEW w \in Workers, Worker(w) PROVE Turns'
<1>1. ASSUME NEW x \in Workers
      PROVE  Len(tasks'[x]) + Len(localbe'[x]) + InQueue(x)' = IF wpc'[x] = "start" THEN 0 ELSE 1
  <2> DEFINE n == InQueue(x)
             t == Len(tasks[x])
             l == Len(localbe[x])
  <2>0. /\ t + l + n = IF wpc[x] = "start" THEN 0 ELSE 1
        /\ t \in Nat /\ l \in Nat /\ n \in Nat
    BY TurnTypes DEF Turns
  <2>1. n' = n
    BY DEF Worker, WorkerStart, WorkerAnswer, InQueue
  <2> SUFFICES t' + l' + n' = IF wpc'[x] = "start" THEN 0 ELSE 1
    OBVIOUS
  <2>2. CASE WorkerStart(w)
    <3>1. Len(Append(localbe[w], READY)) = Len(localbe[w]) + 1
      BY TurnTypes, ReadyFacts
    <3>2. /\ t' = t
          /\ l' = l + (IF x = w THEN 1 ELSE 0)
      BY <2>2, <3>1, TurnTypes DEF WorkerStart, Types, QueuesTyped
    <3>3. /\ wpc[w] = "start"
          /\ wpc'[x] = IF x = w THEN "wait" ELSE wpc[x]
      BY <2>2 DEF WorkerStart, Types, Typed
    <3> HIDE DEF t, l, n
    <3> QED BY <2>0, <2>1, <3>2, <3>3
  <2>3. CASE WorkerAnswer(w)
    <3> DEFINE e == Head(tasks[w])
    <3>1. /\ Len(Append(localbe[w], e)) = Len(localbe[w]) + 1
          /\ Len(Tail(tasks[w])) = Len(tasks[w]) - 1
      <4>1. e \in Message
        BY <2>3, TurnTypes, ReadyFacts DEF WorkerAnswer
      <4> QED BY <2>3, <4>1, TurnTypes DEF WorkerAnswer
    <3>2. /\ t' = t - (IF x = w THEN 1 ELSE 0)
          /\ l' = l + (IF x = w THEN 1 ELSE 0)
      BY <2>3, <3>1, TurnTypes DEF WorkerAnswer, Types, QueuesTyped
    <3>3. wpc' = wpc
      BY <2>3 DEF WorkerAnswer
    <3> HIDE DEF t, l, n
    <3> QED BY <2>0, <2>1, <3>2, <3>3
  <2> QED BY <2>2, <2>3 DEF Worker
<1> QED
  BY <1>1 DEF Turns

LEMMA TurnsKept == Types /\ Turns /\ [Next]_vars => Turns'
<1> SUFFICES ASSUME Types, Turns, [Next]_vars PROVE Turns'
  OBVIOUS
<1> DEFINE Still == UNCHANGED <<wpc, tasks, localbe, worker_queue>>
<1>1. Still => Turns'
  BY DEF Turns, InQueue
<1>2. ASSUME NEW c \in Clients, Client(c) PROVE Still
  BY <1>2 DEF Client, ClientSend, ClientReceive, workerVars
<1>3. ASSUME NEW b \in Brokers, NEW p \in Peers(b), CloudReply(b, p) PROVE Still
  BY <1>3 DEF CloudReply, workerVars
<1>4. ASSUME NEW b \in Brokers, NEW p \in Peers(b), CloudRequest(b, p) PROVE Turns'
  <2>1. /\ worker_queue[b] # << >> /\ cloudfe[b][p] # << >>
        /\ ToWorker(b, Wrapped(p, Head(cloudfe[b][p])))
        /\ UNCHANGED <<wpc, localbe>>
    BY <1>4 DEF CloudRequest, AtFrontends
  <2>2. Wrapped(p, Head(cloudfe[b][p])) \in Envelope
    BY <2>1, NameFacts, HeadFacts, WrapFacts, ThroughFacts DEF Types
  <2> QED BY <2>1, <2>2, ToWorkerTurns
<1>5. ASSUME NEW c \in Clients, LocalRequest(c) PROVE Turns'
  <2>1. /\ worker_queue[Home(c)] # << >> /\ UNCHANGED <<wpc, localbe>>
        /\ UNCHANGED <<tasks, worker_queue>> \/ ToWorker(Home(c), <<c>>)
    BY <1>5 DEF LocalRequest, AtFrontends
  <2>2. <<c>> \in Envelope /\ Home(c) \in Brokers
    BY NameFacts DEF Envelope
  <2> QED BY <1>1, <2>1, <2>2, ToWorkerTurns
<1>6. Quiet => Still
  BY DEF Quiet, workerVars
<1> QED
  BY <1>1, <1>2, <1>3, <1>4, <1>5, <1>6, StepCases, WorkerTurns, LocalReplyTurns

-----------------------------------------------------------------------------
(* Where the copies of a request are.  Held counts, for each client, what is   *)
(* to return to it at each place: "localfe" and "replies" are one place each,  *)
(* the other queues one for each worker or pair of brokers.                    *)

AtFrontend == <<"localfe", 0>>
AtClient   == <<"replies", 0>>
Nowhere    == <<"nowhere", 0>>

Spots == {AtFrontend, AtClient} \cup ({"tasks", "localbe"} \X Workers)
           \cup ({"cloudfe", "cloudbe"} \X (Brokers \X Brokers))

Held == [c \in Clients |-> [q \in Spots |->
    IF q = AtFrontend THEN IF c \in localfe THEN 1 ELSE 0
    ELSE IF q = AtClient THEN replies[c]
    ELSE IF q[1] = "tasks" THEN Cardinality(At(tasks[q[2]], c))
    ELSE IF q[1] = "localbe" THEN Cardinality(At(localbe[q[2]], c))
    ELSE IF q[1] = "cloudfe" THEN Cardinality(At(cloudfe[q[2][1]][q[2][2]], c))
    ELSE Cardinality(At(cloudbe[q[2][1]][q[2][2]], c))]]

\* A request that is awaited and was not dropped is at one place, any other at none.
OnlyAt(q, c) == \A r \in Spots : Held[c][r] = IF r = q THEN 1 ELSE 0
IsAwaited(c) == cpc[c] = "wait" /\ c \notin lost

OneCopy ==
    \A c \in Clients : /\ c \in lost => cpc[c] = "wait"
                       /\ IsAwaited(c) => \E q \in Spots : OnlyAt(q, c)
                       /\ ~ IsAwaited(c) => \A q \in Spots : Held[c][q] = 0

\* Message env leaves one place and joins another.
Delta(env, from, to, c, q) ==
    IF ~ Goes(env, c) THEN 0
    ELSE IF q = to THEN 1 ELSE IF q = from THEN -1 ELSE 0

Moves(env, from, to) ==
    \A c \in Clients, q \in Spots :
        Held'[c][q] = Held[c][q] + Delta(env, from, to, c, q)

-----------------------------------------------------------------------------
\* How many messages for a client a queue holds, before and after one joins it or
\* leaves it.
LEMMA AtFacts ==
    ASSUME NEW s \in Seq(Message), NEW c
    PROVE  /\ IsFiniteSet(At(s, c)) /\ Cardinality(At(s, c)) \in Nat
           /\ Cardinality(At(s, c)) = 0 => At(s, c) = {}
           /\ Cardinality(At(s, c)) = 1 => \E i : At(s, c) = {i}
           /\ \A e \in Message : Cardinality(At(Append(s, e), c))
                                     = Cardinality(At(s, c)) + (IF Goes(e, c) THEN 1 ELSE 0)
           /\ s # << >> => Cardinality(At(Tail(s), c))
                               = Cardinality(At(s, c)) - (IF Goes(Head(s), c) THEN 1 ELSE 0)
<1> DEFINE T == {e \in Message : Goes(e, c)}
<1>1. ASSUME NEW t \in Seq(Message) PROVE At(t, c) = Places(t, T)
  <2>1. \A i \in 1 .. Len(t) : t[i] \in Message
    OBVIOUS
  <2> QED BY <2>1 DEF At, Places, Goes
<1>2. IsFiniteSet(At(s, c)) /\ Cardinality(At(s, c)) \in 0 .. Len(s)
  BY <1>1, PlacesFinite
<1>3. Cardinality(At(s, c)) = 0 => At(s, c) = {}
  BY <1>2, FS_EmptySet
<1>4. Cardinality(At(s, c)) = 1 => \E i : At(s, c) = {i}
  BY <1>2, FS_Singleton
<1>5. ASSUME NEW e \in Message
      PROVE  Cardinality(At(Append(s, e), c)) = Cardinality(At(s, c)) + (IF Goes(e, c) THEN 1 ELSE 0)
  <2>1. Append(s, e) \in Seq(Message) /\ (e \in T <=> Goes(e, c))
    OBVIOUS
  <2> HIDE DEF T
  <2>2. Cardinality(Places(Append(s, e), T)) = Cardinality(Places(s, T)) + (IF e \in T THEN 1 ELSE 0)
    BY AppendCounts
  <2> QED BY <1>1, <2>1, <2>2
<1>6. ASSUME s # << >>
      PROVE  Cardinality(At(Tail(s), c)) = Cardinality(At(s, c)) - (IF Goes(Head(s), c) THEN 1 ELSE 0)
  <2>1. Tail(s) \in Seq(Message) /\ (Head(s) \in T <=> Goes(Head(s), c))
    BY <1>6
  <2> HIDE DEF T
  <2>2. Cardinality(Places(Tail(s), T)) = Cardinality(Places(s, T)) - (IF Head(s) \in T THEN 1 ELSE 0)
    BY <1>6, TailCounts
  <2> QED BY <1>1, <2>1, <2>2
<1>7. Cardinality(At(s, c)) \in Nat
  BY <1>2
<1> QED
  BY <1>2, <1>3, <1>4, <1>5, <1>6, <1>7

\* The same for the queues of all workers.
LEMMA PutFacts ==
    ASSUME NEW M \in [Workers -> Seq(Message)], NEW w \in Workers, NEW e \in Message, NEW c
    PROVE  LET N == [M EXCEPT ![w] = Append(@, e)]
           IN  \A x \in Workers : Cardinality(At(N[x], c))
                   = Cardinality(At(M[x], c)) + (IF Goes(e, c) /\ x = w THEN 1 ELSE 0)
<1>1. ASSUME NEW x \in Workers
      PROVE  Cardinality(At([M EXCEPT ![w] = Append(@, e)][x], c))
                   = Cardinality(At(M[x], c)) + (IF Goes(e, c) /\ x = w THEN 1 ELSE 0)
  <2>1. [M EXCEPT ![w] = Append(@, e)][x] = IF x = w THEN Append(M[w], e) ELSE M[x]
    OBVIOUS
  <2>2. Cardinality(At(Append(M[w], e), c)) = Cardinality(At(M[w], c)) + (IF Goes(e, c) THEN 1 ELSE 0)
    BY AtFacts
  <2>3. Cardinality(At(M[x], c)) \in Nat
    BY AtFacts
  <2> QED BY <2>1, <2>2, <2>3
<1> QED
  BY <1>1

LEMMA TakeFacts ==
    ASSUME NEW M \in [Workers -> Seq(Message)], NEW w \in Workers, M[w] # << >>, NEW c
    PROVE  LET N == [M EXCEPT ![w] = Tail(@)]
           IN  \A x \in Workers : Cardinality(At(N[x], c))
                   = Cardinality(At(M[x], c)) - (IF Goes(Head(M[w]), c) /\ x = w THEN 1 ELSE 0)
<1>1. ASSUME NEW x \in Workers
      PROVE  Cardinality(At([M EXCEPT ![w] = Tail(@)][x], c))
                   = Cardinality(At(M[x], c)) - (IF Goes(Head(M[w]), c) /\ x = w THEN 1 ELSE 0)
  <2>1. [M EXCEPT ![w] = Tail(@)][x] = IF x = w THEN Tail(M[w]) ELSE M[x]
    OBVIOUS
  <2>2. Cardinality(At(Tail(M[w]), c)) = Cardinality(At(M[w], c)) - (IF Goes(Head(M[w]), c) THEN 1 ELSE 0)
    BY AtFacts
  <2>3. Cardinality(At(M[x], c)) \in Nat
    BY AtFacts
  <2> QED BY <2>1, <2>2, <2>3
<1> QED
  BY <1>1

-----------------------------------------------------------------------------
\* Held, place by place.
HeldShape ==
    \A c \in Clients :
        /\ Held[c][AtFrontend] = IF c \in localfe THEN 1 ELSE 0
        /\ Held[c][AtClient] = replies[c]
        /\ \A w \in Workers : /\ Held[c][<<"tasks", w>>] = Cardinality(At(tasks[w], c))
                              /\ Held[c][<<"localbe", w>>] = Cardinality(At(localbe[w], c))
        /\ \A b, p \in Brokers :
              /\ Held[c][<<"cloudfe", <<b, p>>>>] = Cardinality(At(cloudfe[b][p], c))
              /\ Held[c][<<"cloudbe", <<b, p>>>>] = Cardinality(At(cloudbe[b][p], c))

LEMMA SpotFacts ==
    /\ AtFrontend \in Spots /\ AtClient \in Spots
    /\ \A w \in Workers : <<"tasks", w>> \in Spots /\ <<"localbe", w>> \in Spots
    /\ \A b, p \in Brokers : <<"cloudfe", <<b, p>>>> \in Spots /\ <<"cloudbe", <<b, p>>>> \in Spots
  BY DEF Spots

LEMMA SpotCases ==
    ASSUME NEW q \in Spots
    PROVE  \/ q = AtFrontend
           \/ q = AtClient
           \/ \E w \in Workers : q = <<"tasks", w>> \/ q = <<"localbe", w>>
           \/ \E b, p \in Brokers : q = <<"cloudfe", <<b, p>>>> \/ q = <<"cloudbe", <<b, p>>>>
  BY DEF Spots

LEMMA HeldIs == HeldShape
<1> SUFFICES ASSUME NEW c \in Clients
             PROVE  /\ Held[c][AtFrontend] = IF c \in localfe THEN 1 ELSE 0
                    /\ Held[c][AtClient] = replies[c]
                    /\ \A w \in Workers :
                          /\ Held[c][<<"tasks", w>>] = Cardinality(At(tasks[w], c))
                          /\ Held[c][<<"localbe", w>>] = Cardinality(At(localbe[w], c))
                    /\ \A b, p \in Brokers :
                          /\ Held[c][<<"cloudfe", <<b, p>>>>] = Cardinality(At(cloudfe[b][p], c))
                          /\ Held[c][<<"cloudbe", <<b, p>>>>] = Cardinality(At(cloudbe[b][p], c))
  BY DEF HeldShape
<1>1. /\ Held[c][AtFrontend] = IF c \in localfe THEN 1 ELSE 0
      /\ Held[c][AtClient] = replies[c]
  BY SpotFacts DEF Held, AtFrontend, AtClient
<1>2. ASSUME NEW w \in Workers
      PROVE  /\ Held[c][<<"tasks", w>>] = Cardinality(At(tasks[w], c))
             /\ Held[c][<<"localbe", w>>] = Cardinality(At(localbe[w], c))
  BY SpotFacts DEF Held, AtFrontend, AtClient
<1>3. ASSUME NEW b \in Brokers, NEW p \in Brokers
      PROVE  /\ Held[c][<<"cloudfe", <<b, p>>>>] = Cardinality(At(cloudfe[b][p], c))
             /\ Held[c][<<"cloudbe", <<b, p>>>>] = Cardinality(At(cloudbe[b][p], c))
  BY SpotFacts DEF Held, AtFrontend, AtClient
<1> QED
  BY <1>1, <1>2, <1>3

\* The queues are queues of messages, as the lemmas on counts need them.
LEMMA QueuesHoldMessages ==
    ASSUME Types
    PROVE  /\ tasks \in [Workers -> Seq(Message)] /\ localbe \in [Workers -> Seq(Message)]
           /\ cloudfe \in [Brokers -> [Brokers -> Seq(Message)]]
           /\ cloudbe \in [Brokers -> [Brokers -> Seq(Message)]]
<1>1. \A s \in Seq(Envelope) : s \in Seq(Message)
  BY ReadyFacts
<1> QED
  BY <1>1 DEF Types, QueuesTyped

LEMMA CountTypes ==
    ASSUME Types, NEW c \in Clients
    PROVE  /\ replies[c] \in Nat
           /\ \A w \in Workers : /\ Cardinality(At(tasks[w], c)) \in Nat
                                 /\ Cardinality(At(localbe[w], c)) \in Nat
           /\ \A b, p \in Brokers : /\ Cardinality(At(cloudfe[b][p], c)) \in Nat
                                    /\ Cardinality(At(cloudbe[b][p], c)) \in Nat
<1>1. replies[c] \in Nat
  BY DEF Types, Typed
<1>2. ASSUME NEW w \in Workers
      PROVE  Cardinality(At(tasks[w], c)) \in Nat /\ Cardinality(At(localbe[w], c)) \in Nat
  <2>1. tasks[w] \in Seq(Message) /\ localbe[w] \in Seq(Message)
    BY QueuesHoldMessages
  <2> QED BY <2>1, AtFacts
<1>3. ASSUME NEW b \in Brokers, NEW p \in Brokers
      PROVE  Cardinality(At(cloudfe[b][p], c)) \in Nat /\ Cardinality(At(cloudbe[b][p], c)) \in Nat
  <2>1. cloudfe[b][p] \in Seq(Message) /\ cloudbe[b][p] \in Seq(Message)
    BY QueuesHoldMessages
  <2> QED BY <2>1, AtFacts
<1> QED
  BY <1>1, <1>2, <1>3

LEMMA HeldTyped == Types => Held \in [Clients -> [Spots -> Nat]]
<1> SUFFICES ASSUME Types PROVE Held \in [Clients -> [Spots -> Nat]]
  OBVIOUS
<1>1. ASSUME NEW c \in Clients, NEW q \in Spots PROVE Held[c][q] \in Nat
  <2>1. CASE q = AtFrontend
    BY <2>1, HeldIs DEF HeldShape
  <2>2. CASE q = AtClient
    BY <2>2, HeldIs, CountTypes DEF HeldShape
  <2>3. ASSUME NEW w \in Workers PROVE Held[c][<<"tasks", w>>] \in Nat /\ Held[c][<<"localbe", w>>] \in Nat
    BY HeldIs, CountTypes DEF HeldShape
  <2>4. ASSUME NEW b \in Brokers, NEW p \in Brokers
        PROVE  Held[c][<<"cloudfe", <<b, p>>>>] \in Nat /\ Held[c][<<"cloudbe", <<b, p>>>>] \in Nat
    <3>1. /\ Held[c][<<"cloudfe", <<b, p>>>>] = Cardinality(At(cloudfe[b][p], c))
          /\ Held[c][<<"cloudbe", <<b, p>>>>] = Cardinality(At(cloudbe[b][p], c))
      BY HeldIs DEF HeldShape
    <3> QED BY <3>1, CountTypes
  <2> QED BY <2>1, <2>2, <2>3, <2>4, SpotCases
<1> QED
  BY <1>1 DEF Held

-----------------------------------------------------------------------------
(* What an action moves, family of queues by family.                          *)

FrontendMoves(env, from, to) ==
    \A c \in Clients : (IF c \in localfe' THEN 1 ELSE 0)
        = (IF c \in localfe THEN 1 ELSE 0) + Delta(env, from, to, c, AtFrontend)

RepliesMove(env, from, to) ==
    \A c \in Clients : replies'[c] = replies[c] + Delta(env, from, to, c, AtClient)

TasksMove(env, from, to) ==
    \A c \in Clients, w \in Workers : Cardinality(At(tasks'[w], c))
        = Cardinality(At(tasks[w], c)) + Delta(env, from, to, c, <<"tasks", w>>)

LocalbeMoves(env, from, to) ==
    \A c \in Clients, w \in Workers : Cardinality(At(localbe'[w], c))
        = Cardinality(At(localbe[w], c)) + Delta(env, from, to, c, <<"localbe", w>>)

CloudfeMoves(env, from, to) ==
    \A c \in Clients, b, p \in Brokers : Cardinality(At(cloudfe'[b][p], c))
        = Cardinality(At(cloudfe[b][p], c)) + Delta(env, from, to, c, <<"cloudfe", <<b, p>>>>)

CloudbeMoves(env, from, to) ==
    \A c \in Clients, b, p \in Brokers : Cardinality(At(cloudbe'[b][p], c))
        = Cardinality(At(cloudbe[b][p], c)) + Delta(env, from, to, c, <<"cloudbe", <<b, p>>>>)

LEMMA AllMove ==
    ASSUME NEW env, NEW from, NEW to,
           FrontendMoves(env, from, to), RepliesMove(env, from, to), TasksMove(env, from, to),
           LocalbeMoves(env, from, to), CloudfeMoves(env, from, to), CloudbeMoves(env, from, to)
    PROVE  Moves(env, from, to)
<1>1. HeldShape /\ HeldShape'
  BY HeldIs, PTL
<1>2. ASSUME NEW c \in Clients, NEW q \in Spots
      PROVE  Held'[c][q] = Held[c][q] + Delta(env, from, to, c, q)
  <2>1. CASE q = AtFrontend
    BY <1>1, <2>1 DEF HeldShape, FrontendMoves
  <2>2. CASE q = AtClient
    BY <1>1, <2>2 DEF HeldShape, RepliesMove
  <2>3. ASSUME NEW w \in Workers, q = <<"tasks", w>>
        PROVE  Held'[c][q] = Held[c][q] + Delta(env, from, to, c, q)
    <3>1. /\ Held[c][<<"tasks", w>>] = Cardinality(At(tasks[w], c))
          /\ Held'[c][<<"tasks", w>>] = Cardinality(At(tasks'[w], c))
      BY <1>1 DEF HeldShape
    <3> QED BY <2>3, <3>1 DEF TasksMove
  <2>4. ASSUME NEW w \in Workers, q = <<"localbe", w>>
        PROVE  Held'[c][q] = Held[c][q] + Delta(env, from, to, c, q)
    <3>1. /\ Held[c][<<"localbe", w>>] = Cardinality(At(localbe[w], c))
          /\ Held'[c][<<"localbe", w>>] = Cardinality(At(localbe'[w], c))
      BY <1>1 DEF HeldShape
    <3> QED BY <2>4, <3>1 DEF LocalbeMoves
  <2>5. ASSUME NEW b \in Brokers, NEW p \in Brokers, q = <<"cloudfe", <<b, p>>>>
        PROVE  Held'[c][q] = Held[c][q] + Delta(env, from, to, c, q)
    <3>1. /\ Held[c][<<"cloudfe", <<b, p>>>>] = Cardinality(At(cloudfe[b][p], c))
          /\ Held'[c][<<"cloudfe", <<b, p>>>>] = Cardinality(At(cloudfe'[b][p], c))
      BY <1>1 DEF HeldShape
    <3> QED BY <2>5, <3>1 DEF CloudfeMoves
  <2>6. ASSUME NEW b \in Brokers, NEW p \in Brokers, q = <<"cloudbe", <<b, p>>>>
        PROVE  Held'[c][q] = Held[c][q] + Delta(env, from, to, c, q)
    <3>1. /\ Held[c][<<"cloudbe", <<b, p>>>>] = Cardinality(At(cloudbe[b][p], c))
          /\ Held'[c][<<"cloudbe", <<b, p>>>>] = Cardinality(At(cloudbe'[b][p], c))
      BY <1>1 DEF HeldShape
    <3> QED BY <2>6, <3>1 DEF CloudbeMoves
  <2> QED BY <2>1, <2>2, <2>3, <2>4, <2>5, <2>6, SpotCases
<1> QED
  BY <1>2 DEF Moves

\* What neither loses the message nor gets it.
LEMMA Unmoved ==
    ASSUME Types, NEW env, NEW from, NEW to
    PROVE  /\ (localfe' = localfe /\ AtFrontend # from /\ AtFrontend # to) => FrontendMoves(env, from, to)
           /\ (replies' = replies /\ AtClient # from /\ AtClient # to) => RepliesMove(env, from, to)
           /\ (tasks' = tasks /\ from[1] # "tasks" /\ to[1] # "tasks") => TasksMove(env, from, to)
           /\ (localbe' = localbe /\ from[1] # "localbe" /\ to[1] # "localbe") => LocalbeMoves(env, from, to)
           /\ (cloudfe' = cloudfe /\ from[1] # "cloudfe" /\ to[1] # "cloudfe") => CloudfeMoves(env, from, to)
           /\ (cloudbe' = cloudbe /\ from[1] # "cloudbe" /\ to[1] # "cloudbe") => CloudbeMoves(env, from, to)
<1>1. ASSUME NEW c, NEW q, q # from, q # to PROVE Delta(env, from, to, c, q) = 0
  BY <1>1 DEF Delta
<1>2. ASSUME localfe' = localfe, AtFrontend # from, AtFrontend # to
      PROVE  FrontendMoves(env, from, to)
  BY <1>1, <1>2 DEF FrontendMoves
<1>3. ASSUME replies' = replies, AtClient # from, AtClient # to
      PROVE  RepliesMove(env, from, to)
  BY <1>1, <1>3, CountTypes DEF RepliesMove
<1>4. ASSUME tasks' = tasks, from[1] # "tasks", to[1] # "tasks"
      PROVE  TasksMove(env, from, to)
  <2>1. \A c, w : Delta(env, from, to, c, <<"tasks", w>>) = 0
    BY <1>1, <1>4
  <2>2. ASSUME NEW c \in Clients, NEW w \in Workers
        PROVE  Cardinality(At(tasks'[w], c)) = Cardinality(At(tasks[w], c)) + Delta(env, from, to, c, <<"tasks", w>>)
    <3>1. Cardinality(At(tasks[w], c)) \in Nat
      BY CountTypes
    <3> QED BY <1>4, <2>1, <3>1
  <2> QED BY <2>2 DEF TasksMove
<1>5. ASSUME localbe' = localbe, from[1] # "localbe", to[1] # "localbe"
      PROVE  LocalbeMoves(env, from, to)
  <2>1. \A c, w : Delta(env, from, to, c, <<"localbe", w>>) = 0
    BY <1>1, <1>5
  <2>2. ASSUME NEW c \in Clients, NEW w \in Workers
        PROVE  Cardinality(At(localbe'[w], c)) = Cardinality(At(localbe[w], c)) + Delta(env, from, to, c, <<"localbe", w>>)
    <3>1. Cardinality(At(localbe[w], c)) \in Nat
      BY CountTypes
    <3> QED BY <1>5, <2>1, <3>1
  <2> QED BY <2>2 DEF LocalbeMoves
<1>6. ASSUME cloudfe' = cloudfe, from[1] # "cloudfe", to[1] # "cloudfe"
      PROVE  CloudfeMoves(env, from, to)
  <2>1. \A c, k : Delta(env, from, to, c, <<"cloudfe", k>>) = 0
    BY <1>1, <1>6
  <2> QED BY <1>6, <2>1, CountTypes DEF CloudfeMoves
<1>7. ASSUME cloudbe' = cloudbe, from[1] # "cloudbe", to[1] # "cloudbe"
      PROVE  CloudbeMoves(env, from, to)
  <2>1. \A c, k : Delta(env, from, to, c, <<"cloudbe", k>>) = 0
    BY <1>1, <1>7
  <2> QED BY <1>7, <2>1, CountTypes DEF CloudbeMoves
<1> QED
  BY <1>2, <1>3, <1>4, <1>5, <1>6, <1>7

\* What loses the message it has first, or gets it.
LEMMA TasksTake ==
    ASSUME Types, NEW w \in Workers, tasks[w] # << >>, tasks' = [tasks EXCEPT ![w] = Tail(@)],
           NEW to, to[1] # "tasks"
    PROVE  TasksMove(Head(tasks[w]), <<"tasks", w>>, to)
<1>1. ASSUME NEW c \in Clients, NEW x \in Workers
      PROVE  Cardinality(At(tasks'[x], c)) = Cardinality(At(tasks[x], c))
                 + Delta(Head(tasks[w]), <<"tasks", w>>, to, c, <<"tasks", x>>)
  <2>1. tasks \in [Workers -> Seq(Message)]
    BY QueuesHoldMessages
  <2>2. Cardinality(At(tasks'[x], c)) = Cardinality(At(tasks[x], c))
            - (IF Goes(Head(tasks[w]), c) /\ x = w THEN 1 ELSE 0)
    BY <2>1, TakeFacts
  <2>3. Delta(Head(tasks[w]), <<"tasks", w>>, to, c, <<"tasks", x>>)
            = 0 - (IF Goes(Head(tasks[w]), c) /\ x = w THEN 1 ELSE 0)
    BY DEF Delta
  <2>4. Cardinality(At(tasks[x], c)) \in Nat
    BY CountTypes
  <2> QED BY <2>2, <2>3, <2>4
<1> QED
  BY <1>1 DEF TasksMove

LEMMA TasksPut ==
    ASSUME Types, NEW w \in Workers, NEW e \in Message, tasks' = [tasks EXCEPT ![w] = Append(@, e)],
           NEW from, from[1] # "tasks"
    PROVE  TasksMove(e, from, <<"tasks", w>>)
<1>1. ASSUME NEW c \in Clients, NEW x \in Workers
      PROVE  Cardinality(At(tasks'[x], c)) = Cardinality(At(tasks[x], c))
                 + Delta(e, from, <<"tasks", w>>, c, <<"tasks", x>>)
  <2>1. tasks \in [Workers -> Seq(Message)]
    BY QueuesHoldMessages
  <2>2. Cardinality(At(tasks'[x], c)) = Cardinality(At(tasks[x], c))
            + (IF Goes(e, c) /\ x = w THEN 1 ELSE 0)
    BY <2>1, PutFacts
  <2>3. Delta(e, from, <<"tasks", w>>, c, <<"tasks", x>>) = IF Goes(e, c) /\ x = w THEN 1 ELSE 0
    BY DEF Delta
  <2> QED BY <2>2, <2>3
<1> QED
  BY <1>1 DEF TasksMove

LEMMA LocalbeTake ==
    ASSUME Types, NEW w \in Workers, localbe[w] # << >>, localbe' = [localbe EXCEPT ![w] = Tail(@)],
           NEW to, to[1] # "localbe"
    PROVE  LocalbeMoves(Head(localbe[w]), <<"localbe", w>>, to)
<1>1. ASSUME NEW c \in Clients, NEW x \in Workers
      PROVE  Cardinality(At(localbe'[x], c)) = Cardinality(At(localbe[x], c))
                 + Delta(Head(localbe[w]), <<"localbe", w>>, to, c, <<"localbe", x>>)
  <2>1. localbe \in [Workers -> Seq(Message)]
    BY QueuesHoldMessages
  <2>2. Cardinality(At(localbe'[x], c)) = Cardinality(At(localbe[x], c))
            - (IF Goes(Head(localbe[w]), c) /\ x = w THEN 1 ELSE 0)
    BY <2>1, TakeFacts
  <2>3. Delta(Head(localbe[w]), <<"localbe", w>>, to, c, <<"localbe", x>>)
            = 0 - (IF Goes(Head(localbe[w]), c) /\ x = w THEN 1 ELSE 0)
    BY DEF Delta
  <2>4. Cardinality(At(localbe[x], c)) \in Nat
    BY CountTypes
  <2> QED BY <2>2, <2>3, <2>4
<1> QED
  BY <1>1 DEF LocalbeMoves

LEMMA LocalbePut ==
    ASSUME Types, NEW w \in Workers, NEW e \in Message, localbe' = [localbe EXCEPT ![w] = Append(@, e)],
           NEW from, from[1] # "localbe"
    PROVE  LocalbeMoves(e, from, <<"localbe", w>>)
<1>1. ASSUME NEW c \in Clients, NEW x \in Workers
      PROVE  Cardinality(At(localbe'[x], c)) = Cardinality(At(localbe[x], c))
                 + Delta(e, from, <<"localbe", w>>, c, <<"localbe", x>>)
  <2>1. localbe \in [Workers -> Seq(Message)]
    BY QueuesHoldMessages
  <2>2. Cardinality(At(localbe'[x], c)) = Cardinality(At(localbe[x], c))
            + (IF Goes(e, c) /\ x = w THEN 1 ELSE 0)
    BY <2>1, PutFacts
  <2>3. Delta(e, from, <<"localbe", w>>, c, <<"localbe", x>>) = IF Goes(e, c) /\ x = w THEN 1 ELSE 0
    BY DEF Delta
  <2> QED BY <2>2, <2>3
<1> QED
  BY <1>1 DEF LocalbeMoves

LEMMA CloudfeTake ==
    ASSUME Types, NEW b \in Brokers, NEW p \in Brokers, cloudfe[b][p] # << >>,
           cloudfe' = [cloudfe EXCEPT ![b][p] = Tail(@)], NEW to, to[1] # "cloudfe"
    PROVE  CloudfeMoves(Head(cloudfe[b][p]), <<"cloudfe", <<b, p>>>>, to)
<1> DEFINE e == Head(cloudfe[b][p])
<1>1. ASSUME NEW c \in Clients, NEW x \in Brokers, NEW y \in Brokers
      PROVE  Cardinality(At(cloudfe'[x][y], c)) = Cardinality(At(cloudfe[x][y], c))
                 + Delta(e, <<"cloudfe", <<b, p>>>>, to, c, <<"cloudfe", <<x, y>>>>)
  <2>1. cloudfe \in [Brokers -> [Brokers -> Seq(Message)]]
    BY QueuesHoldMessages
  <2>2. Cardinality(At(cloudfe'[x][y], c)) = Cardinality(At(cloudfe[x][y], c))
            - (IF Goes(e, c) /\ x = b /\ y = p THEN 1 ELSE 0)
    <3>1. cloudfe'[x][y] = IF x = b /\ y = p THEN Tail(cloudfe[b][p]) ELSE cloudfe[x][y]
      BY <2>1
    <3>2. Cardinality(At(Tail(cloudfe[b][p]), c)) = Cardinality(At(cloudfe[b][p], c)) - (IF Goes(e, c) THEN 1 ELSE 0)
      BY <2>1, AtFacts
    <3>3. Cardinality(At(cloudfe[x][y], c)) \in Nat
      BY CountTypes
    <3> QED BY <3>1, <3>2, <3>3
  <2> HIDE DEF e
  <2>3. Delta(e, <<"cloudfe", <<b, p>>>>, to, c, <<"cloudfe", <<x, y>>>>)
            = 0 - (IF Goes(e, c) /\ x = b /\ y = p THEN 1 ELSE 0)
    BY DEF Delta
  <2>4. Cardinality(At(cloudfe[x][y], c)) \in Nat
    BY CountTypes
  <2> QED BY <2>2, <2>3, <2>4
<1> QED
  BY <1>1 DEF CloudfeMoves

LEMMA CloudfePut ==
    ASSUME Types, NEW b \in Brokers, NEW p \in Brokers, NEW e \in Message,
           cloudfe' = [cloudfe EXCEPT ![b][p] = Append(@, e)], NEW from, from[1] # "cloudfe"
    PROVE  CloudfeMoves(e, from, <<"cloudfe", <<b, p>>>>)
<1>1. ASSUME NEW c \in Clients, NEW x \in Brokers, NEW y \in Brokers
      PROVE  Cardinality(At(cloudfe'[x][y], c)) = Cardinality(At(cloudfe[x][y], c))
                 + Delta(e, from, <<"cloudfe", <<b, p>>>>, c, <<"cloudfe", <<x, y>>>>)
  <2>1. cloudfe \in [Brokers -> [Brokers -> Seq(Message)]]
    BY QueuesHoldMessages
  <2>2. Cardinality(At(cloudfe'[x][y], c)) = Cardinality(At(cloudfe[x][y], c))
            + (IF Goes(e, c) /\ x = b /\ y = p THEN 1 ELSE 0)
    <3>1. cloudfe'[x][y] = IF x = b /\ y = p THEN Append(cloudfe[b][p], e) ELSE cloudfe[x][y]
      BY <2>1
    <3>2. Cardinality(At(Append(cloudfe[b][p], e), c)) = Cardinality(At(cloudfe[b][p], c)) + (IF Goes(e, c) THEN 1 ELSE 0)
      BY <2>1, AtFacts
    <3>3. Cardinality(At(cloudfe[x][y], c)) \in Nat
      BY CountTypes
    <3> QED BY <3>1, <3>2, <3>3
  <2>3. Delta(e, from, <<"cloudfe", <<b, p>>>>, c, <<"cloudfe", <<x, y>>>>)
            = IF Goes(e, c) /\ x = b /\ y = p THEN 1 ELSE 0
    BY DEF Delta
  <2> QED BY <2>2, <2>3
<1> QED
  BY <1>1 DEF CloudfeMoves

LEMMA CloudbeTake ==
    ASSUME Types, NEW b \in Brokers, NEW p \in Brokers, cloudbe[b][p] # << >>,
           cloudbe' = [cloudbe EXCEPT ![b][p] = Tail(@)], NEW to, to[1] # "cloudbe"
    PROVE  CloudbeMoves(Head(cloudbe[b][p]), <<"cloudbe", <<b, p>>>>, to)
<1> DEFINE e == Head(cloudbe[b][p])
<1>1. ASSUME NEW c \in Clients, NEW x \in Brokers, NEW y \in Brokers
      PROVE  Cardinality(At(cloudbe'[x][y], c)) = Cardinality(At(cloudbe[x][y], c))
                 + Delta(e, <<"cloudbe", <<b, p>>>>, to, c, <<"cloudbe", <<x, y>>>>)
  <2>1. cloudbe \in [Brokers -> [Brokers -> Seq(Message)]]
    BY QueuesHoldMessages
  <2>2. Cardinality(At(cloudbe'[x][y], c)) = Cardinality(At(cloudbe[x][y], c))
            - (IF Goes(e, c) /\ x = b /\ y = p THEN 1 ELSE 0)
    <3>1. cloudbe'[x][y] = IF x = b /\ y = p THEN Tail(cloudbe[b][p]) ELSE cloudbe[x][y]
      BY <2>1
    <3>2. Cardinality(At(Tail(cloudbe[b][p]), c)) = Cardinality(At(cloudbe[b][p], c)) - (IF Goes(e, c) THEN 1 ELSE 0)
      BY <2>1, AtFacts
    <3>3. Cardinality(At(cloudbe[x][y], c)) \in Nat
      BY CountTypes
    <3> QED BY <3>1, <3>2, <3>3
  <2> HIDE DEF e
  <2>3. Delta(e, <<"cloudbe", <<b, p>>>>, to, c, <<"cloudbe", <<x, y>>>>)
            = 0 - (IF Goes(e, c) /\ x = b /\ y = p THEN 1 ELSE 0)
    BY DEF Delta
  <2>4. Cardinality(At(cloudbe[x][y], c)) \in Nat
    BY CountTypes
  <2> QED BY <2>2, <2>3, <2>4
<1> QED
  BY <1>1 DEF CloudbeMoves

LEMMA CloudbePut ==
    ASSUME Types, NEW b \in Brokers, NEW p \in Brokers, NEW e \in Message,
           cloudbe' = [cloudbe EXCEPT ![b][p] = Append(@, e)], NEW from, from[1] # "cloudbe"
    PROVE  CloudbeMoves(e, from, <<"cloudbe", <<b, p>>>>)
<1>1. ASSUME NEW c \in Clients, NEW x \in Brokers, NEW y \in Brokers
      PROVE  Cardinality(At(cloudbe'[x][y], c)) = Cardinality(At(cloudbe[x][y], c))
                 + Delta(e, from, <<"cloudbe", <<b, p>>>>, c, <<"cloudbe", <<x, y>>>>)
  <2>1. cloudbe \in [Brokers -> [Brokers -> Seq(Message)]]
    BY QueuesHoldMessages
  <2>2. Cardinality(At(cloudbe'[x][y], c)) = Cardinality(At(cloudbe[x][y], c))
            + (IF Goes(e, c) /\ x = b /\ y = p THEN 1 ELSE 0)
    <3>1. cloudbe'[x][y] = IF x = b /\ y = p THEN Append(cloudbe[b][p], e) ELSE cloudbe[x][y]
      BY <2>1
    <3>2. Cardinality(At(Append(cloudbe[b][p], e), c)) = Cardinality(At(cloudbe[b][p], c)) + (IF Goes(e, c) THEN 1 ELSE 0)
      BY <2>1, AtFacts
    <3>3. Cardinality(At(cloudbe[x][y], c)) \in Nat
      BY CountTypes
    <3> QED BY <3>1, <3>2, <3>3
  <2>3. Delta(e, from, <<"cloudbe", <<b, p>>>>, c, <<"cloudbe", <<x, y>>>>)
            = IF Goes(e, c) /\ x = b /\ y = p THEN 1 ELSE 0
    BY DEF Delta
  <2> QED BY <2>2, <2>3
<1> QED
  BY <1>1 DEF CloudbeMoves

LEMMA OnlyGoesTo ==
    ASSUME NEW b \in Brokers, NEW e \in Direct(b), NEW c
    PROVE  Goes(e, c) <=> c = Head(e)
  BY DirectFacts DEF Goes

LEMMA RepliesPut ==
    ASSUME Types, NEW b \in Brokers, NEW e \in Direct(b),
           replies' = [replies EXCEPT ![Head(e)] = @ + 1], NEW from, from # AtClient
    PROVE  RepliesMove(e, from, AtClient)
<1> DEFINE h == Head(e)
<1>1. ASSUME NEW c \in Clients
      PROVE  replies'[c] = replies[c] + Delta(e, from, AtClient, c, AtClient)
  <2>1. Delta(e, from, AtClient, c, AtClient) = IF c = h THEN 1 ELSE 0
    BY OnlyGoesTo DEF Delta
  <2>2. replies \in [Clients -> Nat]
    BY DEF Types, Typed
  <2> HIDE DEF h
  <2>3. replies' = [replies EXCEPT ![h] = @ + 1]
    BY DEF h
  <2> QED BY <2>1, <2>2, <2>3
<1> QED
  BY <1>1 DEF RepliesMove

LEMMA RepliesTake ==
    ASSUME Types, NEW x \in Clients, replies' = [replies EXCEPT ![x] = @ - 1], NEW to, to # AtClient
    PROVE  RepliesMove(<<x>>, AtClient, to)
<1>1. ASSUME NEW c \in Clients
      PROVE  replies'[c] = replies[c] + Delta(<<x>>, AtClient, to, c, AtClient)
  <2>1. Goes(<<x>>, c) <=> c = x
    BY DEF Goes, READY
  <2>2. Delta(<<x>>, AtClient, to, c, AtClient) = IF c = x THEN -1 ELSE 0
    BY <2>1 DEF Delta
  <2> QED BY <2>2 DEF Types, Typed
<1> QED
  BY <1>1 DEF RepliesMove

LEMMA FrontendTake ==
    ASSUME NEW x \in localfe, localfe' = localfe \ {x}, NEW to, to # AtFrontend
    PROVE  FrontendMoves(<<x>>, AtFrontend, to)
<1>1. \A c : Goes(<<x>>, c) <=> c = x
  BY DEF Goes, READY
<1>2. \A c : Delta(<<x>>, AtFrontend, to, c, AtFrontend) = IF c = x THEN -1 ELSE 0
  BY <1>1 DEF Delta
<1> QED
  BY <1>2 DEF FrontendMoves

LEMMA FrontendPut ==
    ASSUME NEW x, x \notin localfe, localfe' = localfe \cup {x}, NEW from, from # AtFrontend
    PROVE  FrontendMoves(<<x>>, from, AtFrontend)
<1>1. \A c : Goes(<<x>>, c) <=> c = x
  BY DEF Goes, READY
<1>2. \A c : Delta(<<x>>, from, AtFrontend, c, AtFrontend) = IF c = x THEN 1 ELSE 0
  BY <1>1 DEF Delta
<1> QED
  BY <1>2 DEF FrontendMoves

-----------------------------------------------------------------------------
(* A message that moves is nowhere else, before or after.                     *)

LEMMA HeldNow ==
    ASSUME Types, Types'
    PROVE  Held \in [Clients -> [Spots -> Nat]] /\ Held' \in [Clients -> [Spots -> Nat]]
<1>1. (Types => Held \in [Clients -> [Spots -> Nat]])'
  BY HeldTyped, PTL
<1> QED
  BY <1>1, HeldTyped

LEMMA MoveKeeps ==
    ASSUME Types, Types', OneCopy, NEW env, NEW from \in Spots, NEW to \in Spots, from # to,
           Moves(env, from, to), cpc' = cpc, lost' = lost
    PROVE  OneCopy'
<1>1. ASSUME NEW c \in Clients
      PROVE  /\ c \in lost' => cpc'[c] = "wait"
             /\ IsAwaited(c)' => \E q \in Spots : OnlyAt(q, c)'
             /\ ~ IsAwaited(c)' => \A q \in Spots : Held'[c][q] = 0
  <2>1. \A q \in Spots : /\ Held[c][q] \in Nat /\ Held'[c][q] \in Nat
                         /\ Held'[c][q] = Held[c][q] + Delta(env, from, to, c, q)
    BY HeldNow DEF Moves
  <2>2. IsAwaited(c)' <=> IsAwaited(c)
    BY DEF IsAwaited
  <2>3. CASE Goes(env, c)
    <3>1. Held[c][from] # 0
      <4>1. Held'[c][from] = Held[c][from] - 1
        BY <2>1, <2>3 DEF Delta
      <4> QED BY <2>1, <4>1
    <3>2. PICK q \in Spots : OnlyAt(q, c)
      BY <3>1 DEF OneCopy
    <3>3. q = from
      BY <3>1, <3>2 DEF OnlyAt
    <3>4. \A r \in Spots : Held'[c][r] = IF r = to THEN 1 ELSE 0
      BY <2>1, <2>3, <3>2, <3>3 DEF OnlyAt, Delta
    <3>5. IsAwaited(c)
      BY <3>1 DEF OneCopy
    <3> QED BY <2>2, <3>4, <3>5 DEF OneCopy, OnlyAt
  <2>4. CASE ~ Goes(env, c)
    <3>1. \A q \in Spots : Held'[c][q] = Held[c][q]
      BY <2>1, <2>4 DEF Delta
    <3> QED BY <2>2, <3>1 DEF OneCopy, OnlyAt
  <2> QED BY <2>3, <2>4
<1> QED
  BY <1>1 DEF OneCopy

\* A request that is sent is the only one of its client.
LEMMA AppearKeeps ==
    ASSUME Types, Types', OneCopy, NEW x \in Clients, Moves(<<x>>, Nowhere, AtFrontend),
           cpc[x] = "send", cpc' = [cpc EXCEPT ![x] = "wait"], lost' = lost
    PROVE  OneCopy'
<1>1. ASSUME NEW c \in Clients
      PROVE  /\ c \in lost' => cpc'[c] = "wait"
             /\ IsAwaited(c)' => \E q \in Spots : OnlyAt(q, c)'
             /\ ~ IsAwaited(c)' => \A q \in Spots : Held'[c][q] = 0
  <2>1. \A q \in Spots : /\ Held[c][q] \in Nat /\ Held'[c][q] \in Nat
                         /\ Held'[c][q] = Held[c][q] + Delta(<<x>>, Nowhere, AtFrontend, c, q)
    BY HeldNow DEF Moves
  <2>2. Goes(<<x>>, c) <=> c = x
    BY DEF Goes, READY
  <2>3. AtFrontend \in Spots /\ \A q \in Spots : q # Nowhere
    BY DEF Spots, Nowhere, AtFrontend, AtClient
  <2>4. CASE c = x
    <3>1. ~ IsAwaited(c) /\ c \notin lost /\ cpc'[c] = "wait"
      BY <2>4 DEF OneCopy, IsAwaited, Types, Typed
    <3>2. \A r \in Spots : Held'[c][r] = IF r = AtFrontend THEN 1 ELSE 0
      BY <2>1, <2>2, <2>3, <2>4, <3>1 DEF OneCopy, Delta
    <3> QED BY <2>3, <3>1, <3>2 DEF IsAwaited, OnlyAt
  <2>5. CASE c # x
    <3>1. \A q \in Spots : Held'[c][q] = Held[c][q]
      BY <2>1, <2>2, <2>5 DEF Delta
    <3>2. cpc'[c] = cpc[c]
      BY <2>5 DEF Types, Typed
    <3>3. IsAwaited(c)' <=> IsAwaited(c)
      BY <3>2 DEF IsAwaited
    <3> QED BY <3>1, <3>2, <3>3 DEF OneCopy, OnlyAt
  <2> QED BY <2>4, <2>5
<1> QED
  BY <1>1 DEF OneCopy

\* A client that reads its reply, or whose request is dropped, has nothing on its way.
LEMMA VanishKeeps ==
    ASSUME Types, Types', OneCopy, NEW x \in Clients, NEW from \in Spots, Held[x][from] # 0,
           Moves(<<x>>, from, Nowhere),
           \/ cpc' = [cpc EXCEPT ![x] = "send"] /\ lost' = lost
           \/ cpc' = cpc /\ lost' = lost \cup {x}
    PROVE  OneCopy'
<1>1. ASSUME NEW c \in Clients
      PROVE  /\ c \in lost' => cpc'[c] = "wait"
             /\ IsAwaited(c)' => \E q \in Spots : OnlyAt(q, c)'
             /\ ~ IsAwaited(c)' => \A q \in Spots : Held'[c][q] = 0
  <2>1. \A q \in Spots : /\ Held[c][q] \in Nat /\ Held'[c][q] \in Nat
                         /\ Held'[c][q] = Held[c][q] + Delta(<<x>>, from, Nowhere, c, q)
    BY HeldNow DEF Moves
  <2>2. Goes(<<x>>, c) <=> c = x
    BY DEF Goes, READY
  <2>3. \A q \in Spots : q # Nowhere
    BY DEF Spots, Nowhere, AtFrontend, AtClient
  <2>4. CASE c = x
    <3>1. IsAwaited(c) /\ \E q \in Spots : OnlyAt(q, c)
      BY <2>4 DEF OneCopy
    <3>2. OnlyAt(from, c)
      BY <2>4, <3>1 DEF OnlyAt
    <3>3. \A r \in Spots : Held'[c][r] = 0
      BY <2>1, <2>2, <2>3, <2>4, <3>2 DEF OnlyAt, Delta
    <3>4. ~ IsAwaited(c)' /\ (c \in lost' => cpc'[c] = "wait")
      BY <2>4, <3>1 DEF IsAwaited, Types, Typed
    <3> QED BY <3>3, <3>4
  <2>5. CASE c # x
    <3>1. \A q \in Spots : Held'[c][q] = Held[c][q]
      BY <2>1, <2>2, <2>5 DEF Delta
    <3>2. cpc'[c] = cpc[c] /\ (c \in lost' <=> c \in lost)
      BY <2>5 DEF Types, Typed
    <3>3. IsAwaited(c)' <=> IsAwaited(c)
      BY <3>2 DEF IsAwaited
    <3> QED BY <3>1, <3>2, <3>3 DEF OneCopy, OnlyAt
  <2> QED BY <2>4, <2>5
<1> QED
  BY <1>1 DEF OneCopy

-----------------------------------------------------------------------------
(* One lemma per action.                                                      *)

LEMMA ReadyIsNobodys ==
    ASSUME localfe' = localfe, NEW from, NEW to
    PROVE  FrontendMoves(READY, from, to)
  BY ReadyFacts DEF FrontendMoves, Delta

LEMMA KindFacts ==
    /\ AtFrontend[1] = "localfe" /\ AtClient[1] = "replies" /\ Nowhere[1] = "nowhere"
    /\ AtFrontend # AtClient /\ AtFrontend # Nowhere /\ AtClient # Nowhere
    /\ \A k : /\ <<"tasks", k>>[1] = "tasks" /\ <<"localbe", k>>[1] = "localbe"
              /\ <<"cloudfe", k>>[1] = "cloudfe" /\ <<"cloudbe", k>>[1] = "cloudbe"
  BY DEF AtFrontend, AtClient, Nowhere

LEMMA ClientOneCopy ==
    ASSUME Types, Types', OneCopy, NEW c \in Clients, Client(c)
    PROVE  OneCopy'
<1>1. CASE ClientSend(c)
  <2>1. /\ cpc[c] = "send" /\ localfe' = localfe \cup {c} /\ cpc' = [cpc EXCEPT ![c] = "wait"]
        /\ UNCHANGED <<replies, tasks, localbe, cloudfe, cloudbe, lost>>
    BY <1>1 DEF ClientSend, workerVars, cloudVars
  <2>2. c \notin localfe
    <3>1. ~ IsAwaited(c) /\ Held[c][AtFrontend] = 0
      BY <2>1, SpotFacts DEF OneCopy, IsAwaited
    <3> QED BY <3>1, HeldIs DEF HeldShape
  <2>3. Moves(<<c>>, Nowhere, AtFrontend)
    BY <2>1, <2>2, FrontendPut, Unmoved, AllMove, KindFacts
  <2> QED BY <2>1, <2>3, AppearKeeps
<1>2. CASE ClientReceive(c)
  <2>1. /\ replies[c] > 0 /\ replies' = [replies EXCEPT ![c] = @ - 1] /\ cpc' = [cpc EXCEPT ![c] = "send"]
        /\ UNCHANGED <<localfe, tasks, localbe, cloudfe, cloudbe, lost>>
    BY <1>2 DEF ClientReceive, workerVars, cloudVars
  <2>2. Held[c][AtClient] # 0
    BY <2>1, HeldIs DEF HeldShape
  <2>3. Moves(<<c>>, AtClient, Nowhere)
    BY <2>1, RepliesTake, Unmoved, AllMove, KindFacts
  <2> QED BY <2>1, <2>2, <2>3, SpotFacts, VanishKeeps
<1> QED
  BY <1>1, <1>2 DEF Client

LEMMA WorkerOneCopy ==
    ASSUME Types, Types', OneCopy, NEW w \in Workers, Worker(w)
    PROVE  OneCopy'
<1>1. CASE WorkerStart(w)
  <2>1. /\ localbe' = [localbe EXCEPT ![w] = Append(@, READY)]
        /\ UNCHANGED <<cpc, replies, tasks, localfe, cloudfe, cloudbe, lost>>
    BY <1>1 DEF WorkerStart, clientVars, cloudVars
  <2>2. LocalbeMoves(READY, AtFrontend, <<"localbe", w>>)
    BY <2>1, LocalbePut, ReadyFacts, KindFacts
  <2>3. Moves(READY, AtFrontend, <<"localbe", w>>)
    BY <2>1, <2>2, ReadyIsNobodys, Unmoved, AllMove, KindFacts
  <2> QED BY <2>1, <2>3, SpotFacts, KindFacts, MoveKeeps
<1>2. CASE WorkerAnswer(w)
  <2> DEFINE e == Head(tasks[w])
  <2>1. /\ tasks[w] # << >>
        /\ localbe' = [localbe EXCEPT ![w] = Append(@, e)]
        /\ tasks' = [tasks EXCEPT ![w] = Tail(@)]
        /\ UNCHANGED <<cpc, replies, localfe, cloudfe, cloudbe, lost>>
    BY <1>2 DEF WorkerAnswer, clientVars, cloudVars
  <2>2. e \in Message
    BY <2>1, ReadyFacts DEF Types, QueuesTyped
  <2>3. TasksMove(e, <<"tasks", w>>, <<"localbe", w>>)
    BY <2>1, TasksTake, KindFacts
  <2> HIDE DEF e
  <2>4. LocalbeMoves(e, <<"tasks", w>>, <<"localbe", w>>)
    BY <2>1, <2>2, LocalbePut, KindFacts
  <2>5. Moves(e, <<"tasks", w>>, <<"localbe", w>>)
    BY <2>1, <2>3, <2>4, Unmoved, AllMove, KindFacts
  <2> QED BY <2>1, <2>5, SpotFacts, KindFacts, MoveKeeps
<1> QED
  BY <1>1, <1>2 DEF Worker

LEMMA LocalReplyOneCopy ==
    ASSUME Types, Types', OneCopy, NEW w \in Workers, LocalReply(w)
    PROVE  OneCopy'
<1> DEFINE b == Home(w)
           e == Head(localbe[w])
           from == <<"localbe", w>>
<1>1. /\ localbe[w] # << >>
      /\ localbe' = [localbe EXCEPT ![w] = Tail(@)]
      /\ UNCHANGED <<cpc, tasks, localfe, cloudfe, lost>>
      /\ \/ e = READY /\ UNCHANGED <<replies, cloudbe>>
         \/ e # READY /\ Route(b, e, cloudbe)
  BY DEF LocalReply, workerVars
<1>2. b \in Brokers /\ e \in EnvAt(b) \cup {READY}
  BY <1>1, HeadFacts, NameFacts DEF Types
<1>3. from \in Spots /\ from[1] = "localbe"
  BY SpotFacts
<1>4. \A to : to[1] # "localbe" => LocalbeMoves(e, from, to)
  BY <1>1, LocalbeTake
<1> HIDE DEF e, b, from
<1>5. CASE e = READY
  <2>1. Moves(READY, from, AtFrontend)
    BY <1>1, <1>3, <1>4, <1>5, ReadyIsNobodys, Unmoved, AllMove, KindFacts, ReadyFacts
  <2> QED BY <1>1, <1>3, <2>1, SpotFacts, KindFacts, MoveKeeps
<1>6. CASE e # READY
  <2>1. \/ /\ e \in Through(b)
           /\ cloudbe' = [cloudbe EXCEPT ![Head(e)][b] = Append(@, Tail(e))]
           /\ replies' = replies
        \/ /\ e \in Direct(b)
           /\ cloudbe' = cloudbe
           /\ replies' = [replies EXCEPT ![Head(e)] = @ + 1]
    BY <1>1, <1>2, <1>6, RouteFacts DEF Types
  <2>2. CASE /\ e \in Through(b)
             /\ cloudbe' = [cloudbe EXCEPT ![Head(e)][b] = Append(@, Tail(e))]
             /\ replies' = replies
    <3> DEFINE p == Head(e)
               f == Tail(e)
               to == <<"cloudbe", <<p, b>>>>
    <3>1. p \in Brokers /\ f \in Direct(p)
      BY <1>2, <2>2, ThroughFacts DEF Peers
    <3>2. f \in Message /\ \A c : Goes(f, c) <=> Goes(e, c)
      <4>1. /\ Len(e) = 2 /\ f = <<e[2]>> /\ e # READY
        BY <1>2, <2>2, ThroughFacts
      <4>2. Len(f) = 1 /\ f[1] = e[2] /\ f # READY
        BY <4>1 DEF READY
      <4>3. f \in Message
        BY <3>1, DirectFacts, ReadyFacts
      <4> QED BY <4>1, <4>2, <4>3 DEF Goes
    <3> HIDE DEF f, p
    <3>3. cloudbe' = [cloudbe EXCEPT ![p][b] = Append(@, f)]
      BY <2>2 DEF f, p
    <3>4. CloudbeMoves(f, from, to)
      BY <1>2, <1>3, <3>1, <3>2, <3>3, CloudbePut
    <3>5. CloudbeMoves(e, from, to)
      BY <3>2, <3>4 DEF CloudbeMoves, Delta
    <3>6. to \in Spots /\ to[1] = "cloudbe" /\ to # from
      <4>1. to \in Spots
        BY <1>2, <3>1, SpotFacts
      <4>2. to[1] = "cloudbe"
        OBVIOUS
      <4> QED BY <1>3, <4>1, <4>2
    <3> HIDE DEF to
    <3>7. Moves(e, from, to)
      BY <1>1, <1>3, <1>4, <2>2, <3>5, <3>6, Unmoved, AllMove, KindFacts
    <3> QED BY <1>1, <1>3, <3>6, <3>7, MoveKeeps
  <2>3. CASE /\ e \in Direct(b)
             /\ cloudbe' = cloudbe
             /\ replies' = [replies EXCEPT ![Head(e)] = @ + 1]
    <3>1. RepliesMove(e, from, AtClient)
      BY <1>2, <1>3, <2>3, RepliesPut, KindFacts
    <3>2. Moves(e, from, AtClient)
      BY <1>1, <1>3, <1>4, <2>3, <3>1, Unmoved, AllMove, KindFacts
    <3> QED BY <1>1, <1>3, <3>2, SpotFacts, KindFacts, MoveKeeps
  <2> QED BY <2>1, <2>2, <2>3
<1> QED
  BY <1>5, <1>6

LEMMA CloudReplyOneCopy ==
    ASSUME Types, Types', OneCopy, NEW b \in Brokers, NEW p \in Peers(b), CloudReply(b, p)
    PROVE  OneCopy'
<1> DEFINE e == Head(cloudbe[b][p])
           from == <<"cloudbe", <<b, p>>>>
           rest == [cloudbe EXCEPT ![b][p] = Tail(@)]
<1>0. p \in Brokers
  BY NameFacts
<1>1. /\ cloudbe[b][p] # << >>
      /\ Route(b, e, rest)
      /\ UNCHANGED <<cpc, tasks, localfe, localbe, cloudfe, lost>>
  BY DEF CloudReply, workerVars
<1>2. e \in Direct(b) /\ e \in EnvAt(b)
  BY <1>0, <1>1, HeadFacts, DirectFacts DEF Types
<1>3. from \in Spots /\ from[1] = "cloudbe"
  <2>1. from \in Spots
    BY <1>0, SpotFacts
  <2> QED BY <2>1
<1>4. cloudbe' = rest /\ replies' = [replies EXCEPT ![Head(e)] = @ + 1]
  <2>1. e \notin Through(b)
    <3>1. Len(e) = 1
      BY <1>2, DirectFacts
    <3> QED BY <3>1, ThroughFacts
  <2> HIDE DEF e, rest
  <2> QED BY <1>1, <1>2, <2>1, RouteFacts DEF Types
<1>5. CloudbeMoves(e, from, AtClient)
  BY <1>0, <1>1, <1>4, CloudbeTake, KindFacts
<1> HIDE DEF e, rest, from
<1>6. RepliesMove(e, from, AtClient)
  BY <1>2, <1>3, <1>4, RepliesPut, KindFacts
<1>7. Moves(e, from, AtClient)
  BY <1>1, <1>3, <1>5, <1>6, Unmoved, AllMove, KindFacts
<1> QED
  BY <1>1, <1>3, <1>7, SpotFacts, KindFacts, MoveKeeps

\* The worker at the head of the queue gets the message.
LEMMA ToWorkerMoves ==
    ASSUME Types, NEW b \in Brokers, worker_queue[b] # << >>, NEW e \in Message, ToWorker(b, e),
           NEW from, from[1] # "tasks"
    PROVE  /\ TasksMove(e, from, <<"tasks", Head(worker_queue[b])>>)
           /\ <<"tasks", Head(worker_queue[b])>> \in Spots
<1> DEFINE w == Head(worker_queue[b])
<1>1. w \in Workers
  BY HeadFacts DEF Types
<1>2. tasks' = [tasks EXCEPT ![w] = Append(@, e)]
  BY DEF ToWorker
<1> HIDE DEF w
<1>3. TasksMove(e, from, <<"tasks", w>>)
  BY <1>1, <1>2, TasksPut
<1> QED
  BY <1>1, <1>3, SpotFacts DEF w

LEMMA CloudRequestOneCopy ==
    ASSUME Types, Types', OneCopy, NEW b \in Brokers, NEW p \in Peers(b), CloudRequest(b, p)
    PROVE  OneCopy'
<1> DEFINE f == Head(cloudfe[b][p])
           e == Wrapped(p, f)
           from == <<"cloudfe", <<b, p>>>>
           to == <<"tasks", Head(worker_queue[b])>>
<1>0. p \in Brokers
  BY NameFacts
<1>1. /\ cloudfe[b][p] # << >> /\ worker_queue[b] # << >>
      /\ ToWorker(b, e)
      /\ cloudfe' = [cloudfe EXCEPT ![b][p] = Tail(@)]
      /\ UNCHANGED <<cpc, replies, localfe, localbe, cloudbe, lost>>
  BY DEF CloudRequest, AtFrontends, clientVars
<1>2. from \in Spots /\ from[1] = "cloudfe" /\ to[1] = "tasks"
  <2>1. from \in Spots
    BY <1>0, SpotFacts
  <2> QED BY <2>1
<1>3. f \in Direct(p)
  BY <1>0, <1>1, HeadFacts DEF Types
<1>4. CloudfeMoves(f, from, to)
  BY <1>0, <1>1, CloudfeTake
<1> HIDE DEF f
<1>5. e \in Message /\ \A c : Goes(e, c) <=> Goes(f, c)
  <2>1. e = <<p, f[1]>> /\ e \in Through(b)
    BY <1>3, WrapFacts
  <2>2. e \in Message /\ Len(e) = 2 /\ e[2] = f[1] /\ e # READY
    BY <2>1, ThroughFacts, ReadyFacts
  <2>3. Len(f) = 1 /\ f # READY
    BY <1>0, <1>3, DirectFacts
  <2> HIDE DEF e
  <2> QED BY <2>2, <2>3 DEF Goes
<1> HIDE DEF e
<1>6. TasksMove(e, from, to) /\ to \in Spots
  BY <1>1, <1>2, <1>5, ToWorkerMoves
<1>7. CloudfeMoves(e, from, to)
  BY <1>4, <1>5 DEF CloudfeMoves, Delta
<1> HIDE DEF from, to
<1>8. Moves(e, from, to)
  BY <1>1, <1>2, <1>6, <1>7, Unmoved, AllMove, KindFacts
<1> QED
  BY <1>1, <1>2, <1>6, <1>8, MoveKeeps

LEMMA LocalRequestOneCopy ==
    ASSUME Types, Types', OneCopy, NEW c \in Clients, LocalRequest(c)
    PROVE  OneCopy'
<1> DEFINE b == Home(c)
           e == <<c>>
<1>1. /\ worker_queue[b] # << >> /\ c \in localfe /\ localfe' = localfe \ {c}
      /\ UNCHANGED <<cpc, replies, localbe, cloudbe>>
  BY DEF LocalRequest, AtFrontends, clientVars
<1>2. b \in Brokers /\ e \in Message
  BY NameFacts, ReadyFacts DEF Envelope
<1>3. \A to : to # AtFrontend => FrontendMoves(e, AtFrontend, to)
  BY <1>1, FrontendTake
<1>4. ASSUME NEW p \in Peers(b), p \in linked[b], UNCHANGED <<tasks, lost>>,
             cloudfe' = [cloudfe EXCEPT ![p][b] = Append(@, e)]
      PROVE  OneCopy'
  <2> DEFINE to == <<"cloudfe", <<p, b>>>>
  <2>1. p \in Brokers
    BY NameFacts
  <2>2. to \in Spots /\ to[1] = "cloudfe"
    <3>1. to \in Spots
      BY <1>2, <2>1, SpotFacts
    <3> QED BY <3>1
  <2> HIDE DEF e
  <2>3. CloudfeMoves(e, AtFrontend, to)
    BY <1>2, <1>4, <2>1, CloudfePut, KindFacts
  <2> HIDE DEF to, b
  <2>4. Moves(e, AtFrontend, to)
    BY <1>1, <1>3, <1>4, <2>2, <2>3, Unmoved, AllMove, KindFacts
  <2> QED BY <1>1, <1>4, <2>2, <2>4, SpotFacts, KindFacts, MoveKeeps
<1>5. CASE UNCHANGED <<tasks, cloudfe>> /\ lost' = lost \cup {c}
  <2>1. Held[c][AtFrontend] # 0
    BY <1>1, HeldIs DEF HeldShape
  <2> HIDE DEF e
  <2>2. Moves(e, AtFrontend, Nowhere)
    BY <1>1, <1>3, <1>5, Unmoved, AllMove, KindFacts
  <2> QED BY <1>1, <1>5, <2>1, <2>2, SpotFacts, VanishKeeps DEF e
<1>6. CASE ToWorker(b, e) /\ UNCHANGED <<cloudfe, lost>>
  <2> DEFINE to == <<"tasks", Head(worker_queue[b])>>
  <2> HIDE DEF e
  <2>1. TasksMove(e, AtFrontend, to) /\ to \in Spots
    BY <1>1, <1>2, <1>6, ToWorkerMoves, KindFacts
  <2>2. to[1] = "tasks"
    OBVIOUS
  <2> HIDE DEF to
  <2>3. Moves(e, AtFrontend, to)
    BY <1>1, <1>3, <1>6, <2>1, <2>2, Unmoved, AllMove, KindFacts
  <2> QED BY <1>1, <1>6, <2>1, <2>2, <2>3, SpotFacts, KindFacts, MoveKeeps
<1> QED
  BY <1>4, <1>5, <1>6 DEF LocalRequest, ToPeer

LEMMA QuietOneCopy == ASSUME OneCopy, Quiet PROVE OneCopy'
<1>1. UNCHANGED <<cpc, lost>>
  BY DEF Quiet, clientVars, cloudVars
<1>2. Held' = Held
  BY DEF Quiet, Held, At, clientVars, workerVars, cloudVars
<1> QED
  BY <1>1, <1>2 DEF OneCopy, OnlyAt, IsAwaited

LEMMA OneCopyInit == Init => OneCopy
<1> SUFFICES ASSUME Init PROVE OneCopy
  OBVIOUS
<1>1. \A c : At(<< >>, c) = {} /\ Cardinality(At(<< >>, c)) = 0
  <2>1. \A c : At(<< >>, c) = {}
    BY DEF At
  <2> QED BY <2>1, FS_EmptySet
<1>2. ASSUME NEW c \in Clients, NEW q \in Spots PROVE Held[c][q] = 0
  <2>1. CASE q = AtFrontend
    BY <2>1, HeldIs DEF HeldShape, Init
  <2>2. CASE q = AtClient
    BY <2>2, HeldIs DEF HeldShape, Init
  <2>3. ASSUME NEW w \in Workers
        PROVE  Held[c][<<"tasks", w>>] = 0 /\ Held[c][<<"localbe", w>>] = 0
    <3>1. /\ Held[c][<<"tasks", w>>] = Cardinality(At(tasks[w], c))
          /\ Held[c][<<"localbe", w>>] = Cardinality(At(localbe[w], c))
      BY HeldIs DEF HeldShape
    <3> QED BY <1>1, <3>1 DEF Init
  <2>4. ASSUME NEW b \in Brokers, NEW p \in Brokers
        PROVE  Held[c][<<"cloudfe", <<b, p>>>>] = 0 /\ Held[c][<<"cloudbe", <<b, p>>>>] = 0
    <3>1. /\ Held[c][<<"cloudfe", <<b, p>>>>] = Cardinality(At(cloudfe[b][p], c))
          /\ Held[c][<<"cloudbe", <<b, p>>>>] = Cardinality(At(cloudbe[b][p], c))
      BY HeldIs DEF HeldShape
    <3> QED BY <1>1, <3>1 DEF Init
  <2>5. ASSUME NEW w \in Workers, q = <<"tasks", w>> \/ q = <<"localbe", w>> PROVE Held[c][q] = 0
    BY <2>3, <2>5
  <2>6. ASSUME NEW b \in Brokers, NEW p \in Brokers,
               q = <<"cloudfe", <<b, p>>>> \/ q = <<"cloudbe", <<b, p>>>>
        PROVE  Held[c][q] = 0
    BY <2>4, <2>6
  <2> QED BY <2>1, <2>2, <2>5, <2>6, SpotCases
<1>3. \A c \in Clients : ~ IsAwaited(c) /\ c \notin lost
  BY DEF Init, IsAwaited
<1> QED
  BY <1>2, <1>3 DEF OneCopy

LEMMA OneCopyKept == Types /\ OneCopy /\ [Next]_vars => OneCopy'
<1> SUFFICES ASSUME Types, OneCopy, [Next]_vars PROVE OneCopy'
  OBVIOUS
<1>1. Types'
  BY TypesKept
<1> QED
  BY <1>1, StepCases, ClientOneCopy, WorkerOneCopy, LocalReplyOneCopy, CloudReplyOneCopy,
     CloudRequestOneCopy, LocalRequestOneCopy, QuietOneCopy

-----------------------------------------------------------------------------
(* From the invariant to the properties.                                      *)

\* The copies that are not yet at the client.
OnTheWay(c) ==
    ({"localfe"} \X ({c} \cap localfe)) \cup
    (UNION {{"tasks"}   \X {w} \X At(tasks[w], c) : w \in Workers}) \cup
    (UNION {{"localbe"} \X {w} \X At(localbe[w], c) : w \in Workers}) \cup
    (UNION {{"cloudfe"} \X {<<b, p>>} \X At(cloudfe[b][p], c) : b, p \in Brokers}) \cup
    (UNION {{"cloudbe"} \X {<<b, p>>} \X At(cloudbe[b][p], c) : b, p \in Brokers})

LEMMA OnTheWayIs ==
    ASSUME NEW c, NEW x
    PROVE  x \in OnTheWay(c) <=>
             \/ c \in localfe /\ x = <<"localfe", c>>
             \/ \E w \in Workers : \E i \in At(tasks[w], c) : x = <<"tasks", w, i>>
             \/ \E w \in Workers : \E i \in At(localbe[w], c) : x = <<"localbe", w, i>>
             \/ \E b, p \in Brokers : \E i \in At(cloudfe[b][p], c) : x = <<"cloudfe", <<b, p>>, i>>
             \/ \E b, p \in Brokers : \E i \in At(cloudbe[b][p], c) : x = <<"cloudbe", <<b, p>>, i>>
<1>1. x \in {"localfe"} \X ({c} \cap localfe) <=> c \in localfe /\ x = <<"localfe", c>>
  OBVIOUS
<1>2. x \in UNION {{"tasks"} \X {w} \X At(tasks[w], c) : w \in Workers}
        <=> \E w \in Workers : \E i \in At(tasks[w], c) : x = <<"tasks", w, i>>
  OBVIOUS
<1>3. x \in UNION {{"localbe"} \X {w} \X At(localbe[w], c) : w \in Workers}
        <=> \E w \in Workers : \E i \in At(localbe[w], c) : x = <<"localbe", w, i>>
  OBVIOUS
<1>4. x \in UNION {{"cloudfe"} \X {<<b, p>>} \X At(cloudfe[b][p], c) : b, p \in Brokers}
        <=> \E b, p \in Brokers : \E i \in At(cloudfe[b][p], c) : x = <<"cloudfe", <<b, p>>, i>>
  <2> DEFINE S(b, p) == {"cloudfe"} \X {<<b, p>>} \X At(cloudfe[b][p], c)
  <2>1. \A b, p : x \in S(b, p) <=> \E i \in At(cloudfe[b][p], c) : x = <<"cloudfe", <<b, p>>, i>>
    OBVIOUS
  <2> HIDE DEF S
  <2>2. x \in UNION {S(b, p) : b, p \in Brokers} <=> \E b, p \in Brokers : x \in S(b, p)
    OBVIOUS
  <2> QED BY <2>1, <2>2 DEF S
<1>5. x \in UNION {{"cloudbe"} \X {<<b, p>>} \X At(cloudbe[b][p], c) : b, p \in Brokers}
        <=> \E b, p \in Brokers : \E i \in At(cloudbe[b][p], c) : x = <<"cloudbe", <<b, p>>, i>>
  <2> DEFINE S(b, p) == {"cloudbe"} \X {<<b, p>>} \X At(cloudbe[b][p], c)
  <2>1. \A b, p : x \in S(b, p) <=> \E i \in At(cloudbe[b][p], c) : x = <<"cloudbe", <<b, p>>, i>>
    OBVIOUS
  <2> HIDE DEF S
  <2>2. x \in UNION {S(b, p) : b, p \in Brokers} <=> \E b, p \in Brokers : x \in S(b, p)
    OBVIOUS
  <2> QED BY <2>1, <2>2 DEF S
<1> QED
  BY <1>1, <1>2, <1>3, <1>4, <1>5 DEF OnTheWay

\* What a place that holds no message, or one, looks like.
LEMMA SeqContents ==
    ASSUME NEW s \in Seq(Message), NEW c, NEW n, n = Cardinality(At(s, c))
    PROVE  (n = 0 => At(s, c) = {}) /\ (n = 1 => \E i : At(s, c) = {i})
  BY AtFacts

LEMMA WorkerContents ==
    ASSUME Types, NEW c \in Clients, NEW w \in Workers
    PROVE  /\ Held[c][<<"tasks", w>>] = 0 => At(tasks[w], c) = {}
           /\ Held[c][<<"tasks", w>>] = 1 => \E i : At(tasks[w], c) = {i}
           /\ Held[c][<<"localbe", w>>] = 0 => At(localbe[w], c) = {}
           /\ Held[c][<<"localbe", w>>] = 1 => \E i : At(localbe[w], c) = {i}
<1>1. tasks[w] \in Seq(Message) /\ localbe[w] \in Seq(Message)
  BY QueuesHoldMessages
<1>2. /\ Held[c][<<"tasks", w>>] = Cardinality(At(tasks[w], c))
      /\ Held[c][<<"localbe", w>>] = Cardinality(At(localbe[w], c))
  BY HeldIs DEF HeldShape
<1> QED
  BY <1>1, <1>2, SeqContents

LEMMA CloudContents ==
    ASSUME Types, NEW c \in Clients, NEW b \in Brokers, NEW p \in Brokers
    PROVE  /\ Held[c][<<"cloudfe", <<b, p>>>>] = 0 => At(cloudfe[b][p], c) = {}
           /\ Held[c][<<"cloudfe", <<b, p>>>>] = 1 => \E i : At(cloudfe[b][p], c) = {i}
           /\ Held[c][<<"cloudbe", <<b, p>>>>] = 0 => At(cloudbe[b][p], c) = {}
           /\ Held[c][<<"cloudbe", <<b, p>>>>] = 1 => \E i : At(cloudbe[b][p], c) = {i}
<1>1. cloudfe[b][p] \in Seq(Message) /\ cloudbe[b][p] \in Seq(Message)
  BY QueuesHoldMessages
<1>2. /\ Held[c][<<"cloudfe", <<b, p>>>>] = Cardinality(At(cloudfe[b][p], c))
      /\ Held[c][<<"cloudbe", <<b, p>>>>] = Cardinality(At(cloudbe[b][p], c))
  BY HeldIs DEF HeldShape
<1> QED
  BY <1>1, <1>2, SeqContents

\* With nothing anywhere but at one place, if there, nothing else is on its way.
LEMMA NothingBut ==
    ASSUME Types, NEW c \in Clients, NEW q, \A r \in Spots : r # q => Held[c][r] = 0
    PROVE  /\ q # AtFrontend => c \notin localfe
           /\ q # AtClient => replies[c] = 0
           /\ \A w \in Workers : /\ q # <<"tasks", w>> => At(tasks[w], c) = {}
                                 /\ q # <<"localbe", w>> => At(localbe[w], c) = {}
           /\ \A b, p \in Brokers : /\ q # <<"cloudfe", <<b, p>>>> => At(cloudfe[b][p], c) = {}
                                    /\ q # <<"cloudbe", <<b, p>>>> => At(cloudbe[b][p], c) = {}
<1>1. (q # AtFrontend => c \notin localfe) /\ (q # AtClient => replies[c] = 0)
  BY SpotFacts, HeldIs DEF HeldShape
<1>2. ASSUME NEW w \in Workers
      PROVE  /\ q # <<"tasks", w>> => At(tasks[w], c) = {}
             /\ q # <<"localbe", w>> => At(localbe[w], c) = {}
  <2>1. <<"tasks", w>> \in Spots /\ <<"localbe", w>> \in Spots
    BY SpotFacts
  <2> QED BY <2>1, WorkerContents
<1>3. ASSUME NEW b \in Brokers, NEW p \in Brokers
      PROVE  /\ q # <<"cloudfe", <<b, p>>>> => At(cloudfe[b][p], c) = {}
             /\ q # <<"cloudbe", <<b, p>>>> => At(cloudbe[b][p], c) = {}
  <2>1. <<"cloudfe", <<b, p>>>> \in Spots /\ <<"cloudbe", <<b, p>>>> \in Spots
    BY SpotFacts
  <2> QED BY <2>1, CloudContents
<1> QED
  BY <1>1, <1>2, <1>3

\* One client's copies at a time.
LEMMA OneOnTheWay ==
    ASSUME NEW c, NEW x, replies[c] = 0, \A y : y \in OnTheWay(c) <=> y = x
    PROVE  Copies(c) = 1
<1>1. Copies(c) = replies[c] + Cardinality(OnTheWay(c))
  BY DEF Copies, OnTheWay
<1>2. OnTheWay(c) = {x}
  OBVIOUS
<1>3. Cardinality({x}) = 1
  BY FS_Singleton
<1> QED
  BY <1>1, <1>2, <1>3

LEMMA NoneOnTheWay ==
    ASSUME NEW c, replies[c] \in Nat, \A y : y \notin OnTheWay(c)
    PROVE  Copies(c) = replies[c]
<1>1. Copies(c) = replies[c] + Cardinality(OnTheWay(c))
  BY DEF Copies, OnTheWay
<1>2. OnTheWay(c) = {}
  OBVIOUS
<1>3. Cardinality({}) = 0
  BY FS_EmptySet
<1> QED
  BY <1>1, <1>2, <1>3

LEMMA NoCopy ==
    ASSUME Types, NEW c \in Clients, \A q \in Spots : Held[c][q] = 0
    PROVE  Copies(c) = 0
<1>1. /\ c \notin localfe /\ replies[c] = 0
      /\ \A w \in Workers : At(tasks[w], c) = {} /\ At(localbe[w], c) = {}
      /\ \A b, p \in Brokers : At(cloudfe[b][p], c) = {} /\ At(cloudbe[b][p], c) = {}
  <2>1. AtFrontend # Nowhere /\ AtClient # Nowhere
    BY KindFacts
  <2>2. \A w : <<"tasks", w>> # Nowhere /\ <<"localbe", w>> # Nowhere
    BY DEF Nowhere
  <2>3. \A k : <<"cloudfe", k>> # Nowhere /\ <<"cloudbe", k>> # Nowhere
    BY DEF Nowhere
  <2> HIDE DEF Nowhere
  <2>4. /\ Nowhere # AtFrontend => c \notin localfe
        /\ Nowhere # AtClient => replies[c] = 0
        /\ \A w \in Workers : /\ Nowhere # <<"tasks", w>> => At(tasks[w], c) = {}
                              /\ Nowhere # <<"localbe", w>> => At(localbe[w], c) = {}
        /\ \A b, p \in Brokers :
              /\ Nowhere # <<"cloudfe", <<b, p>>>> => At(cloudfe[b][p], c) = {}
              /\ Nowhere # <<"cloudbe", <<b, p>>>> => At(cloudbe[b][p], c) = {}
    BY NothingBut
  <2> QED BY <2>1, <2>2, <2>3, <2>4
<1>2. ASSUME NEW y PROVE y \notin OnTheWay(c)
  <2>1. ~ \E w \in Workers : \E k \in At(tasks[w], c) : y = <<"tasks", w, k>>
    BY <1>1
  <2>2. ~ \E w \in Workers : \E k \in At(localbe[w], c) : y = <<"localbe", w, k>>
    BY <1>1
  <2>3. ~ \E b, p \in Brokers : \E k \in At(cloudfe[b][p], c) : y = <<"cloudfe", <<b, p>>, k>>
    BY <1>1
  <2>4. ~ \E b, p \in Brokers : \E k \in At(cloudbe[b][p], c) : y = <<"cloudbe", <<b, p>>, k>>
    BY <1>1
  <2> QED BY <1>1, <2>1, <2>2, <2>3, <2>4, OnTheWayIs
<1> QED
  BY <1>1, <1>2, NoneOnTheWay

\* The copy is at one place.
LEMMA OneAtFrontend ==
    ASSUME NEW c, c \in localfe, replies[c] = 0,
           \A w \in Workers : At(tasks[w], c) = {} /\ At(localbe[w], c) = {},
           \A b \in Brokers : \A p \in Brokers : At(cloudfe[b][p], c) = {} /\ At(cloudbe[b][p], c) = {}
    PROVE  Copies(c) = 1
<1>1. <<"localfe", c>> \in OnTheWay(c)
  BY OnTheWayIs
<1>2. ASSUME NEW y \in OnTheWay(c) PROVE y = <<"localfe", c>>
  BY <1>2, OnTheWayIs
<1> QED
  BY <1>1, <1>2, OneOnTheWay

LEMMA OneAtWorker ==
    ASSUME NEW c, NEW u \in Workers, NEW i, At(tasks[u], c) = {i},
           c \notin localfe, replies[c] = 0,
           \A w \in Workers : (w # u => At(tasks[w], c) = {}) /\ At(localbe[w], c) = {},
           \A b \in Brokers : \A p \in Brokers : At(cloudfe[b][p], c) = {} /\ At(cloudbe[b][p], c) = {}
    PROVE  Copies(c) = 1
<1>1. <<"tasks", u, i>> \in OnTheWay(c)
  <2>1. i \in At(tasks[u], c)
    OBVIOUS
  <2> QED BY <2>1, OnTheWayIs
<1>2. ASSUME NEW y \in OnTheWay(c) PROVE y = <<"tasks", u, i>>
  <2>1. PICK w \in Workers : \E j \in At(tasks[w], c) : y = <<"tasks", w, j>>
    BY <1>2, OnTheWayIs
  <2>2. w = u
    BY <2>1
  <2> QED BY <2>1, <2>2
<1> QED
  BY <1>1, <1>2, OneOnTheWay

LEMMA OneFromWorker ==
    ASSUME NEW c, NEW u \in Workers, NEW i, At(localbe[u], c) = {i},
           c \notin localfe, replies[c] = 0,
           \A w \in Workers : (w # u => At(localbe[w], c) = {}) /\ At(tasks[w], c) = {},
           \A b \in Brokers : \A p \in Brokers : At(cloudfe[b][p], c) = {} /\ At(cloudbe[b][p], c) = {}
    PROVE  Copies(c) = 1
<1>1. <<"localbe", u, i>> \in OnTheWay(c)
  <2>1. i \in At(localbe[u], c)
    OBVIOUS
  <2> QED BY <2>1, OnTheWayIs
<1>2. ASSUME NEW y \in OnTheWay(c) PROVE y = <<"localbe", u, i>>
  <2>1. PICK w \in Workers : \E j \in At(localbe[w], c) : y = <<"localbe", w, j>>
    BY <1>2, OnTheWayIs
  <2>2. w = u
    BY <2>1
  <2> QED BY <2>1, <2>2
<1> QED
  BY <1>1, <1>2, OneOnTheWay

LEMMA OneCopyAt ==
    ASSUME Types, NEW c \in Clients, NEW q \in Spots, OnlyAt(q, c)
    PROVE  Copies(c) = 1
<1>1. Held[c][q] = 1 /\ \A r \in Spots : r # q => Held[c][r] = 0
  BY DEF OnlyAt
<1>0. /\ q # AtFrontend => c \notin localfe
      /\ q # AtClient => replies[c] = 0
      /\ \A w \in Workers : /\ q # <<"tasks", w>> => At(tasks[w], c) = {}
                            /\ q # <<"localbe", w>> => At(localbe[w], c) = {}
      /\ \A b \in Brokers : \A p \in Brokers :
            /\ q # <<"cloudfe", <<b, p>>>> => At(cloudfe[b][p], c) = {}
            /\ q # <<"cloudbe", <<b, p>>>> => At(cloudbe[b][p], c) = {}
  BY <1>1, NothingBut
<1>2. CASE q = AtFrontend
  <2>1. \A k : /\ q # <<"tasks", k>> /\ q # <<"localbe", k>> /\ q # <<"cloudfe", k>>
               /\ q # <<"cloudbe", k>> /\ q # AtClient
    BY <1>2 DEF AtFrontend, AtClient
  <2>2. c \in localfe
    BY <1>1, <1>2, HeldIs DEF HeldShape
  <2> QED BY <1>0, <2>1, <2>2, OneAtFrontend
<1>3. CASE q = AtClient
  <2>1. \A k : /\ q # <<"tasks", k>> /\ q # <<"localbe", k>> /\ q # <<"cloudfe", k>>
               /\ q # <<"cloudbe", k>> /\ q # AtFrontend
    BY <1>3 DEF AtFrontend, AtClient
  <2>2. replies[c] = 1
    BY <1>1, <1>3, HeldIs DEF HeldShape
  <2>3. /\ c \notin localfe
        /\ \A w \in Workers : At(tasks[w], c) = {} /\ At(localbe[w], c) = {}
        /\ \A b \in Brokers : \A p \in Brokers : At(cloudfe[b][p], c) = {} /\ At(cloudbe[b][p], c) = {}
    BY <1>0, <2>1
  <2>4. \A y : y \notin OnTheWay(c)
    BY <2>3, OnTheWayIs
  <2> QED BY <2>2, <2>4, NoneOnTheWay
<1>4. ASSUME NEW u \in Workers, q = <<"tasks", u>> PROVE Copies(c) = 1
  <2>1. /\ q # AtFrontend /\ q # AtClient
        /\ \A k : /\ k # u => q # <<"tasks", k>>
                 /\ q # <<"localbe", k>> /\ q # <<"cloudfe", k>> /\ q # <<"cloudbe", k>>
    BY <1>4 DEF AtFrontend, AtClient
  <2>2. PICK i : At(tasks[u], c) = {i}
    BY <1>1, <1>4, WorkerContents
  <2>3. \A w \in Workers : (w # u => At(tasks[w], c) = {}) /\ At(localbe[w], c) = {}
    BY <1>0, <2>1
  <2>4. \A b \in Brokers : \A p \in Brokers : At(cloudfe[b][p], c) = {} /\ At(cloudbe[b][p], c) = {}
    BY <1>0, <2>1
  <2>5. c \notin localfe /\ replies[c] = 0
    BY <1>0, <2>1
  <2> QED BY <2>2, <2>3, <2>4, <2>5, OneAtWorker
<1>5. ASSUME NEW u \in Workers, q = <<"localbe", u>> PROVE Copies(c) = 1
  <2>1. /\ q # AtFrontend /\ q # AtClient
        /\ \A k : /\ k # u => q # <<"localbe", k>>
                 /\ q # <<"tasks", k>> /\ q # <<"cloudfe", k>> /\ q # <<"cloudbe", k>>
    BY <1>5 DEF AtFrontend, AtClient
  <2>2. PICK i : At(localbe[u], c) = {i}
    BY <1>1, <1>5, WorkerContents
  <2>3. \A w \in Workers : (w # u => At(localbe[w], c) = {}) /\ At(tasks[w], c) = {}
    BY <1>0, <2>1
  <2>4. \A b \in Brokers : \A p \in Brokers : At(cloudfe[b][p], c) = {} /\ At(cloudbe[b][p], c) = {}
    BY <1>0, <2>1
  <2>5. c \notin localfe /\ replies[c] = 0
    BY <1>0, <2>1
  <2> QED BY <2>2, <2>3, <2>4, <2>5, OneFromWorker
<1>6. ASSUME NEW u \in Brokers, NEW v \in Brokers, q = <<"cloudfe", <<u, v>>>> PROVE Copies(c) = 1
  <2>1. /\ q # AtFrontend /\ q # AtClient
        /\ \A k : q # <<"cloudbe", k>> /\ q # <<"tasks", k>> /\ q # <<"localbe", k>>
        /\ \A b, p : (b # u \/ p # v) => q # <<"cloudfe", <<b, p>>>>
    BY <1>6 DEF AtFrontend, AtClient
  <2>2. PICK i : At(cloudfe[u][v], c) = {i}
    BY <1>1, <1>6, CloudContents
  <2>3. \A w \in Workers : At(tasks[w], c) = {} /\ At(localbe[w], c) = {}
    BY <1>0, <2>1
  <2>4. \A b \in Brokers : \A p \in Brokers :
            ((b # u \/ p # v) => At(cloudfe[b][p], c) = {}) /\ At(cloudbe[b][p], c) = {}
    BY <1>0, <2>1
  <2>5. c \notin localfe /\ replies[c] = 0
    BY <1>0, <2>1
  <2>6. <<"cloudfe", <<u, v>>, i>> \in OnTheWay(c)
    <3>1. i \in At(cloudfe[u][v], c)
      BY <2>2
    <3> QED BY <3>1, OnTheWayIs
  <2>7. ASSUME NEW y \in OnTheWay(c) PROVE y = <<"cloudfe", <<u, v>>, i>>
    <3>1. \E b, p \in Brokers : \E j \in At(cloudfe[b][p], c) : y = <<"cloudfe", <<b, p>>, j>>
      <4>1. \A w \in Workers : At(tasks[w], c) = {} /\ At(localbe[w], c) = {}
        BY <2>3
      <4>2. ASSUME NEW b \in Brokers, NEW p \in Brokers PROVE At(cloudbe[b][p], c) = {}
        BY <2>4
      <4>3. ~ \E b, p \in Brokers : \E j \in At(cloudbe[b][p], c) : y = <<"cloudbe", <<b, p>>, j>>
        BY <4>2
      <4> QED BY <2>5, <2>7, <4>1, <4>3, OnTheWayIs
    <3>2. PICK b \in Brokers, p \in Brokers : \E j \in At(cloudfe[b][p], c) : y = <<"cloudfe", <<b, p>>, j>>
      BY <3>1
    <3>3. b = u /\ p = v
      BY <2>4, <3>2
    <3> QED BY <2>2, <3>2, <3>3
  <2> QED
    BY <2>5, <2>6, <2>7, OneOnTheWay
<1>7. ASSUME NEW u \in Brokers, NEW v \in Brokers, q = <<"cloudbe", <<u, v>>>> PROVE Copies(c) = 1
  <2>1. /\ q # AtFrontend /\ q # AtClient
        /\ \A k : q # <<"cloudfe", k>> /\ q # <<"tasks", k>> /\ q # <<"localbe", k>>
        /\ \A b, p : (b # u \/ p # v) => q # <<"cloudbe", <<b, p>>>>
    BY <1>7 DEF AtFrontend, AtClient
  <2>2. PICK i : At(cloudbe[u][v], c) = {i}
    BY <1>1, <1>7, CloudContents
  <2>3. \A w \in Workers : At(tasks[w], c) = {} /\ At(localbe[w], c) = {}
    BY <1>0, <2>1
  <2>4. \A b \in Brokers : \A p \in Brokers :
            ((b # u \/ p # v) => At(cloudbe[b][p], c) = {}) /\ At(cloudfe[b][p], c) = {}
    BY <1>0, <2>1
  <2>5. c \notin localfe /\ replies[c] = 0
    BY <1>0, <2>1
  <2>6. <<"cloudbe", <<u, v>>, i>> \in OnTheWay(c)
    <3>1. i \in At(cloudbe[u][v], c)
      BY <2>2
    <3> QED BY <3>1, OnTheWayIs
  <2>7. ASSUME NEW y \in OnTheWay(c) PROVE y = <<"cloudbe", <<u, v>>, i>>
    <3>1. \E b, p \in Brokers : \E j \in At(cloudbe[b][p], c) : y = <<"cloudbe", <<b, p>>, j>>
      <4>1. \A w \in Workers : At(tasks[w], c) = {} /\ At(localbe[w], c) = {}
        BY <2>3
      <4>2. ASSUME NEW b \in Brokers, NEW p \in Brokers PROVE At(cloudfe[b][p], c) = {}
        BY <2>4
      <4>3. ~ \E b, p \in Brokers : \E j \in At(cloudfe[b][p], c) : y = <<"cloudfe", <<b, p>>, j>>
        BY <4>2
      <4> QED BY <2>5, <2>7, <4>1, <4>3, OnTheWayIs
    <3>2. PICK b \in Brokers, p \in Brokers : \E j \in At(cloudbe[b][p], c) : y = <<"cloudbe", <<b, p>>, j>>
      BY <3>1
    <3>3. b = u /\ p = v
      BY <2>4, <3>2
    <3> QED BY <2>2, <3>2, <3>3
  <2> QED
    BY <2>5, <2>6, <2>7, OneOnTheWay
<1> QED
  BY <1>2, <1>3, <1>4, <1>5, <1>6, <1>7, SpotCases

-----------------------------------------------------------------------------
(* The theorems.                                                              *)

LEMMA TurnsInit == Init => Turns
<1> SUFFICES ASSUME Init PROVE Turns
  OBVIOUS
<1>1. \A T : Places(<< >>, T) = {} /\ Cardinality(Places(<< >>, T)) = 0
  <2>1. \A T : Places(<< >>, T) = {}
    BY DEF Places
  <2> QED BY <2>1, FS_EmptySet
<1> QED
  BY <1>1, NameFacts DEF Init, Turns, InQueue

\* However many brokers, clients and workers there are, a worker has one turn at a
\* time: it is in its broker's queue, or in a message to the broker, or in a request
\* it has to answer (peering.cpp:282,326,350).
THEOREM WorkersTakeTurns == Spec => []OneTurnPerWorker
<1>1. Init => Types /\ Turns
  BY TypesInit, TurnsInit
<1>2. Types /\ Turns /\ [Next]_vars => Types' /\ Turns'
  BY TypesKept, TurnsKept
<1>3. Types /\ Turns => OneTurnPerWorker
  BY TurnsAre
<1> QED
  BY <1>1, <1>2, <1>3, PTL DEF Spec

\* Nobody is sent two replies.
LEMMA OneReply ==
    ASSUME Types, OneCopy, NEW c \in Clients
    PROVE  replies[c] \in 0 .. 1
<1>1. Held[c][AtClient] \in 0 .. 1
  <2>1. CASE IsAwaited(c)
    <3>1. PICK q \in Spots : OnlyAt(q, c)
      BY <2>1 DEF OneCopy
    <3> QED BY <3>1, SpotFacts DEF OnlyAt
  <2>2. CASE ~ IsAwaited(c)
    BY <2>2, SpotFacts DEF OneCopy
  <2> QED BY <2>1, <2>2
<1> QED
  BY <1>1, HeldIs DEF HeldShape

LEMMA LeadsHome ==
    ASSUME HandshakeInv, Types, OneCopy
    PROVE  EnvelopesLeadHome
<1>0. \A S : \A s \in Seq(S) : Range(s) \subseteq S
  BY DEF Range
<1>1. TypeOK
  <2>1. replies \in [Clients -> 0 .. 1]
    <3>1. replies \in [Clients -> Nat]
      BY DEF Types, Typed
    <3> QED BY <3>1, OneReply
  <2>2. HandshakeTypeOK
    BY DEF HandshakeInv
  <2>3. localbe \in [Workers -> Seq(Envelope \cup {READY})]
    BY DEF Types, QueuesTyped, Message
  <2> QED BY <2>1, <2>2, <2>3 DEF TypeOK, Types, Typed, QueuesTyped
<1>2. ASSUME NEW w \in Workers, NEW env \in Range(tasks[w]) \cup (Range(localbe[w]) \ {READY})
      PROVE  \/ Len(env) = 1 /\ env[1] \in ClientsOf(Home(w))
             \/ Len(env) = 2 /\ env[1] \in Peers(Home(w)) /\ env[2] \in ClientsOf(env[1])
  <2>1. Home(w) \in Brokers
    BY NameFacts
  <2>2. env \in EnvAt(Home(w))
    <3>1. /\ tasks[w] \in Seq(EnvAt(Home(w)))
          /\ localbe[w] \in Seq(EnvAt(Home(w)) \cup {READY})
      BY DEF Types, QueuesLeadHome
    <3>2. /\ Range(tasks[w]) \subseteq EnvAt(Home(w))
          /\ Range(localbe[w]) \subseteq EnvAt(Home(w)) \cup {READY}
      BY <1>0, <3>1
    <3> QED BY <1>2, <3>2
  <2>3. env \in Direct(Home(w)) \/ env \in Through(Home(w))
    BY <2>2 DEF EnvAt
  <2> QED BY <2>1, <2>3, DirectFacts, ThroughFacts
<1>3. ASSUME NEW b \in Brokers, NEW p \in Brokers
      PROVE  /\ \A env \in Range(cloudfe[b][p]) : Len(env) = 1 /\ env[1] \in ClientsOf(p)
             /\ \A env \in Range(cloudbe[b][p]) : Len(env) = 1 /\ env[1] \in ClientsOf(b)
  <2>1. cloudfe[b][p] \in Seq(Direct(p)) /\ cloudbe[b][p] \in Seq(Direct(b))
    BY DEF Types, QueuesLeadHome
  <2>2. Range(cloudfe[b][p]) \subseteq Direct(p) /\ Range(cloudbe[b][p]) \subseteq Direct(b)
    BY <1>0, <2>1
  <2> QED BY <2>2, DirectFacts
<1> QED
  BY <1>1, <1>2, <1>3 DEF EnvelopesLeadHome

\* Wherever a message is, and through however many brokers it went, its next address
\* is one that place can send to and its last the client that asked, and a request is
\* passed on at most once (peering.cpp:291-307,343-355).
THEOREM MessagesLeadHome == Spec => []EnvelopesLeadHome
<1>1. Init => HandshakeInv /\ Types /\ OneCopy
  BY HandshakeInitHolds, TypesInit, OneCopyInit DEF Init
<1>2. HandshakeInv /\ Types /\ OneCopy /\ [Next]_vars => HandshakeInv' /\ Types' /\ OneCopy'
  BY StepGreets, HandshakeStepKeeps, TypesKept, OneCopyKept
<1>3. HandshakeInv /\ Types /\ OneCopy => EnvelopesLeadHome
  BY LeadsHome
<1> QED
  BY <1>1, <1>2, <1>3, PTL DEF Spec

\* A client that waits has exactly one message on its way, the request or its answer,
\* unless a cloudbe dropped it; no other client has any.  So no request is doubled or
\* lost between any number of brokers.
THEOREM RequestsAreNotDoubled == Spec => []OneCopyPerRequest
<1>1. Init => Types /\ OneCopy
  BY TypesInit, OneCopyInit
<1>2. Types /\ OneCopy /\ [Next]_vars => Types' /\ OneCopy'
  BY TypesKept, OneCopyKept
<1>3. Types /\ OneCopy => OneCopyPerRequest
  <2> SUFFICES ASSUME Types, OneCopy, NEW c \in Clients
               PROVE  Copies(c) = IF IsAwaited(c) THEN 1 ELSE 0
    BY DEF OneCopyPerRequest, IsAwaited
  <2>1. CASE IsAwaited(c)
    <3>1. PICK q \in Spots : OnlyAt(q, c)
      BY <2>1 DEF OneCopy
    <3> QED BY <2>1, <3>1, OneCopyAt
  <2>2. CASE ~ IsAwaited(c)
    <3>1. \A q \in Spots : Held[c][q] = 0
      BY <2>2 DEF OneCopy
    <3> QED BY <2>2, <3>1, NoCopy
  <2> QED BY <2>1, <2>2
<1> QED
  BY <1>1, <1>2, <1>3, PTL DEF Spec

=============================================================================
