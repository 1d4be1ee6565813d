------------------------------ MODULE PeerBrokers ------------------------------
(***************************************************************************)
(* The brokers of peer-brokers/peering.cpp: their handshake, during which  *)
(* their clients and workers, in threads of their own, already run, and    *)
(* then the routing.  A broker passes some of its clients' requests to     *)
(* another broker.                                                         *)
(*                                                                         *)
(* A message is its envelope, the addresses it is to be returned to, the   *)
(* next one first.  A ROUTER socket puts the sender's address in front of  *)
(* what it reads and takes the first address off what it sends.            *)
(***************************************************************************)
EXTENDS PeerHandshake, Sequences, Functions

CONSTANTS NBR_CLIENTS,   \* clients of a broker
          NBR_WORKERS,   \* workers of a broker
          MaxRequests    \* model bound: requests of a client

ASSUME PeeringAssumption ==
         /\ NBR_CLIENTS \in Nat \ {0} /\ NBR_WORKERS \in Nat \ {0}
         /\ MaxRequests \in Nat

\* make_id(URI of the broker's socket, number).
Clients == Brokers \X (1 .. NBR_CLIENTS)
Workers == Brokers \X (1 .. NBR_WORKERS)
Home(x) == x[1]

ClientsOf(b) == {c \in Clients : Home(c) = b}
WorkersOf(b) == {w \in Workers : Home(w) = b}

ASSUME NamesAssumption == Brokers \cap (Clients \cup Workers) = {}

VARIABLES cpc,            \* client -> "send" or "wait"
          sent,           \* client -> requests it has sent
          replies,        \* client -> replies it can read
          wpc,            \* worker -> "start" or "wait"
          tasks,          \* worker -> messages it can read
          localfe,        \* the clients whose request their broker can read
          localbe,        \* worker -> messages its broker can read
          cloudfe,        \* broker -> peer -> requests of that peer it can read
          cloudbe,        \* broker -> peer -> replies of that peer it can read
          linked,         \* broker -> peers whose identity its cloudbe knows
          lost,           \* the clients whose request a cloudbe dropped
          worker_queue,   \* broker -> its idle workers
          bpc             \* broker -> "backends", "frontends" or "closed"

clientVars == <<cpc, sent, replies>>
workerVars == <<wpc, tasks>>
cloudVars  == <<cloudfe, cloudbe, lost>>
routingVars == <<clientVars, workerVars, localfe, localbe, cloudVars, worker_queue, bpc>>
vars == <<handshakeVars, linked, routingVars>>

READY == << >>   \* WORKER_READY: no envelope

Envelope == {<<c>> : c \in Clients} \cup (Brokers \X Clients)

TypeOK ==
    /\ HandshakeTypeOK
    /\ cpc \in [Clients -> {"send", "wait"}]
    /\ sent \in [Clients -> 0 .. MaxRequests]
    /\ replies \in [Clients -> 0 .. 1]
    /\ wpc \in [Workers -> {"start", "wait"}]
    /\ tasks \in [Workers -> Seq(Envelope)]
    /\ localfe \subseteq Clients
    /\ localbe \in [Workers -> Seq(Envelope \cup {READY})]
    /\ cloudfe \in [Brokers -> [Brokers -> Seq(Envelope)]]
    /\ cloudbe \in [Brokers -> [Brokers -> Seq(Envelope)]]
    /\ linked \in [Brokers -> SUBSET Brokers]
    /\ lost \subseteq Clients
    /\ worker_queue \in [Brokers -> Seq(Workers)]
    /\ bpc \in [Brokers -> {"backends", "frontends", "closed"}]

Init ==
    /\ HandshakeInit
    /\ cpc = [c \in Clients |-> "send"]
    /\ sent = [c \in Clients |-> 0]
    /\ replies = [c \in Clients |-> 0]
    /\ wpc = [w \in Workers |-> "start"]
    /\ tasks = [w \in Workers |-> << >>]
    /\ localfe = {}
    /\ localbe = [w \in Workers |-> << >>]
    /\ cloudfe = [b \in Brokers |-> [p \in Brokers |-> << >>]]
    /\ cloudbe = [b \in Brokers |-> [p \in Brokers |-> << >>]]
    /\ linked = [b \in Brokers |-> {}]
    /\ lost = {}
    /\ worker_queue = [b \in Brokers |-> << >>]
    /\ bpc = [b \in Brokers |-> "backends"]

-----------------------------------------------------------------------------
(* Clients and workers: REQ sockets, so a client has one request out, and a  *)
(* worker takes the next task when it has sent its answer to the last one.   *)
(* Their broker starts them before it has greeted anybody.                   *)

ClientSend(c) ==
    /\ phase[Home(c)] # "down"
    /\ cpc[c] = "send"
    /\ sent[c] < MaxRequests
    /\ localfe' = localfe \cup {c}
    /\ sent' = [sent EXCEPT ![c] = @ + 1]
    /\ cpc' = [cpc EXCEPT ![c] = "wait"]
    /\ UNCHANGED <<replies, workerVars, localbe, cloudVars, worker_queue, bpc>>

ClientReceive(c) ==
    /\ cpc[c] = "wait"
    /\ replies[c] > 0
    /\ replies' = [replies EXCEPT ![c] = @ - 1]
    /\ cpc' = [cpc EXCEPT ![c] = "send"]
    /\ UNCHANGED <<sent, workerVars, localfe, localbe, cloudVars, worker_queue, bpc>>

WorkerStart(w) ==
    /\ phase[Home(w)] # "down"
    /\ wpc[w] = "start"
    /\ localbe' = [localbe EXCEPT ![w] = Append(@, READY)]
    /\ wpc' = [wpc EXCEPT ![w] = "wait"]
    /\ UNCHANGED <<clientVars, tasks, localfe, cloudVars, worker_queue, bpc>>

\* The answer goes back in the envelope of the request.
WorkerAnswer(w) ==
    /\ wpc[w] = "wait"
    /\ tasks[w] # << >>
    /\ localbe' = [localbe EXCEPT ![w] = Append(@, Head(tasks[w]))]
    /\ tasks' = [tasks EXCEPT ![w] = Tail(@)]
    /\ UNCHANGED <<clientVars, wpc, localfe, cloudVars, worker_queue, bpc>>

-----------------------------------------------------------------------------
(* The broker's loop: one message from the backends, workers first ...       *)

AtBackends(b) == bpc[b] = "backends"

\* A reply goes to the broker or to the client its envelope names; the ROUTER
\* drops what names neither.  "unrouted" is what the cloudbes then hold besides.
Route(b, env, unrouted) ==
    \/ /\ Head(env) \in Peers(b)
       /\ cloudbe' = [unrouted EXCEPT ![Head(env)][b] = Append(@, Tail(env))]
       /\ UNCHANGED replies
    \/ /\ Head(env) \notin Peers(b)
       /\ replies' = [c \in Clients |-> IF c = Head(env) /\ Home(c) = b
                                        THEN replies[c] + 1 ELSE replies[c]]
       /\ cloudbe' = unrouted

\* Mutant: a worker is available when it says so, not when it has answered.
QueuedWhenReady(w, env) == IF env = READY THEN Append(worker_queue[Home(w)], w)
                                          ELSE worker_queue[Home(w)]
Queued(w, env) == Append(worker_queue[Home(w)], w)

LocalReply(w) ==
    /\ AtBackends(Home(w))
    /\ localbe[w] # << >>
    /\ worker_queue' = [worker_queue EXCEPT ![Home(w)] = Queued(w, Head(localbe[w]))]
    /\ \/ Head(localbe[w]) = READY /\ UNCHANGED <<replies, cloudbe>>
       \/ Head(localbe[w]) # READY /\ Route(Home(w), Head(localbe[w]), cloudbe)
    /\ localbe' = [localbe EXCEPT ![w] = Tail(@)]
    /\ bpc' = [bpc EXCEPT ![Home(w)] = "frontends"]
    /\ UNCHANGED <<cpc, sent, workerVars, localfe, cloudfe, lost>>

NoLocalReply(b) == \A w \in WorkersOf(b) : localbe[w] = << >>

CloudReply(b, p) ==
    /\ AtBackends(b)
    /\ NoLocalReply(b)
    /\ cloudbe[b][p] # << >>
    /\ Route(b, Head(cloudbe[b][p]), [cloudbe EXCEPT ![b][p] = Tail(@)])
    /\ bpc' = [bpc EXCEPT ![b] = "frontends"]
    /\ UNCHANGED <<cpc, sent, workerVars, localfe, localbe, cloudfe, lost, worker_queue>>

\* The poll ends after a second if there are workers, and waits if there are none.
PollTimeout(b) ==
    /\ AtBackends(b)
    /\ worker_queue[b] # << >>
    /\ NoLocalReply(b)
    /\ \A p \in Peers(b) : cloudbe[b][p] = << >>
    /\ bpc' = [bpc EXCEPT ![b] = "frontends"]
    /\ UNCHANGED <<clientVars, workerVars, localfe, localbe, cloudVars, worker_queue>>

-----------------------------------------------------------------------------
(* ... then requests for as long as there is an idle worker, those of peers   *)
(* first.                                                                     *)

AtFrontends(b) == bpc[b] = "frontends" /\ worker_queue[b] # << >>

ToWorker(b, env) ==
    LET w == Head(worker_queue[b]) IN
    /\ tasks' = [tasks EXCEPT ![w] = Append(@, env)]
    /\ worker_queue' = [worker_queue EXCEPT ![b] = Tail(@)]

\* Mutant: the peer's name is left out of the envelope.
Unwrapped(p, env) == env
Wrapped(p, env) == <<p>> \o env

CloudRequest(b, p) ==
    /\ AtFrontends(b)
    /\ cloudfe[b][p] # << >>
    /\ ToWorker(b, Wrapped(p, Head(cloudfe[b][p])))
    /\ cloudfe' = [cloudfe EXCEPT ![b][p] = Tail(@)]
    /\ UNCHANGED <<clientVars, wpc, localfe, localbe, cloudbe, lost, bpc>>

NoCloudRequest(b) == \A p \in Peers(b) : cloudfe[b][p] = << >>

\* cloudbe drops a message for a peer it is not connected to yet.
ToPeer(b, p, c) ==
    \/ /\ p \in linked[b]
       /\ cloudfe' = [cloudfe EXCEPT ![p][b] = Append(@, <<c>>)]
       /\ UNCHANGED lost
    \/ /\ p \notin linked[b]
       /\ lost' = lost \cup {c}
       /\ UNCHANGED cloudfe

\* Mutant: a request that went to a peer is also given to a worker.
SentTwice(c) ==
    /\ AtFrontends(Home(c))
    /\ NoCloudRequest(Home(c))
    /\ c \in localfe
    /\ localfe' = localfe \ {c}
    /\ ToWorker(Home(c), <<c>>)
    /\ \/ \E p \in Peers(Home(c)) : ToPeer(Home(c), p, c)
       \/ UNCHANGED <<cloudfe, lost>>
    /\ UNCHANGED <<clientVars, wpc, localbe, cloudbe, bpc>>

\* A client's request goes to a random peer or, three times out of four, to a
\* worker.
LocalRequest(c) ==
    /\ AtFrontends(Home(c))
    /\ NoCloudRequest(Home(c))
    /\ c \in localfe
    /\ localfe' = localfe \ {c}
    /\ \/ /\ \E p \in Peers(Home(c)) : ToPeer(Home(c), p, c)
          /\ UNCHANGED <<tasks, worker_queue>>
       \/ ToWorker(Home(c), <<c>>) /\ UNCHANGED <<cloudfe, lost>>
    /\ UNCHANGED <<clientVars, wpc, localbe, cloudbe, bpc>>

NoWork(b) ==
    /\ bpc[b] = "frontends"
    /\ worker_queue[b] = << >> \/ (NoCloudRequest(b) /\ ClientsOf(b) \cap localfe = {})
    /\ bpc' = [bpc EXCEPT ![b] = "backends"]
    /\ UNCHANGED <<clientVars, workerVars, localfe, localbe, cloudVars, worker_queue>>

-----------------------------------------------------------------------------
\* The poll of the backends is interrupted: the broker closes its sockets.  What
\* they held stays where it is, and nobody reads it.
Interrupted(b) ==
    /\ AtBackends(b)
    /\ bpc' = [bpc EXCEPT ![b] = "closed"]
    /\ UNCHANGED <<clientVars, workerVars, localfe, localbe, cloudVars, worker_queue>>

\* libzmq completes the connection of b's cloudbe to p's cloudfe, which each of
\* them opens before it notifies anybody.
Link(b, p) ==
    /\ phase[b] # "down" /\ phase[p] # "down"
    /\ linked' = [linked EXCEPT ![b] = @ \cup {p}]
    /\ UNCHANGED <<handshakeVars, routingVars>>

\* The loop starts after the handshake.
Loop(b) ==
    /\ phase[b] = "running"
    /\ \/ \E w \in WorkersOf(b) : LocalReply(w)
       \/ \E p \in Peers(b) : CloudReply(b, p) \/ CloudRequest(b, p)
       \/ \E c \in ClientsOf(b) : LocalRequest(c)
       \/ PollTimeout(b) \/ NoWork(b)

HandshakeStep == HandshakeNext /\ UNCHANGED <<linked, routingVars>>

Client(c) == (ClientSend(c) \/ ClientReceive(c)) /\ UNCHANGED <<handshakeVars, linked>>
Worker(w) == (WorkerStart(w) \/ WorkerAnswer(w)) /\ UNCHANGED <<handshakeVars, linked>>
Broker(b) == Loop(b) /\ UNCHANGED <<handshakeVars, linked>>
Stop(b)   == /\ phase[b] = "running"
             /\ Interrupted(b)
             /\ UNCHANGED <<handshakeVars, linked>>

Next == \/ HandshakeStep
        \/ \E c \in Clients : Client(c)
        \/ \E w \in Workers : Worker(w)
        \/ \E b \in Brokers : Broker(b) \/ Stop(b)
        \/ \E b \in Brokers : \E p \in Peers(b) : Link(b, p)

\* Every thread of a broker that was started keeps running; nobody has to start a
\* broker.
Fairness ==
    /\ HandshakeFairness
    /\ \A c \in Clients : WF_vars(Client(c))
    /\ \A w \in Workers : WF_vars(Worker(w))
    /\ \A b \in Brokers : WF_vars(Broker(b))

Spec     == Init /\ [][Next]_vars
FairSpec == Spec /\ Fairness

-----------------------------------------------------------------------------
\* A worker has one turn at a time: in the queue, in a message to the broker, or
\* in a request to answer (the deque of peering.cpp:253,282,350 against the REQ
\* socket of the worker).
OneTurnPerWorker ==
    \A w \in Workers :
        Len(tasks[w]) + Len(localbe[w])
            + Cardinality({i \in 1 .. Len(worker_queue[Home(w)]) : worker_queue[Home(w)][i] = w})
        = IF wpc[w] = "start" THEN 0 ELSE 1

\* Every envelope leads home: at each place a message can be, its next address is
\* one that place can send to, the last one is the client that asked, and no
\* request is passed on twice (the stripping of peering.cpp:291,303 and the
\* prefixing of :343,352-355, with is_peer_name on what is left).  The types of the
\* other variables are the first conjunct.
EnvelopesLeadHome ==
    /\ TypeOK
    /\ \A w \in Workers : \A env \in Range(tasks[w]) \cup (Range(localbe[w]) \ {READY}) :
          \/ Len(env) = 1 /\ env[1] \in ClientsOf(Home(w))
          \/ Len(env) = 2 /\ env[1] \in Peers(Home(w)) /\ env[2] \in ClientsOf(env[1])
    /\ \A b, p \in Brokers :
          /\ \A env \in Range(cloudfe[b][p]) : Len(env) = 1 /\ env[1] \in ClientsOf(p)
          /\ \A env \in Range(cloudbe[b][p]) : Len(env) = 1 /\ env[1] \in ClientsOf(b)

\* The positions of s with a message that is to return to client c.
At(s, c) == {i \in 1 .. Len(s) : s[i] # READY /\ s[i][Len(s[i])] = c}

\* The copies of client c's request, or of its answer, that are on their way.
Copies(c) ==
    replies[c] + Cardinality(
        ({"localfe"} \X ({c} \cap localfe)) \cup
        (UNION {{"tasks"}   \X {w} \X At(tasks[w], c) : w \in Workers}) \cup
        (UNION {{"localbe"} \X {w} \X At(localbe[w], c) : w \in Workers}) \cup
        (UNION {{"cloudfe"} \X {<<b, p>>} \X At(cloudfe[b][p], c) : b, p \in Brokers}) \cup
        (UNION {{"cloudbe"} \X {<<b, p>>} \X At(cloudbe[b][p], c) : b, p \in Brokers}))

SomeClosed == \E b \in Brokers : bpc[b] = "closed"
SomeDown   == \E b \in Brokers : phase[b] = "down"

\* A request is never doubled, whichever brokers it goes through, and lost only
\* where a cloudbe drops it: a client that waits has exactly one message on its
\* way, and no other client has any.
OneCopyPerRequest ==
    \A c \in Clients : Copies(c) = IF cpc[c] = "wait" /\ c \notin lost THEN 1 ELSE 0

\* What was not dropped is answered, if every broker is started and none stops:
\* brokers that greet each other while their clients already send, and then pass
\* work to each other while their workers are busy, do not wait for each other for
\* ever.
EveryRequestAnswered ==
    \A c \in Clients : []<>(cpc[c] = "send" \/ c \in lost \/ SomeClosed \/ SomeDown)
=============================================================================
