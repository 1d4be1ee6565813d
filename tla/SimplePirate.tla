----------------------------- MODULE SimplePirate -----------------------------
(***************************************************************************)
(* The simple pirate system: clients, the broker and its workers run as    *)
(* separate processes and threads, and libzmq moves their messages in the  *)
(* background.                                                             *)
(***************************************************************************)
EXTENDS PirateClient, SimpleBroker, SimpleWorker

vars == <<socketVars, clientVars, brokerVars, workerVars>>

Init == SocketsInit /\ ClientInit /\ BrokerInit /\ WorkerInit

ClientStep(c) == Client(c) /\ UNCHANGED <<brokerVars, workerVars>>

\* libzmq's I/O threads carry a client's requests to a broker that is there.
NetworkStep(c) ==
    /\ bpc # "closed"
    /\ Transmit(c) \/ Refuse(c)
    /\ UNCHANGED <<clientVars, brokerVars, workerVars>>

BrokerStep == Broker /\ UNCHANGED <<clientVars, workerVars>>
BrokerStop == BrokerInterrupted /\ UNCHANGED <<clientVars, workerVars>>
Backend(w)  == BackendFrom(w) /\ UNCHANGED <<clientVars, workerVars>>
Frontend(c) == FrontendFrom(c) /\ UNCHANGED <<clientVars, workerVars>>

WorkerStep(w) == Worker(w) /\ UNCHANGED <<clientVars, brokerVars>>
Crash(w) == WorkerCrash(w) /\ UNCHANGED <<clientVars, brokerVars>>

Next == \/ \E c \in Clients : ClientStep(c) \/ NetworkStep(c)
        \/ BrokerStep \/ BrokerStop
        \/ \E w \in Workers : WorkerStep(w) \/ Crash(w)

\* Every process keeps running; a ROUTER reads its connections in turn, so each
\* one with a message to read is read again and again; zmq_poll times out.
Fairness ==
    /\ \A c \in Clients : /\ WF_vars(ClientStep(c))
                          /\ WF_vars(NetworkStep(c))
                          /\ SF_vars(Frontend(c))
    /\ WF_vars(BrokerStep)
    /\ \A w \in Workers : WF_vars(WorkerStep(w)) /\ SF_vars(Backend(w))

Spec     == Init /\ [][Next]_vars
FairSpec == Spec /\ Fairness

-----------------------------------------------------------------------------
TypeOK == SocketsTypeOK /\ ClientTypeOK /\ BrokerTypeOK /\ WorkerTypeOK

Crashed   == {w \in Workers : wpc[w] = "crashed"}
Idle      == {worker_queue[i] : i \in 1 .. Len(worker_queue)}
Queued(w) == w \in Idle

\* The turns of worker w: messages on their way to the broker, its place in the
\* broker's queue, and requests on their way back.
Turns(w) == Len(notices[w]) + (IF Queued(w) THEN 1 ELSE 0) + Len(tasks[w])

\* A worker is never given a request before it has answered the last one, and
\* never forgotten: one that waits in zmq_recv has exactly one turn, one that
\* does not has none, and nobody is queued twice (the broker's queue,
\* simple-pirate-broker.cpp:67,92-99, against the worker's loop).
OneTurnPerWorker ==
    /\ \A w \in Workers : Turns(w) = IF wpc[w] = "recv" THEN 1 ELSE 0
    /\ \A i, j \in 1 .. Len(worker_queue) :
         worker_queue[i] = worker_queue[j] => i = j

\* worker_queue.front() (simple-pirate-broker.cpp:92) is never called on an
\* empty deque, and the worker it returns is alive and waiting.
FrontIsIdle ==
    bpc = "frontend" =>
        /\ worker_queue # << >>
        /\ wpc[Head(worker_queue)] = "recv"
        /\ Head(worker_queue) \in attached

-----------------------------------------------------------------------------
At(s, n) == {i \in 1 .. Len(s) : s[i] = n}

\* The copies of request n of client c that are somewhere between the client's
\* socket and its reply, each at its place.
Copies(c, n) ==
    LET task == [client |-> ClientId(c), seq |-> n] IN
    Cardinality(
        ({"outbox"}   \X At(outbox[c], n)) \cup
        ({"requests"} \X At(requests[c], n)) \cup
        ({"replies"}  \X At(replies[c], n)) \cup
        (UNION {{"notices"} \X {w} \X At(notices[w], task) : w \in Workers}) \cup
        (UNION {{"tasks"}   \X {w} \X At(tasks[w], task) : w \in Workers}) \cup
        ({"busy"} \X {w \in Workers : wpc[w] = "busy" /\ job[w] = task}))

\* Retrying never floods the system: there is at most one copy of the request at
\* hand per attempt made, and at most MAX_RETRIES of an older one.
CopiesBounded ==
    \A c \in Clients : \A n \in 0 .. MaxSeq :
        Copies(c, n) <= IF n = sequence[c]
                        THEN IF cpc[c] = "send" THEN 0 ELSE MAX_RETRIES - retries[c] + 1
                        ELSE IF n < sequence[c] THEN MAX_RETRIES ELSE 0

\* The frontend refused the client's current connection.
Unreachable(c) == c \notin routes /\ outbox[c] = << >>

\* A request a client waits for is not lost in the broker: until a worker
\* crashes or the broker exits, it is on its way or something is in the inbox
\* (simple-pirate-client.cpp:42-88 with simple-pirate-broker.cpp:59-101).
NoSilentLoss ==
    Crashed = {} /\ bpc # "closed" =>
        \A c \in Clients :
            cpc[c] = "poll" => \/ replies[c] # << >>
                               \/ Copies(c, sequence[c]) > 0
                               \/ Unreachable(c)

-----------------------------------------------------------------------------
\* A client's request at the broker does not wait for ever: the broker reads the
\* frontend, unless it exits or every worker has crashed.
RequestsAreRead ==
    \A c \in Clients :
        requests[c] # << >> ~>
            requests[c] = << >> \/ bpc = "closed" \/ Crashed = Workers

-----------------------------------------------------------------------------
\* The answer a client accepts is the answer to its request.  The client calls
\* anything else "ERROR: MALFORMED REPLY RECEIVED" (simple-pirate-client.cpp:60)
\* but goes on to the next request all the same.
AcceptedReplyMatches ==
    [][\A c \in Clients :
          sequence'[c] > sequence[c] => Head(replies[c]) = sequence[c]]_vars

\* The promise of the pattern, on the state of this system.
Promise == INSTANCE AtLeastOnce WITH
              phase   <- [c \in Clients |-> CASE cpc[c] = "send" -> "idle"
                                              [] cpc[c] = "poll" -> "waiting"
                                              [] OTHER           -> "stopped"],
              current <- sequence

\* A client does not wait for ever, whatever the broker and the workers do.
ClientsMoveOn == Promise!EveryRequestResolved
=============================================================================
