---------------------------- MODULE ParanoidPirate ----------------------------
(***************************************************************************)
(* The paranoid pirate system: the clients of the simple pirate, the       *)
(* heartbeating broker and its workers, as separate processes and threads, *)
(* with libzmq moving their messages in the background.                    *)
(***************************************************************************)
EXTENDS PirateClient, ParanoidBroker, ParanoidWorker

vars == <<socketVars, clientVars, brokerVars, workerVars>>

Init == SocketsInit /\ ClientInit /\ BrokerInit /\ WorkerInit

ClientStep(c) == Client(c) /\ UNCHANGED <<brokerVars, workerVars>>

\* libzmq's I/O threads carry a client's requests to a broker that is there.
NetworkStep(c) ==
    /\ bpc # "closed"
    /\ Transmit(c) \/ Refuse(c)
    /\ UNCHANGED <<clientVars, brokerVars, workerVars>>

BrokerStep  == Broker /\ UNCHANGED <<clientVars, workerVars>>
BrokerStop  == BrokerInterrupted /\ UNCHANGED <<clientVars, workerVars>>
Backend(w)  == BackendFrom(w) /\ UNCHANGED <<clientVars, workerVars>>
Frontend(c) == FrontendFrom(c) /\ UNCHANGED <<clientVars, workerVars>>
TimePasses  == PollFor(1) /\ UNCHANGED <<clientVars, workerVars>>

WorkerStep(w) == Worker(w) /\ UNCHANGED <<clientVars, brokerVars>>
WorkerStop(w) == /\ WorkerCrash(w) \/ WorkerInterrupted(w)
                 /\ UNCHANGED <<clientVars, brokerVars>>

Next == \/ \E c \in Clients : ClientStep(c) \/ NetworkStep(c)
        \/ BrokerStep \/ BrokerStop
        \/ \E w \in Workers : WorkerStep(w) \/ WorkerStop(w)

\* Every process keeps running; a ROUTER reads its connections in turn, so each
\* one with a message to read is read again and again; and time goes on, however
\* often zmq_poll returns early.
Fairness ==
    /\ \A c \in Clients : /\ WF_vars(ClientStep(c))
                          /\ WF_vars(NetworkStep(c))
                          /\ SF_vars(Frontend(c))
    /\ WF_vars(BrokerStep)
    /\ SF_vars(TimePasses)
    /\ \A w \in Workers : WF_vars(WorkerStep(w)) /\ SF_vars(Backend(w))

Spec     == Init /\ [][Next]_vars
FairSpec == Spec /\ Fairness

-----------------------------------------------------------------------------
TypeOK == ParanoidSocketsTypeOK /\ ClientTypeOK /\ BrokerTypeOK /\ WorkerTypeOK

Gone == {w \in Workers : wpc[w] \in {"exited", "crashed"}}

\* The broker never takes a worker from an empty set, although its size is tested
\* before zmq_poll and the set is used after it
\* (paranoid-pirate-broker.cpp:143 against the assertion at :92); and the types hold.
PopIsSafe == TypeOK /\ (bpc = "frontend" => workers # {})

\* When the purge is over no worker that is left has expired, although the set
\* is not searched beyond the first expired one
\* (paranoid-pirate-broker.cpp:60-75).
NoneExpiredAfterPurge ==
    [][bpc = "purge" /\ bpc' = "poll" => \A w \in workers' : age[w] <= EXPIRATION]_vars

-----------------------------------------------------------------------------
\* A worker that is gone is forgotten in the end, even if messages of it are
\* still to be read, and never listed again: being gone is for good (the purge of
\* paranoid-pirate-broker.cpp:137, which its comment says is to be tested).
GoneWorkersForgotten ==
    \A w \in Workers :
        <>[](w \in Gone /\ bpc # "closed" => w \notin workers)

\* Whatever a worker sends puts it on the broker's list
\* (paranoid-pirate-broker.cpp:147-153), so that a worker that was purged while
\* it was alive comes back with its next READY.
HeardWorkersListed ==
    \A w \in Workers : notices[w] # << >> ~> w \in workers \/ bpc = "closed"

\* A worker that runs is on the broker's list again and again, though it is purged
\* because it says nothing between heartbeats (paranoid-pirate-worker.cpp:105), and
\* though its new connection may be refused (:147): it comes back, or gives up.
LiveWorkersComeBack ==
    \A w \in Workers : []<>(w \in workers \/ w \in Gone \/ bpc = "closed")

IsWaiting(w) == \E k \in 1 .. Len(tasks[w]) : tasks[w][k].client # HEARTBEAT

\* A request in a worker's pipe does not stay there, although the broker also lists
\* workers that are at work, and sends them a request behind the one they have
\* (paranoid-pirate-broker.cpp:152): the worker takes it, when it has got rid of its
\* reply, or the pipe ends with the connection.
RequestsAreTaken ==
    \A w \in Workers : IsWaiting(w) ~> ~IsWaiting(w) \/ bpc = "closed"

\* A client's request at the broker does not wait for ever, as long as the
\* broker runs and a worker is left.
RequestsAreRead ==
    \A c \in Clients :
        []<>(requests[c] = << >> \/ bpc = "closed" \/ Gone = Workers)

=============================================================================
