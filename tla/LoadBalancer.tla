----------------------------- MODULE LoadBalancer -----------------------------
(***************************************************************************)
(* router/load-balancer.cpp: clients that send one request each, workers,  *)
(* and the loop of the simple broker between them, as threads of one       *)
(* process that ends when every client has been served.                    *)
(***************************************************************************)
EXTENDS SimpleBroker, SimpleWorker

\* The loop counts to MAX_CLIENTS, and every client sets an identity.
ASSUME BalancerAssumption ==
         /\ IsFiniteSet(Clients) /\ MAX_REQUESTS = Cardinality(Clients)
         /\ Anonymous = {}

VARIABLES cpc,      \* client -> "send", "wait" or "done"
          running   \* FALSE once main has called std::terminate

clientVars == <<cpc, running>>
balancerVars == <<socketVars, brokerVars, workerVars, clientVars>>

BalancerInit ==
    /\ SocketsInit /\ BrokerInit /\ WorkerInit
    /\ cpc = [c \in Clients |-> "send"]
    /\ running = TRUE

-----------------------------------------------------------------------------
ClientSend(c) ==
    /\ cpc[c] = "send"
    /\ ReqSend(c, 0)
    /\ cpc' = [cpc EXCEPT ![c] = "wait"]
    /\ UNCHANGED running

\* The thread prints the reply and ends; it leaves its socket open.
ClientReceive(c) ==
    /\ cpc[c] = "wait"
    /\ replies[c] # << >>
    /\ ReqReceive(c)
    /\ cpc' = [cpc EXCEPT ![c] = "done"]
    /\ UNCHANGED running

ClientStep(c) == /\ running
                 /\ ClientSend(c) \/ ClientReceive(c)
                 /\ UNCHANGED <<brokerVars, workerVars>>

NetworkStep(c) == /\ running
                  /\ bpc # "closed"
                  /\ Transmit(c)
                  /\ UNCHANGED <<brokerVars, workerVars, clientVars>>

WorkerStep(w) == running /\ Worker(w) /\ UNCHANGED <<brokerVars, clientVars>>

LoopStep == Broker /\ UNCHANGED <<workerVars, clientVars>>
Interrupt == BrokerInterrupted /\ UNCHANGED <<workerVars, clientVars>>

\* zmq_ctx_destroy has sent what the broker's sockets held; the termination
\* handler then ends the process, whatever its threads are doing.
Terminate ==
    /\ bpc = "closed"
    /\ running
    /\ running' = FALSE
    /\ UNCHANGED <<cpc, socketVars, brokerVars, workerVars>>

MainStep == LoopStep \/ Terminate

BalancerNext == \/ \E c \in Clients : ClientStep(c) \/ NetworkStep(c)
        \/ \E w \in Workers : WorkerStep(w)
        \/ MainStep \/ Interrupt

BalancerFairness ==
    /\ \A c \in Clients : WF_balancerVars(ClientStep(c)) /\ WF_balancerVars(NetworkStep(c))
    /\ \A w \in Workers : WF_balancerVars(WorkerStep(w))
    /\ WF_balancerVars(MainStep)

BalancerSpec == BalancerInit /\ [][BalancerNext]_balancerVars /\ BalancerFairness

-----------------------------------------------------------------------------
\* The loop counts replies, not clients (load-balancer.cpp:132,149): when the
\* count is reached every client has its own reply, printed or to be read.
AllServedAtExit ==
    bpc = "closed" /\ serviced_requests = MAX_REQUESTS =>
        \A c \in Clients : cpc[c] = "done" \/ replies[c] # << >>

\* Clients that outnumber the workers are all served in turn, and the process ends.
Terminates == <>(~running)

\* The reply a client reads is to its own request, and a worker has handled it.
Promise == INSTANCE AtLeastOnce WITH
              MaxSeq  <- 1,
              phase   <- [c \in Clients |-> IF cpc[c] = "wait" THEN "waiting" ELSE "idle"],
              current <- [c \in Clients |-> IF cpc[c] = "done" THEN 1 ELSE 0]

ImplementsAtLeastOnce == Promise!Spec
=============================================================================
