----------------------------- MODULE SimpleBroker -----------------------------
(***************************************************************************)
(* The broker of reliable-req-rep/simple-pirate-broker.cpp: one thread that*)
(* polls the two ROUTER sockets, keeps the idle workers in a FIFO queue and*)
(* gives each request to the worker that has been idle longest.            *)
(***************************************************************************)
EXTENDS PirateSockets

CONSTANT MAX_REQUESTS   \* replies forwarded before the broker exits

ASSUME BrokerAssumption == MAX_REQUESTS \in Nat \ {0}

VARIABLES bpc,               \* "poll", "backend", "frontend" or "closed"
          frontend_ready,    \* items[1].revents of the last zmq_poll
          worker_queue,      \* the idle workers, longest idle first
          serviced_requests  \* replies forwarded so far

brokerVars == <<bpc, frontend_ready, worker_queue, serviced_requests>>

BrokerTypeOK ==
    /\ bpc \in {"poll", "backend", "frontend", "closed"}
    /\ frontend_ready \in BOOLEAN
    /\ worker_queue \in Seq(Workers)
    /\ serviced_requests \in 0 .. MAX_REQUESTS

BrokerInit ==
    /\ bpc = "poll"
    /\ frontend_ready = FALSE
    /\ worker_queue = << >>
    /\ serviced_requests = 0

\* Mutant: zmq_poll always gets both items.
AlwaysPolled   == TRUE
FrontendPolled == worker_queue # << >>

\* zmq_poll on the backend, and on the frontend too when a worker is idle.
BrokerPoll ==
    /\ bpc = "poll"
    /\ serviced_requests < MAX_REQUESTS
    /\ LET backend  == \E w \in Workers : notices[w] # << >>
           frontend == FrontendPolled /\ \E c \in Clients : requests[c] # << >>
       IN  /\ backend \/ frontend
           /\ frontend_ready' = frontend
           /\ bpc' = IF backend THEN "backend" ELSE "frontend"
    /\ UNCHANGED <<worker_queue, serviced_requests, socketVars>>

\* Mutant: only a worker that says it is ready is queued.
QueuedWhenReady(w) ==
    IF Head(notices[w]).client = WORKER_READY THEN Append(worker_queue, w) ELSE worker_queue

\* Whatever the worker sent, it is idle again.
Requeued(w) == Append(worker_queue, w)

\* Mutant: the worker at the front of the queue stays there.
NotRemoved == worker_queue
FrontRemoved == Tail(worker_queue)

\* A worker's message is read: its READY, or a reply to forward.
BackendFrom(w) ==
    /\ bpc = "backend"
    /\ notices[w] # << >>
    /\ worker_queue' = Requeued(w)
    /\ LET m == Head(notices[w]) IN
         \/ /\ m.client = WORKER_READY
            /\ UNCHANGED <<replies, serviced_requests>>
         \/ /\ m.client # WORKER_READY
            /\ replies' = Delivered(m.client, m.seq)
            /\ serviced_requests' = serviced_requests + 1
    /\ notices' = [notices EXCEPT ![w] = Tail(@)]
    /\ bpc' = IF frontend_ready THEN "frontend" ELSE "poll"
    /\ UNCHANGED <<frontend_ready, outbox, requests, routes, tasks, attached>>

FrontendFrom(c) ==
    /\ bpc = "frontend"
    /\ requests[c] # << >>
    /\ tasks' = Dispatched(Head(worker_queue),
                           [client |-> ClientId(c), seq |-> Head(requests[c])])
    /\ worker_queue' = FrontRemoved
    /\ requests' = [requests EXCEPT ![c] = Tail(@)]
    /\ bpc' = "poll"
    /\ UNCHANGED <<frontend_ready, serviced_requests, outbox, routes, replies,
                   notices, attached>>

\* The loop ends when enough requests were served ...
BrokerDone ==
    /\ bpc = "poll"
    /\ serviced_requests >= MAX_REQUESTS
    /\ bpc' = "closed"
    /\ UNCHANGED <<frontend_ready, worker_queue, serviced_requests, socketVars>>

\* ... or when zmq_poll returns an error.
BrokerInterrupted ==
    /\ bpc = "poll"
    /\ serviced_requests < MAX_REQUESTS
    /\ bpc' = "closed"
    /\ UNCHANGED <<frontend_ready, worker_queue, serviced_requests, socketVars>>

Broker == \/ BrokerPoll
          \/ \E w \in Workers : BackendFrom(w)
          \/ \E c \in Clients : FrontendFrom(c)
          \/ BrokerDone
=============================================================================
