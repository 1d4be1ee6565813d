---------------------------- MODULE ParanoidBroker ----------------------------
(***************************************************************************)
(* The broker of reliable-req-rep/paranoid-pirate-broker.cpp.  Like the    *)
(* simple broker it is one thread around zmq_poll; it also forgets workers *)
(* it has not heard of for EXPIRATION and sends every worker it knows a    *)
(* heartbeat in each iteration.                                            *)
(*                                                                         *)
(* Time is counted in units of TIMEOUT, the longest zmq_poll may wait, and *)
(* passes only in zmq_poll.                                                *)
(***************************************************************************)
EXTENDS ParanoidSockets, FiniteSetsExt

CONSTANTS EXPIRATION,     \* EXPIRATION_INTERVAL in units of TIMEOUT
          MAX_REQUESTS    \* replies forwarded before the broker exits

ASSUME ParanoidAssumption ==
         /\ Workers \subseteq Nat \ {0}
         /\ EXPIRATION \in Nat \ {0}
         /\ MAX_REQUESTS \in Nat \ {0}

VARIABLES bpc,               \* "purge", "poll", "backend", "frontend", "beat" or "closed"
          frontend_ready,    \* items[1].revents of the last zmq_poll
          workers,           \* the identities in the std::set
          age,               \* worker -> time since its timestamp_, while listed
          serviced_requests  \* replies forwarded so far

brokerVars == <<bpc, frontend_ready, workers, age, serviced_requests>>

BrokerTypeOK ==
    /\ bpc \in {"purge", "poll", "backend", "frontend", "beat", "closed"}
    /\ frontend_ready \in BOOLEAN
    /\ workers \subseteq Workers
    /\ age \in [Workers -> 0 .. EXPIRATION + 1]
    /\ serviced_requests \in 0 .. MAX_REQUESTS

BrokerInit ==
    /\ bpc = "purge"
    /\ frontend_ready = FALSE
    /\ workers = {}
    /\ age = [w \in Workers |-> 0]
    /\ serviced_requests = 0

-----------------------------------------------------------------------------
(* The set of workers.  worker_info has an operator> on timestamps, but    *)
(* std::set uses operator<, which worker_info has through its conversion to *)
(* int: the set is ordered by identity.                                    *)

Expired == {w \in workers : age[w] > EXPIRATION}

\* Mutants: only the element found is erased; nothing is.
PurgedOne     == workers \ {w \in Expired : \A v \in Expired : w <= v}
NothingPurged == workers

\* Everything from the first expired worker, in the set's order, to the end.
Purged == {w \in workers : \A v \in Expired : w < v}

\* The last in the set's order.
Back == Max(workers)

\* Beyond EXPIRATION a timestamp is old, however old it is.
Older(elapsed) == [w \in Workers |-> IF w \notin workers THEN 0
                                     ELSE Min({age[w] + elapsed, EXPIRATION + 1})]

-----------------------------------------------------------------------------
BrokerPurge ==
    /\ bpc = "purge"
    /\ serviced_requests < MAX_REQUESTS
    /\ workers' = Purged
    /\ bpc' = "poll"
    /\ UNCHANGED <<frontend_ready, age, serviced_requests, socketVars>>

\* Mutants: zmq_poll always gets both items; only with two workers or more.
AlwaysPolled    == TRUE
PolledBeyondOne == Cardinality(workers) > 1
FrontendPolled  == workers # {}

\* zmq_poll waits at most one unit of time, and that long if nothing arrives.
PollFor(elapsed) ==
    /\ bpc = "poll"
    /\ LET backend  == \E w \in Workers : notices[w] # << >>
           frontend == FrontendPolled /\ \E c \in Clients : requests[c] # << >>
       IN  /\ backend \/ frontend \/ elapsed = 1
           /\ frontend_ready' = frontend
           /\ bpc' = IF backend THEN "backend" ELSE IF frontend THEN "frontend" ELSE "beat"
    /\ age' = Older(elapsed)
    /\ UNCHANGED <<workers, serviced_requests, socketVars>>

BrokerPoll == \E elapsed \in 0 .. 1 : PollFor(elapsed)

\* Mutant: only a worker that replies is put on the list.
ListedOnReply(w) == IF Head(notices[w]) = Ready THEN workers ELSE workers \cup {w}
Listed(w) == workers \cup {w}

\* The worker gets a fresh timestamp, whatever it sent; a reply is forwarded.
BackendFrom(w) ==
    /\ bpc = "backend"
    /\ notices[w] # << >>
    /\ workers' = Listed(w)
    /\ age' = [age EXCEPT ![w] = 0]
    /\ LET m == Head(notices[w]) IN
         \/ /\ m.client = WORKER_READY
            /\ UNCHANGED <<replies, serviced_requests>>
         \/ /\ m.client # WORKER_READY
            /\ replies' = Delivered(m.client, m.seq)
            /\ serviced_requests' = serviced_requests + 1
    /\ notices' = [notices EXCEPT ![w] = Tail(@)]
    /\ bpc' = IF frontend_ready THEN "frontend" ELSE "beat"
    /\ UNCHANGED <<frontend_ready, outbox, requests, routes, tasks, attached>>

\* Takes the worker off the list, whether or not the request reaches it.
FrontendFrom(c) ==
    /\ bpc = "frontend"
    /\ requests[c] # << >>
    /\ tasks' = SentTo({Back}, [client |-> ClientId(c), seq |-> Head(requests[c])])
    /\ workers' = workers \ {Back}
    /\ requests' = [requests EXCEPT ![c] = Tail(@)]
    /\ bpc' = "beat"
    /\ UNCHANGED <<frontend_ready, age, serviced_requests, outbox, routes, replies,
                   notices, attached>>

BrokerBeat ==
    /\ bpc = "beat"
    /\ tasks' = SentTo(workers, Beat)
    /\ bpc' = "purge"
    /\ UNCHANGED <<frontend_ready, workers, age, serviced_requests, outbox, requests,
                   routes, replies, notices, attached>>

BrokerDone ==
    /\ bpc = "purge"
    /\ serviced_requests >= MAX_REQUESTS
    /\ bpc' = "closed"
    /\ UNCHANGED <<frontend_ready, workers, age, serviced_requests, socketVars>>

\* zmq_poll returned an error.
BrokerInterrupted ==
    /\ bpc = "poll"
    /\ bpc' = "closed"
    /\ UNCHANGED <<frontend_ready, workers, age, serviced_requests, socketVars>>

Broker == \/ BrokerPurge \/ BrokerPoll \/ BrokerBeat \/ BrokerDone
          \/ \E w \in Workers : BackendFrom(w)
          \/ \E c \in Clients : FrontendFrom(c)
=============================================================================
