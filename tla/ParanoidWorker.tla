---------------------------- MODULE ParanoidWorker ----------------------------
(***************************************************************************)
(* Worker of reliable-req-rep/paranoid-pirate-worker.cpp: a DEALER socket  *)
(* that says READY whenever a poll times out, is replaced by a new one     *)
(* after MAX_LIVENESS timeouts in a row, and is given up after             *)
(* WORKER_RETRIES times that.                                              *)
(***************************************************************************)
EXTENDS ParanoidSockets

CONSTANTS MAX_LIVENESS,    \* poll timeouts in a row before reconnecting
          WORKER_RETRIES   \* MAX_RETRIES of the worker

ASSUME LivenessAssumption == MAX_LIVENESS \in Nat \ {0} /\ WORKER_RETRIES \in Nat \ {0}

VARIABLES wpc,           \* worker -> "start", "poll", "busy", "sleep", "exited" or "crashed"
          job,           \* worker -> the request it holds
          server_alive,  \* worker -> timeouts left before it reconnects
          wretries       \* worker -> reconnections left (retries in the code)

workerVars == <<wpc, job, server_alive, wretries>>

NoJob == [client |-> Truncated, seq |-> 0]

WorkerTypeOK ==
    /\ wpc \in [Workers -> {"start", "poll", "busy", "sleep", "exited", "crashed"}]
    /\ job \in [Workers -> Task]
    /\ server_alive \in [Workers -> 0 .. MAX_LIVENESS]
    /\ wretries \in [Workers -> 0 .. WORKER_RETRIES]

WorkerInit ==
    /\ wpc = [w \in Workers |-> "start"]
    /\ job = [w \in Workers |-> NoJob]
    /\ server_alive = [w \in Workers |-> MAX_LIVENESS]
    /\ wretries = [w \in Workers |-> WORKER_RETRIES]

WorkerStart(w) ==
    /\ wpc[w] = "start"
    /\ Connect(w)
    /\ wpc' = [wpc EXCEPT ![w] = "poll"]
    /\ UNCHANGED <<job, server_alive, wretries, outbox, requests, routes, replies, tasks>>

\* Anything from the broker shows that it is alive; a heartbeat has no other
\* effect.
WorkerReceive(w) ==
    /\ wpc[w] = "poll"
    /\ tasks[w] # << >>
    /\ server_alive' = [server_alive EXCEPT ![w] = MAX_LIVENESS]
    /\ wretries' = [wretries EXCEPT ![w] = WORKER_RETRIES]
    /\ LET m == Head(tasks[w]) IN
         \/ m.client = HEARTBEAT /\ UNCHANGED <<wpc, job>>
         \/ /\ m.client # HEARTBEAT
            /\ wpc' = [wpc EXCEPT ![w] = "busy"]
            /\ job' = [job EXCEPT ![w] = m]
    /\ tasks' = [tasks EXCEPT ![w] = Tail(@)]
    /\ UNCHANGED <<outbox, requests, routes, replies, notices, attached>>

WorkerReply(w) ==
    /\ wpc[w] = "busy"
    /\ Send(w, job[w])
    /\ wpc' = [wpc EXCEPT ![w] = "poll"]
    /\ job' = [job EXCEPT ![w] = NoJob]
    /\ UNCHANGED <<server_alive, wretries, outbox, requests, routes, replies, tasks, attached>>

\* Mutant: the thread ends without closing its socket.
WorkerCrashOpen(w) ==
    /\ wpc[w] = "busy"
    /\ wpc' = [wpc EXCEPT ![w] = "crashed"]
    /\ job' = [job EXCEPT ![w] = NoJob]
    /\ UNCHANGED <<server_alive, wretries, socketVars>>

\* The simulated crash, between reading a request and replying.
WorkerCrash(w) ==
    /\ wpc[w] = "busy"
    /\ Disconnect(w)
    /\ wpc' = [wpc EXCEPT ![w] = "crashed"]
    /\ job' = [job EXCEPT ![w] = NoJob]
    /\ UNCHANGED <<server_alive, wretries>>

\* The poll timed out, but not for the last time: say READY.
WorkerTimeout(w) ==
    /\ wpc[w] = "poll"
    /\ tasks[w] = << >>
    /\ server_alive[w] > 1
    /\ server_alive' = [server_alive EXCEPT ![w] = @ - 1]
    /\ Send(w, Ready)
    /\ UNCHANGED <<wpc, job, wretries, outbox, requests, routes, replies, tasks,
                   attached>>

LastRetry(w) == wretries[w] = 1

\* It timed out for the last time: wait before reconnecting, or give up.
WorkerGiveUp(w) ==
    /\ wpc[w] = "poll"
    /\ tasks[w] = << >>
    /\ server_alive[w] = 1
    /\ server_alive' = [server_alive EXCEPT ![w] = 0]
    /\ wretries' = [wretries EXCEPT ![w] = @ - 1]
    /\ \/ /\ ~LastRetry(w)
          /\ wpc' = [wpc EXCEPT ![w] = "sleep"]
          /\ UNCHANGED socketVars
       \/ /\ LastRetry(w)
          /\ wpc' = [wpc EXCEPT ![w] = "exited"]
          /\ Disconnect(w)
    /\ UNCHANGED job

\* zmq_poll returned an error.
WorkerInterrupted(w) ==
    /\ wpc[w] = "poll"
    /\ Disconnect(w)
    /\ wpc' = [wpc EXCEPT ![w] = "exited"]
    /\ UNCHANGED <<job, server_alive, wretries>>

\* Mutant: the counter of timeouts is not set back.
WorkerReconnectTired(w) ==
    /\ wpc[w] = "sleep"
    /\ Connect(w)
    /\ tasks' = [tasks EXCEPT ![w] = << >>]
    /\ wpc' = [wpc EXCEPT ![w] = "poll"]
    /\ UNCHANGED <<job, server_alive, wretries, outbox, requests, routes, replies>>

\* What arrived during the sleep is discarded with the old socket.
WorkerReconnect(w) ==
    /\ wpc[w] = "sleep"
    /\ Connect(w)
    /\ tasks' = [tasks EXCEPT ![w] = << >>]
    /\ server_alive' = [server_alive EXCEPT ![w] = MAX_LIVENESS]
    /\ wpc' = [wpc EXCEPT ![w] = "poll"]
    /\ UNCHANGED <<job, wretries, outbox, requests, routes, replies>>

Worker(w) == \/ WorkerStart(w) \/ WorkerReceive(w) \/ WorkerReply(w)
             \/ WorkerTimeout(w) \/ WorkerGiveUp(w) \/ WorkerReconnect(w)
=============================================================================
