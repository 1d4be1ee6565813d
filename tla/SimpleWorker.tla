----------------------------- MODULE SimpleWorker -----------------------------
(***************************************************************************)
(* Worker of reliable-req-rep/simple-pirate-worker.cpp: announce itself,   *)
(* then receive a request, work on it (the simulated overload is any delay)*)
(* and reply, or crash.                                                    *)
(***************************************************************************)
EXTENDS PirateSockets

VARIABLES wpc,      \* worker -> "start", "recv", "busy" or "crashed"
          job,      \* worker -> the request it holds
          handled   \* history: the requests some worker has replied to

workerVars == <<wpc, job, handled>>

NoJob == [client |-> Truncated, seq |-> 0]

WorkerTypeOK ==
    /\ wpc \in [Workers -> {"start", "recv", "busy", "crashed"}]
    /\ job \in [Workers -> Task]
    /\ handled \subseteq Task

WorkerInit ==
    /\ wpc = [w \in Workers |-> "start"]
    /\ job = [w \in Workers |-> NoJob]
    /\ handled = {}

WorkerStart(w) ==
    /\ wpc[w] = "start"
    /\ attached' = attached \cup {w}
    /\ WorkerSend(w, Ready)
    /\ wpc' = [wpc EXCEPT ![w] = "recv"]
    /\ UNCHANGED <<job, handled>>

WorkerReceive(w) ==
    /\ wpc[w] = "recv"
    /\ tasks[w] # << >>
    /\ job'   = [job EXCEPT ![w] = Head(tasks[w])]
    /\ tasks' = [tasks EXCEPT ![w] = Tail(@)]
    /\ wpc'   = [wpc EXCEPT ![w] = "busy"]
    /\ UNCHANGED <<handled, outbox, requests, routes, replies, notices, attached>>

WorkerReply(w) ==
    /\ wpc[w] = "busy"
    /\ WorkerSend(w, job[w])
    /\ handled' = handled \cup {job[w]}
    /\ wpc' = [wpc EXCEPT ![w] = "recv"]
    /\ job' = [job EXCEPT ![w] = NoJob]
    /\ UNCHANGED attached

\* The simulated crash comes after the request is read and before the reply.
WorkerCrash(w) ==
    /\ wpc[w] = "busy"
    /\ wpc' = [wpc EXCEPT ![w] = "crashed"]
    /\ job' = [job EXCEPT ![w] = NoJob]
    /\ attached' = attached \ {w}
    /\ tasks' = [tasks EXCEPT ![w] = << >>]
    /\ UNCHANGED <<handled, outbox, requests, routes, replies, notices>>

Worker(w) == WorkerStart(w) \/ WorkerReceive(w) \/ WorkerReply(w)
=============================================================================
