---------------------------- MODULE ParanoidSockets ----------------------------
(***************************************************************************)
(* What differs on the sockets of the paranoid pirate                      *)
(* (reliable-req-rep/paranoid-pirate-*.cpp): the worker's socket is a      *)
(* DEALER, which sends and receives in any order, the broker sends         *)
(* heartbeats, and a pipe is full at its high-water mark.                  *)
(***************************************************************************)
EXTENDS PirateSockets

CONSTANTS HEARTBEAT,   \* the value 111, in the place of a client identity
          HWM          \* messages a pipe between broker and worker holds

ASSUME HeartbeatAssumption ==
         /\ HEARTBEAT \notin ClientIds \cup {WORKER_READY}
         /\ HWM \in Nat \ {0}

Beat == [client |-> HEARTBEAT, seq |-> 0]

ParanoidSocketsTypeOK ==
    /\ outbox   \in [Clients -> Seq(Nat)]
    /\ requests \in [Clients -> Seq(Nat)]
    /\ routes   \subseteq Clients
    /\ replies  \in [Clients -> Seq(Nat)]
    /\ notices  \in [Workers -> Seq(Task \cup {Ready})]
    /\ tasks    \in [Workers -> Seq(Task \cup {Beat})]
    /\ attached \subseteq Workers
    /\ \A w \in Workers : Len(notices[w]) <= HWM /\ Len(tasks[w]) <= HWM

\* The broker's ROUTER drops what it sends to an unknown identity, or into a
\* full pipe.
Accepted(w) == w \in attached /\ Len(tasks[w]) < HWM

SentTo(ws, m) ==
    [w \in Workers |-> IF w \in ws /\ Accepted(w) THEN Append(tasks[w], m) ELSE tasks[w]]

\* The worker's zmq_send blocks while its pipe is full; what it sends on a
\* connection the broker refused is never read.
Send(w, m) ==
    \/ /\ w \in attached
       /\ Len(notices[w]) < HWM
       /\ notices' = [notices EXCEPT ![w] = Append(@, m)]
    \/ /\ w \notin attached
       /\ UNCHANGED notices

\* A new connection, with READY on it, is accepted unless the broker still has
\* messages of the worker's old one to read.
Connect(w) ==
    \/ /\ notices[w] = << >>
       /\ attached' = attached \cup {w}
       /\ notices'  = [notices EXCEPT ![w] = <<Ready>>]
    \/ /\ notices[w] # << >>
       /\ attached' = attached \ {w}
       /\ UNCHANGED notices

\* Closing the socket discards what it has not read, and the broker's ROUTER
\* forgets the connection.
Disconnect(w) ==
    /\ attached' = attached \ {w}
    /\ tasks' = [tasks EXCEPT ![w] = << >>]
    /\ UNCHANGED <<outbox, requests, routes, replies, notices>>
=============================================================================
