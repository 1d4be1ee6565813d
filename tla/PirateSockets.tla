---------------------------- MODULE PirateSockets ----------------------------
(***************************************************************************)
(* The ZeroMQ sockets between the simple pirate client, broker and worker  *)
(* (reliable-req-rep/simple-pirate-*.cpp), as those programs use them:     *)
(*                                                                         *)
(*   client REQ ---> frontend ROUTER [broker] backend ROUTER ---> REQ worker*)
(*                                                                         *)
(* A ROUTER addresses a peer by the identity its connection announced and  *)
(* silently drops a message for an identity it does not know.  A message a *)
(* connection delivered stays readable after the connection is closed.     *)
(***************************************************************************)
EXTENDS Integers, Sequences, FiniteSets

CONSTANTS Clients,       \* the client identities (argv[1] of each client)
          Workers,       \* the worker identities (1 .. NUM_WORKERS)
          Anonymous,     \* the clients that set no ZMQ_IDENTITY
          Truncated,     \* the four bytes a broker keeps of a generated identity
          WORKER_READY   \* the value 123, in the place of a client identity

ASSUME IdAssumption ==
         /\ Anonymous \subseteq Clients
         /\ Truncated \notin Clients
         /\ WORKER_READY \notin Clients \cup {Truncated}

VARIABLES outbox,    \* client -> sequence numbers not yet sent to the broker
          requests,  \* client -> sequence numbers the frontend can read
          routes,    \* the clients whose current connection the frontend knows
          replies,   \* client -> sequence numbers its current socket can read
          notices,   \* worker -> messages the backend can read
          tasks,     \* worker -> messages the worker can read
          attached   \* the workers whose connection the backend knows

socketVars == <<outbox, requests, routes, replies, notices, tasks, attached>>

\* The identity the broker reads into its int client_id: a generated one is
\* five bytes long, of which zmq_recv stores the first four.
ClientId(c) == IF c \in Anonymous THEN Truncated ELSE c

ClientIds == Clients \cup {Truncated}
Ready     == [client |-> WORKER_READY, seq |-> 0]
Task      == [client : ClientIds, seq : Nat]

SocketsTypeOK ==
    /\ outbox   \in [Clients -> Seq(Nat)]
    /\ requests \in [Clients -> Seq(Nat)]
    /\ routes   \subseteq Clients
    /\ replies  \in [Clients -> Seq(Nat)]
    /\ notices  \in [Workers -> Seq(Task \cup {Ready})]
    /\ tasks    \in [Workers -> Seq(Task)]
    /\ attached \subseteq Workers

SocketsInit ==
    /\ outbox   = [c \in Clients |-> << >>]
    /\ requests = [c \in Clients |-> << >>]
    /\ routes   = {}
    /\ replies  = [c \in Clients |-> << >>]
    /\ notices  = [w \in Workers |-> << >>]
    /\ tasks    = [w \in Workers |-> << >>]
    /\ attached = {}

-----------------------------------------------------------------------------
(* What the client's REQ socket does. *)

\* Sending a request first discards every reply that is waiting.
ReqSend(c, s) ==
    /\ outbox'  = [outbox  EXCEPT ![c] = Append(@, s)]
    /\ replies' = [replies EXCEPT ![c] = << >>]
    /\ UNCHANGED <<requests, routes, notices, tasks, attached>>

ReqReceive(c) ==
    /\ replies' = [replies EXCEPT ![c] = Tail(@)]
    /\ UNCHANGED <<outbox, requests, routes, notices, tasks, attached>>

\* zmq_close with ZMQ_LINGER 0: what was not sent, or not read, is discarded.
\* "unsent" is what a new socket of the client holds afterwards.
ReplaceSocket(c, unsent) ==
    /\ outbox'  = [outbox  EXCEPT ![c] = unsent]
    /\ replies' = [replies EXCEPT ![c] = << >>]
    /\ routes'  = routes \ {c}
    /\ UNCHANGED <<requests, notices, tasks, attached>>

Reopen(c, s)   == ReplaceSocket(c, <<s>>)
CloseSocket(c) == ReplaceSocket(c, << >>)

\* A ROUTER keeps an identity for as long as it has messages of its connection
\* to read, and a second connection cannot take an identity that is kept.
IdentityKept(c) == c \notin routes \cup Anonymous /\ requests[c] # << >>

Transmit(c) ==
    /\ outbox[c] # << >>
    /\ ~IdentityKept(c)
    /\ requests' = [requests EXCEPT ![c] = Append(@, Head(outbox[c]))]
    /\ outbox'   = [outbox EXCEPT ![c] = Tail(@)]
    /\ routes'   = routes \cup {c}
    /\ UNCHANGED <<replies, notices, tasks, attached>>

\* The frontend ignores a connection whose identity is kept: its request is
\* never read.
Refuse(c) ==
    /\ outbox[c] # << >>
    /\ IdentityKept(c)
    /\ outbox' = [outbox EXCEPT ![c] = << >>]
    /\ UNCHANGED <<requests, routes, replies, notices, tasks, attached>>

-----------------------------------------------------------------------------
(* What the broker's two ROUTER sockets do when it sends. *)

\* Mutants: the reply is not forwarded; it is sent to every client.
NotDelivered(id, s)   == replies
DeliveredToAll(id, s) == [c \in Clients |-> Append(replies[c], s)]

\* A reply goes to whatever connection holds the identity now.
Delivered(id, s) ==
    [c \in Clients |-> IF c = id /\ c \in routes THEN Append(replies[c], s)
                                                 ELSE replies[c]]

Dispatched(w, m) ==
    [v \in Workers |-> IF v = w /\ v \in attached THEN Append(tasks[v], m)
                                                  ELSE tasks[v]]

-----------------------------------------------------------------------------
(* What the worker's REQ socket does. *)

WorkerSend(w, m) ==
    /\ notices' = [notices EXCEPT ![w] = Append(@, m)]
    /\ tasks'   = [tasks   EXCEPT ![w] = << >>]
    /\ UNCHANGED <<outbox, requests, routes, replies>>
=============================================================================
