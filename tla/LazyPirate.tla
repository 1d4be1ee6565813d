------------------------------ MODULE LazyPirate ------------------------------
(***************************************************************************)
(* reliable-req-rep/lazy-pirate.cpp: clients and one server, without a     *)
(* broker.  The server's REP socket answers on the connection a request    *)
(* came from, so what is sent over a connection the client has closed      *)
(* reaches nobody.  The processes are started by hand: the server may be   *)
(* late, and may be started again after a crash.                           *)
(***************************************************************************)
EXTENDS Integers, Sequences

CONSTANTS Clients,
          MAX_RETRIES,   \* times a request is sent before the client gives up
          MaxSeq         \* model bound: requests a client goes through

ASSUME RetriesAssumption == MAX_RETRIES \in Nat \ {0}
ASSUME BoundAssumption   == MaxSeq \in Nat

VARIABLES cpc,         \* client -> "send", "poll" (waits in zmq_poll) or "exited"
          sequence,    \* client -> number of the request at hand
          retries,     \* client -> attempts left for it
          conn,        \* client -> number of its current connection
          outbox,      \* client -> sequence numbers not yet sent to the server
          requests,    \* client -> messages the server can read
          replies,     \* client -> sequence numbers its current socket can read
          spc,         \* the server: "down", "recv" or "busy"
          job,         \* the message a busy server holds
          handled      \* history: the requests the server has replied to

clientVars  == <<cpc, sequence, retries>>
socketVars  == <<conn, outbox, requests, replies>>
serverVars  == <<spc, job, handled>>
vars == <<clientVars, socketVars, serverVars>>

Message == [client : Clients, conn : Nat, seq : Nat]

TypeOK ==
    /\ cpc      \in [Clients -> {"send", "poll", "exited"}]
    /\ sequence \in [Clients -> Nat]
    /\ retries  \in [Clients -> 0 .. MAX_RETRIES]
    /\ conn     \in [Clients -> Nat]
    /\ outbox   \in [Clients -> Seq(Nat)]
    /\ requests \in [Clients -> Seq(Message)]
    /\ replies  \in [Clients -> Seq(Nat)]
    /\ spc \in {"down", "recv", "busy"}
    /\ spc = "busy" => job \in Message
    /\ handled \subseteq [client : Clients, seq : Nat]

NoJob == << >>

Init ==
    /\ cpc      = [c \in Clients |-> "send"]
    /\ sequence = [c \in Clients |-> 0]
    /\ retries  = [c \in Clients |-> MAX_RETRIES]
    /\ conn     = [c \in Clients |-> 0]
    /\ outbox   = [c \in Clients |-> << >>]
    /\ requests = [c \in Clients |-> << >>]
    /\ replies  = [c \in Clients |-> << >>]
    /\ spc = "down"
    /\ job = NoJob
    /\ handled = {}

-----------------------------------------------------------------------------
\* A REQ socket discards the replies that wait before it sends.
ClientSend(c) ==
    /\ cpc[c] = "send"
    /\ retries[c] > 0
    /\ sequence[c] < MaxSeq
    /\ outbox'  = [outbox  EXCEPT ![c] = Append(@, sequence[c])]
    /\ replies' = [replies EXCEPT ![c] = << >>]
    /\ cpc' = [cpc EXCEPT ![c] = "poll"]
    /\ UNCHANGED <<sequence, retries, conn, requests, serverVars>>

\* The reply is taken whatever its sequence number is.
ClientReceive(c) ==
    /\ cpc[c] = "poll"
    /\ replies[c] # << >>
    /\ replies'  = [replies EXCEPT ![c] = Tail(@)]
    /\ sequence' = [sequence EXCEPT ![c] = @ + 1]
    /\ retries'  = [retries EXCEPT ![c] = MAX_RETRIES]
    /\ cpc'      = [cpc EXCEPT ![c] = "send"]
    /\ UNCHANGED <<conn, outbox, requests, serverVars>>

AttemptsLeft(c) == retries[c] - 1

LastAttempt(c) == AttemptsLeft(c) = 0

\* Mutant: the request is sent again on the socket the client has.
SameSocket(c, unsent) ==
    /\ outbox' = [outbox EXCEPT ![c] = @ \o unsent]
    /\ UNCHANGED conn

\* zmq_close with LINGER 0 discards what the old socket holds.
ReplaceSocket(c, unsent) ==
    /\ outbox' = [outbox EXCEPT ![c] = unsent]
    /\ conn'   = [conn EXCEPT ![c] = @ + 1]

\* zmq_poll timed out: the request is sent again over a new socket, unless this
\* was the last attempt.
ClientTimeout(c) ==
    /\ cpc[c] = "poll"
    /\ replies[c] = << >>
    /\ retries' = [retries EXCEPT ![c] = AttemptsLeft(c)]
    /\ \/ /\ ~LastAttempt(c)
          /\ ReplaceSocket(c, <<sequence[c]>>)
          /\ UNCHANGED cpc
       \/ /\ LastAttempt(c)
          /\ ReplaceSocket(c, << >>)
          /\ cpc' = [cpc EXCEPT ![c] = "exited"]
    /\ UNCHANGED <<sequence, requests, replies, serverVars>>

Client(c) == ClientSend(c) \/ ClientReceive(c) \/ ClientTimeout(c)

-----------------------------------------------------------------------------
\* libzmq connects to the server once it is up and delivers the request.
Transmit(c) ==
    /\ spc # "down"
    /\ outbox[c] # << >>
    /\ requests' = [requests EXCEPT ![c] =
                       Append(@, [client |-> c, conn |-> conn[c], seq |-> Head(outbox[c])])]
    /\ outbox' = [outbox EXCEPT ![c] = Tail(@)]
    /\ UNCHANGED <<clientVars, conn, replies, serverVars>>

ServerStart ==
    /\ spc = "down"
    /\ spc' = "recv"
    /\ UNCHANGED <<clientVars, socketVars, job, handled>>

ServerReceive(c) ==
    /\ spc = "recv"
    /\ requests[c] # << >>
    /\ job' = Head(requests[c])
    /\ requests' = [requests EXCEPT ![c] = Tail(@)]
    /\ spc' = "busy"
    /\ UNCHANGED <<clientVars, conn, outbox, replies, handled>>

\* Mutant: the server answers only a client that is still there.
ReplyIfConnected == spc = "busy" /\ conn[job.client] = job.conn
ReplyDue == spc = "busy"

\* REP drops the reply when the connection the request came from is gone.
ServerReply ==
    /\ ReplyDue
    /\ replies' = [c \in Clients |->
                      IF c = job.client /\ conn[c] = job.conn
                      THEN Append(replies[c], job.seq) ELSE replies[c]]
    /\ handled' = handled \cup {[client |-> job.client, seq |-> job.seq]}
    /\ spc' = "recv"
    /\ job' = NoJob
    /\ UNCHANGED <<clientVars, conn, outbox, requests>>

\* The simulated crash comes after the request is read and before the reply; what
\* the REP socket had received is gone.
ServerCrash ==
    /\ spc = "busy"
    /\ spc' = "down"
    /\ job' = NoJob
    /\ requests' = [c \in Clients |-> << >>]
    /\ UNCHANGED <<clientVars, conn, outbox, replies, handled>>

-----------------------------------------------------------------------------
Next == \/ \E c \in Clients : Client(c) \/ Transmit(c) \/ ServerReceive(c)
        \/ ServerStart \/ ServerReply \/ ServerCrash

\* The client's loop, its timer and the I/O threads make progress; the server
\* reads its connections in turn.  Nothing forces a crash or a restart.
Fairness ==
    /\ \A c \in Clients : /\ WF_vars(Client(c))
                          /\ WF_vars(Transmit(c))
                          /\ SF_vars(ServerReceive(c))
    /\ WF_vars(ServerReply)

Spec     == Init /\ [][Next]_vars
FairSpec == Spec /\ Fairness

-----------------------------------------------------------------------------
\* Although the client takes any reply (lines 104-117), it only ever gets the
\* reply to the request at hand: a reply to an earlier attempt or request is
\* addressed to a connection that no longer exists.
AnswersMatch == TypeOK /\
    \A c \in Clients : cpc[c] = "poll" /\ replies[c] # << >> =>
        /\ replies[c] = <<sequence[c]>>
        /\ [client |-> c, seq |-> sequence[c]] \in handled

\* A client never has two requests on a connection, so what waits at the server
\* is at most one request per attempt.
OneRequestPerConnection ==
    \A c \in Clients :
        /\ Len(outbox[c]) <= 1
        /\ \A i, j \in 1 .. Len(requests[c]) :
             requests[c][i].conn = requests[c][j].conn => i = j

\* What a busy server does always ends, and it reads on after a reply: a
\* request it could read is read, or the server goes down.
RequestsAreRead ==
    \A c \in Clients :
        requests[c] # << >> ~> requests[c] = << >> \/ spc = "down"

Promise == INSTANCE AtLeastOnce WITH
              phase   <- [c \in Clients |-> CASE cpc[c] = "send" -> "idle"
                                              [] cpc[c] = "poll" -> "waiting"
                                              [] OTHER           -> "stopped"],
              current <- sequence

\* A client's requests are answered in order, each only after the server handled
\* that very request.
ImplementsAtLeastOnce == Promise!Spec
=============================================================================
