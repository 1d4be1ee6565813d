----------------------------- MODULE PirateClient -----------------------------
(***************************************************************************)
(* Client of reliable-req-rep/simple-pirate-client.cpp: send a request,    *)
(* poll for its reply, and on a timeout close the socket and send the same *)
(* request over a new one, MAX_RETRIES times in all.                       *)
(***************************************************************************)
EXTENDS PirateSockets

CONSTANTS MAX_RETRIES,   \* times a request is sent before the client gives up
          MaxSeq         \* model bound: requests a client goes through

ASSUME ClientAssumption == MAX_RETRIES \in Nat \ {0} /\ MaxSeq \in Nat

VARIABLES cpc,        \* client -> "send", "poll" (waits in zmq_poll) or "exited"
          sequence,   \* client -> number of the request at hand
          retries     \* client -> attempts left for it

clientVars == <<cpc, sequence, retries>>

ClientTypeOK ==
    /\ cpc      \in [Clients -> {"send", "poll", "exited"}]
    /\ sequence \in [Clients -> Nat]
    /\ retries  \in [Clients -> 0 .. MAX_RETRIES]

ClientInit ==
    /\ cpc      = [c \in Clients |-> "send"]
    /\ sequence = [c \in Clients |-> 0]
    /\ retries  = [c \in Clients |-> MAX_RETRIES]

\* The outer loop: a request is put on the socket the client has.
ClientSend(c) ==
    /\ cpc[c] = "send"
    /\ retries[c] > 0
    /\ sequence[c] < MaxSeq
    /\ ReqSend(c, sequence[c])
    /\ cpc' = [cpc EXCEPT ![c] = "poll"]
    /\ UNCHANGED <<sequence, retries>>

\* Mutant: the next request reuses the sequence number.
ReceiveNoAdvance(c) ==
    /\ cpc[c] = "poll"
    /\ replies[c] # << >>
    /\ ReqReceive(c)
    /\ retries' = [retries EXCEPT ![c] = MAX_RETRIES]
    /\ cpc'     = [cpc EXCEPT ![c] = "send"]
    /\ UNCHANGED sequence

\* A reply that carries another sequence number is reported, then treated like
\* the right one.
ClientReceive(c) ==
    /\ cpc[c] = "poll"
    /\ replies[c] # << >>
    /\ ReqReceive(c)
    /\ sequence' = [sequence EXCEPT ![c] = @ + 1]
    /\ retries'  = [retries EXCEPT ![c] = MAX_RETRIES]
    /\ cpc'      = [cpc EXCEPT ![c] = "send"]

\* Mutant: a timeout uses up no attempt.
AttemptsKept(c) == retries[c]
AttemptsLeft(c) == retries[c] - 1

\* Mutant: the client does not notice that no attempt is left.
NeverLast(c) == FALSE
LastAttempt(c) == AttemptsLeft(c) = 0

\* zmq_poll returned after REQUEST_TIMEOUT with nothing to read.
ClientTimeout(c) ==
    /\ cpc[c] = "poll"
    /\ replies[c] = << >>
    /\ retries' = [retries EXCEPT ![c] = AttemptsLeft(c)]
    /\ \/ /\ ~LastAttempt(c)
          /\ Reopen(c, sequence[c])
          /\ UNCHANGED cpc
       \/ /\ LastAttempt(c)
          /\ CloseSocket(c)
          /\ cpc' = [cpc EXCEPT ![c] = "exited"]
    /\ UNCHANGED sequence

Client(c) == ClientSend(c) \/ ClientReceive(c) \/ ClientTimeout(c)
=============================================================================
