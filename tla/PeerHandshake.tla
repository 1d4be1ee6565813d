----------------------------- MODULE PeerHandshake -----------------------------
(***************************************************************************)
(* How the brokers of peer-brokers/peering.cpp start: each binds its       *)
(* sockets, notifies every peer over a REQ socket of its own, answers the  *)
(* notifications of all peers on its one REP socket, and then reads the    *)
(* peers' answers.  The brokers are started by hand, in any order.         *)
(***************************************************************************)
EXTENDS Integers, FiniteSets

CONSTANT Brokers   \* the names on the command lines

ASSUME BrokersAssumption == IsFiniteSet(Brokers)

VARIABLES phase,   \* broker -> "down", "bound", "collect", "ack" or "running"
          count,   \* broker -> notifications it still waits for
          notice   \* broker -> peer -> its notification: "none", "sent",
                   \* "readable" at the peer, or "answered"

handshakeVars == <<phase, count, notice>>

Peers(b) == Brokers \ {b}

HandshakeTypeOK ==
    /\ phase  \in [Brokers -> {"down", "bound", "collect", "ack", "running"}]
    /\ count  \in [Brokers -> 0 .. Cardinality(Brokers)]
    /\ notice \in [Brokers -> [Brokers -> {"none", "sent", "readable", "answered"}]]

HandshakeInit ==
    /\ phase  = [b \in Brokers |-> "down"]
    /\ count  = [b \in Brokers |-> 0]
    /\ notice = [b \in Brokers |-> [p \in Brokers |-> "none"]]

-----------------------------------------------------------------------------
\* Bind and connect all sockets, start the workers and the clients.
Start(b) ==
    /\ phase[b] = "down"
    /\ phase' = [phase EXCEPT ![b] = "bound"]
    /\ UNCHANGED <<count, notice>>

Expected(b) == Cardinality(Peers(b))

\* A REQ socket sends without waiting for its peer.
Notify(b) ==
    /\ phase[b] = "bound"
    /\ notice' = [notice EXCEPT ![b] = [p \in Brokers |-> IF p = b THEN "none" ELSE "sent"]]
    /\ count' = [count EXCEPT ![b] = Expected(b)]
    /\ phase' = [phase EXCEPT ![b] = "collect"]

\* libzmq connects as soon as the peer has bound its REP socket.
Deliver(b, p) ==
    /\ notice[b][p] = "sent"
    /\ phase[p] # "down"
    /\ notice' = [notice EXCEPT ![b][p] = "readable"]
    /\ UNCHANGED <<phase, count>>

\* Mutant: the answers are not waited for.
AllNotified(b) == \A p \in Peers(b) : notice[b][p] # "none"
AllAnswered(b) == \A p \in Peers(b) : notice[b][p] = "answered"

\* Mutant: the peers' answers are read before their notifications are answered.
AnswersFirst(b) == phase[b] = "collect" /\ AllAnswered(b)
Collecting(b)   == phase[b] = "collect"

\* The REP socket reads a notification and answers it.
Answer(b, p) ==
    /\ Collecting(b)
    /\ count[b] > 0
    /\ notice[p][b] = "readable"
    /\ notice' = [notice EXCEPT ![p][b] = "answered"]
    /\ count' = [count EXCEPT ![b] = @ - 1]
    /\ UNCHANGED phase

Collected(b) ==
    /\ phase[b] = "collect"
    /\ count[b] = 0
    /\ phase' = [phase EXCEPT ![b] = "ack"]
    /\ UNCHANGED <<count, notice>>

\* Every REQ socket's answer is read, in turn; each read waits for its answer.
ReadAnswers(b) ==
    /\ phase[b] = "ack"
    /\ AllAnswered(b)
    /\ phase' = [phase EXCEPT ![b] = "running"]
    /\ UNCHANGED <<count, notice>>

StartUp(b) == \/ Notify(b) \/ Collected(b) \/ ReadAnswers(b)
              \/ \E p \in Peers(b) : Answer(b, p)

Carry(b) == \E p \in Peers(b) : Deliver(b, p)

HandshakeNext == \E b \in Brokers : Start(b) \/ StartUp(b) \/ Carry(b)

\* A broker that was started keeps running and libzmq keeps connecting; nobody
\* has to start a broker.
HandshakeFairness ==
    \A b \in Brokers : WF_handshakeVars(StartUp(b)) /\ WF_handshakeVars(Carry(b))

HandshakeSpec == HandshakeInit /\ [][HandshakeNext]_handshakeVars

-----------------------------------------------------------------------------
\* A broker starts to route only when it has answered every peer and every peer
\* has answered it, although it only counts the notifications and never looks at
\* who sent them (peering.cpp:230-247).
HandshakeIsMutual ==
    \A b \in Brokers : \A p \in Peers(b) :
        phase[b] = "running" => notice[b][p] = "answered" /\ notice[p][b] = "answered"
=============================================================================
