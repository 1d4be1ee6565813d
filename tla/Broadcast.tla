------------------------------- MODULE Broadcast -------------------------------
(***************************************************************************)
(* bcast/ipcbcast.cpp: N threads that each bind a PUSH socket to the first *)
(* port they find free, connect a PULL socket to every other port, push    *)
(* their id N - 1 times and read once from each PULL socket in turn.       *)
(***************************************************************************)
EXTENDS Integers, Sequences

CONSTANT N   \* the number of threads, and of ports

ASSUME BroadcastAssumption == N \in Nat \ {0, 1}

Threads == 0 .. N - 1
Ports   == 1 .. N        \* ID_BASE + 0 .. N - 1
Nobody  == -1
Other   == -2            \* another program

VARIABLES owner,   \* port -> the thread bound to it, Nobody or Other
          pc,      \* thread -> "bind", "send", "recv", "done" or "failed"
          s,       \* thread -> the port it tries to bind, then the one it has
          links,   \* thread -> the threads connected to its PUSH socket, in order
          turn,    \* thread -> whose turn it is among them
          sent,    \* thread -> messages it has sent
          pipe,    \* thread -> thread -> messages of the one the other can read
          heard,   \* thread -> messages it has read
          early    \* history: the threads that sent to less than N - 1 others

socketVars == <<links, turn, pipe>>
broadcastVars == <<owner, pc, s, socketVars, sent, heard, early>>

BroadcastTypeOK ==
    /\ owner \in [Ports -> Threads \cup {Nobody, Other}]
    /\ pc    \in [Threads -> {"bind", "send", "recv", "done", "failed"}]
    /\ s     \in [Threads -> 1 .. N + 1]
    /\ links \in [Threads -> Seq(Threads)]
    /\ \A t \in Threads : turn[t] \in 1 .. Len(links[t]) \/ turn[t] = 1
    /\ sent  \in [Threads -> 0 .. N - 1] /\ heard \in [Threads -> 0 .. N - 1]
    /\ pipe  \in [Threads -> [Threads -> 0 .. N - 1]]
    /\ early \subseteq Threads

Foreign == {p \in Ports : owner[p] = Other}

\* One of the ports may be in use already.
BroadcastInit ==
    /\ owner \in {[p \in Ports |-> IF p = q THEN Other ELSE Nobody] : q \in Ports \cup {Nobody}}
    /\ pc = [t \in Threads |-> "bind"]
    /\ s = [t \in Threads |-> 1]
    /\ links = [t \in Threads |-> << >>]
    /\ turn = [t \in Threads |-> 1]
    /\ sent = [t \in Threads |-> 0]
    /\ pipe = [t \in Threads |-> [u \in Threads |-> 0]]
    /\ heard = [t \in Threads |-> 0]
    /\ early = {}

-----------------------------------------------------------------------------
\* Mutant: the last port is never tried.
LastPort(t) == N - 1
\* BindURI gives up after N ports.
Tries(t) == N

\* zmq_bind succeeds on a free port; then every PULL socket is connected, which
\* does not wait for anybody.
Bind(t) ==
    /\ pc[t] = "bind"
    /\ s[t] <= Tries(t)
    /\ \/ /\ owner[s[t]] = Nobody
          /\ owner' = [owner EXCEPT ![s[t]] = t]
          /\ pc' = [pc EXCEPT ![t] = "send"]
          /\ UNCHANGED s
       \/ /\ owner[s[t]] # Nobody
          /\ s' = [s EXCEPT ![t] = @ + 1]
          /\ UNCHANGED <<owner, pc>>
    /\ UNCHANGED <<socketVars, sent, heard, early>>

\* runtime_error("Cannot bind"), kept in the thread's future.
Fail(t) ==
    /\ pc[t] = "bind"
    /\ s[t] > Tries(t)
    /\ pc' = [pc EXCEPT ![t] = "failed"]
    /\ UNCHANGED <<owner, s, socketVars, sent, heard, early>>

\* libzmq connects t's PULL socket for u's port, once u is bound to it.
Link(t, u) ==
    /\ t # u
    /\ pc[t] \in {"send", "recv", "done"} /\ pc[u] \in {"send", "recv", "done"}
    /\ \A k \in 1 .. Len(links[u]) : links[u][k] # t
    /\ links' = [links EXCEPT ![u] = Append(@, t)]
    /\ UNCHANGED <<owner, pc, s, turn, sent, pipe, heard, early>>

\* Mutant: the same reader until somebody else connects.
SameReader(t) == turn[t]
\* A PUSH socket deals its messages out in turn.
NextReader(t) == (turn[t] % Len(links[t])) + 1

\* zmq_send waits while nobody is connected.
Send(t) ==
    /\ pc[t] = "send"
    /\ sent[t] < N - 1
    /\ links[t] # << >>
    /\ pipe' = [pipe EXCEPT ![t][links[t][turn[t]]] = @ + 1]
    /\ turn' = [turn EXCEPT ![t] = NextReader(t)]
    /\ sent' = [sent EXCEPT ![t] = @ + 1]
    /\ early' = IF Len(links[t]) < N - 1 THEN early \cup {t} ELSE early
    /\ UNCHANGED <<owner, pc, s, links, heard>>

Sent(t) ==
    /\ pc[t] = "send"
    /\ sent[t] = N - 1
    /\ pc' = [pc EXCEPT ![t] = "recv"]
    /\ UNCHANGED <<owner, s, socketVars, sent, heard, early>>

\* pull[i]: the PULL sockets are in the order of their ports, without t's own.
NextPort(t) == IF heard[t] + 1 < s[t] THEN heard[t] + 1 ELSE heard[t] + 2

\* Mutant: the loop ends one socket early.
AllButOne(t) == heard[t] = N - 2
AllHeard(t) == heard[t] = N - 1

\* zmq_recv waits for a message of this peer, whatever the others have sent.
ReceiveNext(t) ==
    /\ pc[t] = "recv"
    /\ ~AllHeard(t)
    /\ LET u == owner[NextPort(t)] IN
          /\ u \in Threads
          /\ pipe[u][t] > 0
          /\ pipe' = [pipe EXCEPT ![u][t] = @ - 1]
    /\ heard' = [heard EXCEPT ![t] = @ + 1]
    /\ UNCHANGED <<owner, pc, s, links, turn, sent, early>>

\* The thread returns without closing its sockets: its messages stay readable.
Finish(t) ==
    /\ pc[t] = "recv"
    /\ AllHeard(t)
    /\ pc' = [pc EXCEPT ![t] = "done"]
    /\ UNCHANGED <<owner, s, socketVars, sent, heard, early>>

Thread(t) == Bind(t) \/ Fail(t) \/ Send(t) \/ Sent(t) \/ ReceiveNext(t) \/ Finish(t)

BroadcastNext == \E t \in Threads : Thread(t) \/ \E u \in Threads : Link(t, u)

\* The threads run and libzmq connects.
BroadcastFairness ==
    /\ \A t \in Threads : WF_broadcastVars(Thread(t))
    /\ \A t, u \in Threads : WF_broadcastVars(Link(t, u))

BroadcastSpec == BroadcastInit /\ [][BroadcastNext]_broadcastVars /\ BroadcastFairness

-----------------------------------------------------------------------------
AllDone == \A t \in Threads : pc[t] = "done"

\* Unless another program has one of the ports, the race for them leaves a port
\* for everybody, although each thread looks at each port only once
\* (ipcbcast.cpp:28-32); and the types hold.
EveryoneBinds == BroadcastTypeOK /\ (Foreign = {} => \A t \in Threads : pc[t] # "failed")

\* A program that comes to its end was a broadcast: each thread's messages, which
\* PUSH deals out without any address, went one to each of the others
\* (ipcbcast.cpp:57-64).  If one thread got two of them the program hangs.
BroadcastWhenDone == AllDone => \A t, u \in Threads : pipe[t][u] = 0

\* If all are connected before they send, the fixed order of the blocking reads
\* lets everybody finish.
FinishesIfConnected == <>(AllDone \/ early # {} \/ Foreign # {})
=============================================================================
