------------------------------ MODULE AsyncServer ------------------------------
(***************************************************************************)
(* router-dealer/asyncsrv.cpp: clients that send a request every second    *)
(* without waiting for replies, a proxy that deals the requests out to     *)
(* workers in turn, and workers that answer each request several times.    *)
(* All are threads of one process, whose main thread waits for none.       *)
(***************************************************************************)
EXTENDS Integers, Sequences, FiniteSets

CONSTANTS Clients, Workers,
          MAX_REPLIES,   \* most replies to a request (5)
          MaxRequests    \* model bound: requests of all clients

ASSUME AsyncAssumption == MAX_REPLIES \in Nat \ {0} /\ MaxRequests \in Nat

VARIABLES sent,       \* client -> requests it has sent
          got,        \* client -> number -> replies to that request it has read
          inbox,      \* client -> replies it can read
          frontend,   \* client -> requests the proxy can read
          pool,       \* the workers connected to the backend
          turn,       \* whose turn it is among them
          tasks,      \* worker -> requests it can read
          job,        \* worker -> what its id and buffer hold: the last request it read
          left,       \* worker -> replies it has yet to send
          backend,    \* worker -> replies the proxy can read
          running     \* FALSE once main has returned

clientVars == <<sent, got, inbox>>
proxyVars  == <<frontend, pool, turn, tasks, backend>>
jobVars    == <<job, left>>
asyncVars == <<clientVars, proxyVars, jobVars, running>>

\* How many members of T are in a queue, in each worker's queue; and the total of
\* what each one has.
Occurs(seq, T) == Cardinality({k \in 1 .. Len(seq) : seq[k] \in T})
EachOf(queues, T) == [w \in Workers |-> Occurs(queues[w], T)]
Total(f) == Cardinality(UNION {{x} \X (1 .. f[x]) : x \in DOMAIN f})

Number  == 1 .. MaxRequests
Request == [from : Clients, num : Number]
Reply   == [to : Clients, num : Number, by : Workers]
NoJob   == [from |-> {}, num |-> 0]

AsyncTypeOK ==
    /\ sent \in [Clients -> 0 .. MaxRequests]
    /\ got \in [Clients -> [Number -> 0 .. MAX_REPLIES]]
    /\ inbox \in [Clients -> Seq(Reply)]
    /\ frontend \in [Clients -> Seq(Number)]
    /\ pool \in Seq(Workers) /\ turn \in Nat \ {0}
    /\ tasks \in [Workers -> Seq(Request)]
    /\ \A w \in Workers : job[w] \in Request \/ job[w] = NoJob
    /\ left \in [Workers -> 0 .. MAX_REPLIES]
    /\ backend \in [Workers -> Seq(Reply)]
    /\ running \in BOOLEAN

AsyncInit ==
    /\ sent = [c \in Clients |-> 0]
    /\ got = [c \in Clients |-> [n \in Number |-> 0]]
    /\ inbox = [c \in Clients |-> << >>]
    /\ frontend = [c \in Clients |-> << >>]
    /\ pool = << >> /\ turn = 1
    /\ tasks = [w \in Workers |-> << >>]
    /\ job = [w \in Workers |-> NoJob] /\ left = [w \in Workers |-> 0]
    /\ backend = [w \in Workers |-> << >>]
    /\ running = TRUE

-----------------------------------------------------------------------------
\* A hundred polls have passed, whatever they found.
ClientSend(c) ==
    /\ Total(sent) < MaxRequests
    /\ frontend' = [frontend EXCEPT ![c] = Append(@, sent[c] + 1)]
    /\ sent' = [sent EXCEPT ![c] = @ + 1]
    /\ UNCHANGED <<got, inbox, pool, turn, tasks, backend, jobVars>>

ClientReceive(c) ==
    /\ inbox[c] # << >>
    /\ got' = [got EXCEPT ![c][Head(inbox[c]).num] = @ + 1]
    /\ inbox' = [inbox EXCEPT ![c] = Tail(@)]
    /\ UNCHANGED <<sent, proxyVars, jobVars>>

-----------------------------------------------------------------------------
(* zmq_proxy between the ROUTER frontend and the DEALER backend.             *)

NextTurn == (turn % Len(pool)) + 1

\* Mutant: the newest request is put before those that wait.
Overtaking(q, r) == <<r>> \o q
Queued(q, r) == Append(q, r)

\* A DEALER deals to the workers in turn, busy or not.
ForwardRequest(c) ==
    /\ frontend[c] # << >>
    /\ pool # << >>
    /\ tasks' = [tasks EXCEPT ![pool[turn]] = Queued(@, [from |-> c, num |-> Head(frontend[c])])]
    /\ frontend' = [frontend EXCEPT ![c] = Tail(@)]
    /\ turn' = NextTurn
    /\ UNCHANGED <<clientVars, pool, backend, jobVars>>

\* The ROUTER takes the client's identity off the reply.
ForwardReply(w) ==
    /\ backend[w] # << >>
    /\ LET r == Head(backend[w]) IN inbox' = [inbox EXCEPT ![r.to] = Append(@, r)]
    /\ backend' = [backend EXCEPT ![w] = Tail(@)]
    /\ UNCHANGED <<sent, got, frontend, pool, turn, tasks, jobVars>>

-----------------------------------------------------------------------------
WorkerConnect(w) ==
    /\ \A k \in 1 .. Len(pool) : pool[k] # w
    /\ pool' = Append(pool, w)
    /\ UNCHANGED <<clientVars, frontend, turn, tasks, backend, jobVars>>

\* Mutant: no reply may be drawn.
FromZero == 0 .. MAX_REPLIES
\* dist(1, 5)
Draws == 1 .. MAX_REPLIES

WorkerReceive(w) ==
    /\ left[w] = 0
    /\ tasks[w] # << >>
    /\ job' = [job EXCEPT ![w] = Head(tasks[w])]
    /\ \E k \in Draws : left' = [left EXCEPT ![w] = k]
    /\ tasks' = [tasks EXCEPT ![w] = Tail(@)]
    /\ UNCHANGED <<clientVars, frontend, pool, turn, backend>>

\* One round of the loop: sleep, then a reply with the identity of the request.
WorkerReply(w) ==
    /\ left[w] > 0
    /\ backend' = [backend EXCEPT ![w] =
                      Append(@, [to |-> job[w].from, num |-> job[w].num, by |-> w])]
    /\ left' = [left EXCEPT ![w] = @ - 1]
    /\ UNCHANGED <<clientVars, frontend, pool, turn, tasks, job>>

-----------------------------------------------------------------------------
\* main returns, and the process ends at whatever point its threads are.
MainReturns ==
    /\ running
    /\ running' = FALSE
    /\ UNCHANGED <<clientVars, proxyVars, jobVars>>

Running(A) == running /\ A /\ UNCHANGED running

Worker(w)       == Running(WorkerConnect(w) \/ WorkerReceive(w) \/ WorkerReply(w))
Requests        == Running(\E c \in Clients : ForwardRequest(c))
Replies         == Running(\E w \in Workers : ForwardReply(w))
Sends(c)        == Running(ClientSend(c))
Receives(c)     == Running(ClientReceive(c))

AsyncNext == \/ \E c \in Clients : Sends(c) \/ Receives(c)
        \/ \E w \in Workers : Worker(w)
        \/ Requests \/ Replies \/ MainReturns

\* Every thread runs as long as the process does; a round of zmq_proxy reads both
\* of its sockets.  Main returns at once (:141), but the system decides which of the
\* threads get to run before it does, so when it returns is left open.
AsyncFairness ==
    /\ \A c \in Clients : WF_asyncVars(Receives(c))
    /\ \A w \in Workers : WF_asyncVars(Worker(w))
    /\ WF_asyncVars(Requests) /\ WF_asyncVars(Replies)

AsyncSpec == AsyncInit /\ [][AsyncNext]_asyncVars /\ AsyncFairness

-----------------------------------------------------------------------------
\* Where request n of client c is, and how many replies there are to it.
Waiting(c, n) ==
    Occurs(frontend[c], {n})
    + Total(EachOf(tasks, {[from |-> c, num |-> n]}))
InHand(c, n) == {w \in Workers : left[w] > 0 /\ job[w] = [from |-> c, num |-> n]}
RepliesTo(c, n) ==
    got[c][n] + Occurs(inbox[c], [to : Clients, num : {n}, by : Workers])
    + Total(EachOf(backend, [to : {c}, num : {n}, by : Workers]))

\* A request is at one place at a time, with one worker at most, and gets one to
\* five replies, all to the client that asked, although the workers answer only
\* with what they were given as identity (asyncsrv.cpp:110-122); and the types hold.
OneToFiveReplies == AsyncTypeOK /\
    \A c \in Clients : \A n \in Number :
        IF n > sent[c]
        THEN Waiting(c, n) = 0 /\ InHand(c, n) = {} /\ RepliesTo(c, n) = 0
        ELSE \/ Waiting(c, n) = 1 /\ InHand(c, n) = {} /\ RepliesTo(c, n) = 0
             \/ /\ Waiting(c, n) = 0
                /\ \E w \in Workers : InHand(c, n) = {w} /\ left[w] <= MAX_REPLIES - RepliesTo(c, n)
             \/ /\ Waiting(c, n) = 0 /\ InHand(c, n) = {}
                /\ RepliesTo(c, n) \in 1 .. MAX_REPLIES

\* What is under way between client c and worker w: requests, replies, and the
\* request that the worker answers.
Of(c) == [from : {c}, num : Number]
To(c) == [to : {c}, num : Number, by : Workers]
By(w) == [to : Clients, num : Number, by : {w}]
Held(c, w) == IF left[w] > 0 /\ job[w] \in Of(c) THEN {job[w].num} ELSE {}

Numbers(seq, T) == {seq[k].num : k \in {i \in 1 .. Len(seq) : seq[i] \in T}}
UpTo(A, B) == \A a \in A : \A b \in B : a <= b
Ascending(seq, T) ==
    \A i, j \in 1 .. Len(seq) :
        i < j /\ seq[i] \in T /\ seq[j] \in T => seq[i].num <= seq[j].num

\* A client's requests overtake each other only on different workers: what went
\* through the same worker is answered, and the answers are read, in the order in
\* which it was asked.
SameWorkerInOrder ==
    \A c \in Clients : \A w \in Workers :
        LET asked == Numbers(tasks[w], Of(c))
            back  == Numbers(backend[w], To(c))
        IN  /\ Ascending(tasks[w], Of(c)) /\ Ascending(backend[w], To(c))
            /\ Ascending(inbox[c], By(w))
            /\ UpTo(Numbers(inbox[c], By(w)), back \cup Held(c, w) \cup asked)
            /\ UpTo(back, Held(c, w) \cup asked)
            /\ UpTo(Held(c, w), asked)

\* Every request gets a reply that is read, unless main has returned
\* (asyncsrv.cpp:141; the comment at :130 says it waits).
EveryRequestServed ==
    \A c \in Clients : \A n \in Number : sent[c] >= n ~> got[c][n] > 0 \/ ~running
=============================================================================
