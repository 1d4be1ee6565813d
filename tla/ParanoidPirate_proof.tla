------------------------- MODULE ParanoidPirate_proof -------------------------
(***************************************************************************)
(* The paranoid pirate for any number of clients and workers and any       *)
(* intervals: the broker never takes a worker from an empty set, though it *)
(* tests its size when it polls and uses it later, and a purge leaves no   *)
(* expired worker, though it stops searching at the first one.             *)
(***************************************************************************)
EXTENDS ParanoidPirate, SequenceFacts, TLAPS

\* What a zmq_poll established stays true until its results are used up.
PollInv ==
    /\ bpc \in {"poll", "backend"} => serviced_requests < MAX_REQUESTS
    /\ bpc = "backend" /\ frontend_ready => workers # {}
    /\ bpc = "frontend" => workers # {}

\* Who waits has an attempt left, the one it waits for.
RetryInv ==
    /\ \A c \in Clients : cpc[c] = "poll" => retries[c] > 0
    /\ \A w \in Workers : wpc[w] \in {"start", "poll", "busy", "sleep"} => wretries[w] > 0

IInv == TypeOK /\ PollInv /\ RetryInv

-----------------------------------------------------------------------------
(* The initial states.                                                        *)

LEMMA InitIInv == Init => IInv
<1> SUFFICES ASSUME Init PROVE IInv
  OBVIOUS
<1> USE DEF Init, SocketsInit, ClientInit, BrokerInit, WorkerInit
<1>1. ParanoidSocketsTypeOK
  <2>1. Len(<< >>) = 0 /\ 0 <= HWM
    BY HeartbeatAssumption
  <2>2. \A w \in Workers : notices[w] = << >> /\ tasks[w] = << >>
    OBVIOUS
  <2> QED BY <2>1, <2>2 DEF ParanoidSocketsTypeOK
<1>2. ClientTypeOK
  BY ClientAssumption DEF ClientTypeOK
<1>3. BrokerTypeOK
  <2>1. age \in [Workers -> 0 .. EXPIRATION + 1]
    BY ParanoidAssumption
  <2>2. serviced_requests \in 0 .. MAX_REQUESTS
    BY ParanoidAssumption
  <2>3. frontend_ready \in BOOLEAN
    BY Zenon
  <2> QED BY <2>1, <2>2, <2>3 DEF BrokerTypeOK
<1>4. WorkerTypeOK
  <2>1. NoJob \in Task
    BY DEF NoJob, Task, ClientIds
  <2> QED BY <2>1, LivenessAssumption DEF WorkerTypeOK
<1>5. PollInv
  BY DEF PollInv
<1>6. RetryInv
  BY ClientAssumption, LivenessAssumption DEF RetryInv
<1> QED
  BY <1>1, <1>2, <1>3, <1>4, <1>5, <1>6 DEF IInv, TypeOK

-----------------------------------------------------------------------------
(* Clients, and libzmq.                                                       *)

LEMMA ClientKeeps ==
    ASSUME IInv, NEW c \in Clients, ClientStep(c)
    PROVE  IInv'
<1>0. /\ ParanoidSocketsTypeOK /\ ClientTypeOK /\ BrokerTypeOK /\ WorkerTypeOK
      /\ PollInv /\ RetryInv
  BY DEF IInv, TypeOK
<1>1. /\ Client(c)
      /\ UNCHANGED <<bpc, frontend_ready, workers, age, serviced_requests>>
      /\ UNCHANGED <<wpc, job, server_alive, wretries>>
  BY DEF ClientStep, brokerVars, workerVars
<1>2. BrokerTypeOK' /\ WorkerTypeOK' /\ PollInv'
  BY <1>0, <1>1 DEF BrokerTypeOK, WorkerTypeOK, PollInv
<1>3. \A w \in Workers : wpc'[w] \in {"start", "poll", "busy", "sleep"} => wretries'[w] > 0
  BY <1>0, <1>1 DEF RetryInv
<1>4. CASE ClientSend(c)
  <2>1. ParanoidSocketsTypeOK'
    BY <1>0, <1>4 DEF ClientSend, ReqSend, ParanoidSocketsTypeOK, ClientTypeOK
  <2>2. ClientTypeOK'
    BY <1>0, <1>4 DEF ClientSend, ClientTypeOK
  <2>3. RetryInv'
    BY <1>0, <1>3, <1>4 DEF ClientSend, ClientTypeOK, RetryInv
  <2> QED BY <1>2, <2>1, <2>2, <2>3 DEF IInv, TypeOK
<1>5. CASE ClientReceive(c)
  <2>1. ParanoidSocketsTypeOK'
    BY <1>0, <1>5 DEF ClientReceive, ReqReceive, ParanoidSocketsTypeOK
  <2>2. ClientTypeOK'
    BY <1>0, <1>5, ClientAssumption DEF ClientReceive, ClientTypeOK
  <2>3. RetryInv'
    BY <1>0, <1>3, <1>5 DEF ClientReceive, ClientTypeOK, RetryInv
  <2> QED BY <1>2, <2>1, <2>2, <2>3 DEF IInv, TypeOK
<1>6. CASE ClientTimeout(c)
  <2>1. /\ retries[c] \in Nat \ {0} /\ retries[c] <= MAX_RETRIES /\ sequence[c] \in Nat
        /\ MAX_RETRIES \in Nat
    BY <1>0, <1>6, ClientAssumption DEF ClientTimeout, RetryInv, ClientTypeOK
  <2>2. AttemptsLeft(c) \in 0 .. MAX_RETRIES /\ (LastAttempt(c) \/ AttemptsLeft(c) > 0)
    BY <2>1 DEF AttemptsLeft, LastAttempt
  <2>3. \E unsent \in Seq(Nat) : ReplaceSocket(c, unsent)
    <3>1. <<sequence[c]>> \in Seq(Nat) /\ << >> \in Seq(Nat)
      BY <2>1
    <3> QED BY <1>6, <3>1 DEF ClientTimeout, Reopen, CloseSocket
  <2>4. ParanoidSocketsTypeOK'
    BY <1>0, <2>3 DEF ReplaceSocket, ParanoidSocketsTypeOK
  <2>5. /\ retries' = [retries EXCEPT ![c] = AttemptsLeft(c)]
        /\ sequence' = sequence
        /\ (cpc' = cpc /\ ~ LastAttempt(c)) \/ cpc' = [cpc EXCEPT ![c] = "exited"]
    BY <1>6 DEF ClientTimeout
  <2>6. ClientTypeOK'
    BY <1>0, <2>2, <2>5 DEF ClientTypeOK
  <2>7. RetryInv'
    BY <1>0, <1>3, <2>2, <2>5 DEF ClientTypeOK, RetryInv
  <2> QED BY <1>2, <2>4, <2>6, <2>7 DEF IInv, TypeOK
<1> QED
  BY <1>1, <1>4, <1>5, <1>6 DEF Client

LEMMA NetworkKeeps ==
    ASSUME IInv, NEW c \in Clients, NetworkStep(c)
    PROVE  IInv'
<1>0. /\ ParanoidSocketsTypeOK /\ ClientTypeOK /\ BrokerTypeOK /\ WorkerTypeOK
      /\ PollInv /\ RetryInv
  BY DEF IInv, TypeOK
<1>1. /\ UNCHANGED <<cpc, sequence, retries>>
      /\ UNCHANGED <<bpc, frontend_ready, workers, age, serviced_requests>>
      /\ UNCHANGED <<wpc, job, server_alive, wretries>>
  BY DEF NetworkStep, clientVars, brokerVars, workerVars
<1>2. ClientTypeOK' /\ BrokerTypeOK' /\ WorkerTypeOK'
  BY <1>0, <1>1 DEF ClientTypeOK, BrokerTypeOK, WorkerTypeOK
<1>3. PollInv' /\ RetryInv'
  BY <1>0, <1>1 DEF PollInv, RetryInv
<1>4. ParanoidSocketsTypeOK'
  <2>1. CASE Transmit(c)
    BY <1>0, <2>1 DEF Transmit, ParanoidSocketsTypeOK
  <2>2. CASE Refuse(c)
    BY <1>0, <2>2 DEF Refuse, ParanoidSocketsTypeOK
  <2> QED BY <2>1, <2>2 DEF NetworkStep
<1> QED
  BY <1>2, <1>3, <1>4 DEF IInv, TypeOK

-----------------------------------------------------------------------------
(* The broker.                                                                *)

\* Time passes, and timestamps get old, but no older than that.
LEMMA OlderFacts ==
    ASSUME BrokerTypeOK, NEW elapsed \in 0 .. 1
    PROVE  Older(elapsed) \in [Workers -> 0 .. EXPIRATION + 1]
<1>1. \A a, b \in Nat : Min({a, b}) \in {a, b} /\ Min({a, b}) <= a /\ Min({a, b}) <= b
  <2> TAKE a, b \in Nat
  <2>1. \E x \in {a, b} : \A y \in {a, b} : x <= y
    BY DEF Min
  <2> QED BY <2>1 DEF Min
<1>2. ASSUME NEW w \in Workers
      PROVE  Min({age[w] + elapsed, EXPIRATION + 1}) \in 0 .. EXPIRATION + 1
  <2>1. age[w] + elapsed \in Nat /\ EXPIRATION + 1 \in Nat
    BY ParanoidAssumption DEF BrokerTypeOK
  <2> QED BY <1>1, <2>1
<1>3. 0 \in 0 .. EXPIRATION + 1
  BY ParanoidAssumption
<1> QED
  BY <1>2, <1>3 DEF Older

\* What the broker sends arrives, or is dropped.
LEMMA SentToFacts ==
    ASSUME ParanoidSocketsTypeOK, NEW ws, NEW m \in Task \cup {Beat}
    PROVE  /\ SentTo(ws, m) \in [Workers -> Seq(Task \cup {Beat})]
           /\ \A w \in Workers : Len(SentTo(ws, m)[w]) <= HWM
<1>1. ASSUME NEW w \in Workers
      PROVE  /\ SentTo(ws, m)[w] \in Seq(Task \cup {Beat})
             /\ Len(SentTo(ws, m)[w]) <= HWM
  <2>1. tasks[w] \in Seq(Task \cup {Beat}) /\ Len(tasks[w]) <= HWM
    BY DEF ParanoidSocketsTypeOK
  <2>2. SentTo(ws, m)[w] = IF w \in ws /\ Accepted(w) THEN Append(tasks[w], m) ELSE tasks[w]
    BY DEF SentTo
  <2>3. CASE w \in ws /\ Accepted(w)
    <3>1. SentTo(ws, m)[w] = Append(tasks[w], m) /\ Len(tasks[w]) < HWM
      BY <2>2, <2>3 DEF Accepted
    <3> QED BY <2>1, <3>1, HeartbeatAssumption
  <2>4. CASE ~ (w \in ws /\ Accepted(w))
    BY <2>1, <2>2, <2>4
  <2> QED BY <2>3, <2>4
<1> QED
  BY <1>1 DEF SentTo

\* A message is read.
LEMMA NoticeRead ==
    ASSUME ParanoidSocketsTypeOK, NEW w \in Workers, notices[w] # << >>
    PROVE  /\ Head(notices[w]) \in Task \cup {Ready}
           /\ [notices EXCEPT ![w] = Tail(@)] \in [Workers -> Seq(Task \cup {Ready})]
           /\ \A v \in Workers : Len([notices EXCEPT ![w] = Tail(@)][v]) <= HWM
<1>1. notices[w] \in Seq(Task \cup {Ready}) /\ Len(notices[w]) <= HWM
  BY DEF ParanoidSocketsTypeOK
<1>2. /\ Head(notices[w]) \in Task \cup {Ready}
      /\ Tail(notices[w]) \in Seq(Task \cup {Ready})
      /\ Len(Tail(notices[w])) <= HWM
  BY <1>1, TailFacts, HeartbeatAssumption
<1> QED
  BY <1>2 DEF ParanoidSocketsTypeOK

LEMMA BackendKeeps ==
    ASSUME IInv, NEW w \in Workers, BackendFrom(w)
    PROVE  ParanoidSocketsTypeOK' /\ BrokerTypeOK' /\ PollInv'
<1>0. ParanoidSocketsTypeOK /\ BrokerTypeOK /\ PollInv
  BY DEF IInv, TypeOK
<1> DEFINE m == Head(notices[w])
<1>1. /\ bpc = "backend" /\ notices[w] # << >>
      /\ workers' = workers \cup {w}
      /\ age' = [age EXCEPT ![w] = 0]
      /\ notices' = [notices EXCEPT ![w] = Tail(@)]
      /\ bpc' = IF frontend_ready THEN "frontend" ELSE "beat"
      /\ UNCHANGED <<frontend_ready, outbox, requests, routes, tasks, attached>>
      /\ \/ UNCHANGED <<replies, serviced_requests>>
         \/ /\ m.client # WORKER_READY
            /\ replies' = Delivered(m.client, m.seq)
            /\ serviced_requests' = serviced_requests + 1
  BY DEF BackendFrom, Listed
<1>2. /\ m \in Task \cup {Ready}
      /\ notices' \in [Workers -> Seq(Task \cup {Ready})]
      /\ \A v \in Workers : Len(notices'[v]) <= HWM
  BY <1>0, <1>1, NoticeRead
<1> HIDE DEF m
<1>3. replies' \in [Clients -> Seq(Nat)]
  <2>1. ASSUME NEW id, NEW n \in Nat PROVE Delivered(id, n) \in [Clients -> Seq(Nat)]
    BY <1>0, AppendFacts DEF Delivered, ParanoidSocketsTypeOK
  <2>2. m.client # WORKER_READY => m.seq \in Nat
    BY <1>2 DEF Task, Ready
  <2> QED BY <1>0, <1>1, <2>1, <2>2 DEF ParanoidSocketsTypeOK
<1>4. ParanoidSocketsTypeOK'
  BY <1>0, <1>1, <1>2, <1>3 DEF ParanoidSocketsTypeOK
<1>5. serviced_requests' \in 0 .. MAX_REQUESTS
  BY <1>0, <1>1, ParanoidAssumption DEF PollInv, BrokerTypeOK
<1>6. age' \in [Workers -> 0 .. EXPIRATION + 1]
  BY <1>0, <1>1, ParanoidAssumption DEF BrokerTypeOK
<1>7. BrokerTypeOK'
  BY <1>0, <1>1, <1>5, <1>6 DEF BrokerTypeOK
<1>8. PollInv'
  BY <1>1 DEF PollInv
<1> QED
  BY <1>4, <1>7, <1>8

LEMMA FrontendKeeps ==
    ASSUME IInv, NEW c \in Clients, FrontendFrom(c)
    PROVE  ParanoidSocketsTypeOK' /\ BrokerTypeOK' /\ PollInv'
<1>0. ParanoidSocketsTypeOK /\ BrokerTypeOK /\ PollInv
  BY DEF IInv, TypeOK
<1> DEFINE m == [client |-> ClientId(c), seq |-> Head(requests[c])]
<1>1. /\ requests[c] # << >>
      /\ tasks' = SentTo({Back}, m)
      /\ workers' = workers \ {Back}
      /\ requests' = [requests EXCEPT ![c] = Tail(@)]
      /\ bpc' = "beat"
      /\ UNCHANGED <<frontend_ready, age, serviced_requests, outbox, routes, replies,
                     notices, attached>>
  BY DEF FrontendFrom
<1>2. requests[c] \in Seq(Nat)
  BY <1>0 DEF ParanoidSocketsTypeOK
<1>3. Head(requests[c]) \in Nat /\ Tail(requests[c]) \in Seq(Nat)
  BY <1>1, <1>2, TailFacts
<1>4. m \in Task \cup {Beat}
  BY <1>3 DEF Task, ClientId, ClientIds
<1> HIDE DEF m
<1>5. /\ tasks' \in [Workers -> Seq(Task \cup {Beat})]
      /\ \A w \in Workers : Len(tasks'[w]) <= HWM
  BY <1>0, <1>1, <1>4, SentToFacts
<1>6. ParanoidSocketsTypeOK'
  BY <1>0, <1>1, <1>3, <1>5 DEF ParanoidSocketsTypeOK
<1>7. BrokerTypeOK' /\ PollInv'
  BY <1>0, <1>1 DEF BrokerTypeOK, PollInv
<1> QED
  BY <1>6, <1>7

LEMMA PollKeeps ==
    ASSUME IInv, BrokerPoll
    PROVE  ParanoidSocketsTypeOK' /\ BrokerTypeOK' /\ PollInv'
<1>0. ParanoidSocketsTypeOK /\ BrokerTypeOK /\ PollInv
  BY DEF IInv, TypeOK
<1>1. PICK elapsed \in 0 .. 1 : PollFor(elapsed)
  BY DEF BrokerPoll
<1>2. age' \in [Workers -> 0 .. EXPIRATION + 1]
  BY <1>0, <1>1, OlderFacts DEF PollFor
<1>3. /\ bpc = "poll" /\ bpc' \in {"backend", "frontend", "beat"}
      /\ frontend_ready' \in BOOLEAN
      /\ frontend_ready' => workers # {}
      /\ bpc' = "frontend" => frontend_ready'
      /\ UNCHANGED <<workers, serviced_requests, outbox, requests, routes, replies,
                     notices, tasks, attached>>
  BY <1>1, Zenon DEF PollFor, FrontendPolled, socketVars
<1>4. ParanoidSocketsTypeOK'
  BY <1>0, <1>3 DEF ParanoidSocketsTypeOK
<1>5. BrokerTypeOK'
  BY <1>0, <1>2, <1>3 DEF BrokerTypeOK
<1>6. PollInv'
  BY <1>0, <1>3 DEF PollInv
<1> QED
  BY <1>4, <1>5, <1>6

LEMMA BrokerKeeps ==
    ASSUME IInv, BrokerStep \/ BrokerStop
    PROVE  IInv'
<1>0. /\ ParanoidSocketsTypeOK /\ ClientTypeOK /\ BrokerTypeOK /\ WorkerTypeOK
      /\ PollInv /\ RetryInv
  BY DEF IInv, TypeOK
<1>1. /\ Broker \/ BrokerInterrupted
      /\ UNCHANGED <<cpc, sequence, retries>>
      /\ UNCHANGED <<wpc, job, server_alive, wretries>>
  BY DEF BrokerStep, BrokerStop, clientVars, workerVars
<1>2. ClientTypeOK' /\ WorkerTypeOK' /\ RetryInv'
  BY <1>0, <1>1 DEF ClientTypeOK, WorkerTypeOK, RetryInv
<1>3. ParanoidSocketsTypeOK' /\ BrokerTypeOK' /\ PollInv'
  <2>1. CASE BrokerPurge
    <3>1. /\ workers' \subseteq workers /\ bpc' = "poll" /\ serviced_requests < MAX_REQUESTS
          /\ UNCHANGED <<frontend_ready, age, serviced_requests, outbox, requests, routes,
                         replies, notices, tasks, attached>>
      BY <2>1 DEF BrokerPurge, Purged, socketVars
    <3> QED BY <1>0, <3>1 DEF ParanoidSocketsTypeOK, BrokerTypeOK, PollInv
  <2>2. CASE BrokerBeat
    <3>1. /\ tasks' = SentTo(workers, Beat) /\ bpc' = "purge"
          /\ UNCHANGED <<frontend_ready, workers, age, serviced_requests, outbox, requests,
                         routes, replies, notices, attached>>
      BY <2>2 DEF BrokerBeat
    <3>2. /\ tasks' \in [Workers -> Seq(Task \cup {Beat})]
          /\ \A w \in Workers : Len(tasks'[w]) <= HWM
      BY <1>0, <3>1, SentToFacts
    <3> QED BY <1>0, <3>1, <3>2 DEF ParanoidSocketsTypeOK, BrokerTypeOK, PollInv
  <2>3. CASE BrokerDone \/ BrokerInterrupted
    <3>1. /\ bpc' = "closed"
          /\ UNCHANGED <<frontend_ready, workers, age, serviced_requests, outbox, requests,
                         routes, replies, notices, tasks, attached>>
      BY <2>3 DEF BrokerDone, BrokerInterrupted, socketVars
    <3> QED BY <1>0, <3>1 DEF ParanoidSocketsTypeOK, BrokerTypeOK, PollInv
  <2> QED BY <1>1, <2>1, <2>2, <2>3, PollKeeps, BackendKeeps, FrontendKeeps DEF Broker
<1> QED
  BY <1>2, <1>3 DEF IInv, TypeOK

-----------------------------------------------------------------------------
(* The workers.                                                               *)

\* A message is sent, dropped or read; the pipes keep within their limits.
LEMMA SendFacts ==
    ASSUME ParanoidSocketsTypeOK, NEW w \in Workers, NEW m \in Task \cup {Ready}, Send(w, m)
    PROVE  /\ notices' \in [Workers -> Seq(Task \cup {Ready})]
           /\ \A v \in Workers : Len(notices'[v]) <= HWM
<1>1. CASE UNCHANGED notices
  BY <1>1 DEF ParanoidSocketsTypeOK
<1>2. CASE Len(notices[w]) < HWM /\ notices' = [notices EXCEPT ![w] = Append(@, m)]
  <2> DEFINE s == Append(notices[w], m)
  <2>1. notices[w] \in Seq(Task \cup {Ready})
    BY DEF ParanoidSocketsTypeOK
  <2>2. s \in Seq(Task \cup {Ready}) /\ Len(s) <= HWM
    BY <1>2, <2>1, AppendFacts, HeartbeatAssumption
  <2>3. notices' = [notices EXCEPT ![w] = s]
    BY <1>2
  <2> HIDE DEF s
  <2> QED BY <2>2, <2>3 DEF ParanoidSocketsTypeOK
<1> QED
  BY <1>1, <1>2 DEF Send

LEMMA ConnectFacts ==
    ASSUME ParanoidSocketsTypeOK, NEW w \in Workers, Connect(w)
    PROVE  /\ attached' \subseteq Workers
           /\ notices' \in [Workers -> Seq(Task \cup {Ready})]
           /\ \A v \in Workers : Len(notices'[v]) <= HWM
<1>1. CASE UNCHANGED notices /\ attached' = attached \ {w}
  BY <1>1 DEF ParanoidSocketsTypeOK
<1>2. CASE notices' = [notices EXCEPT ![w] = <<Ready>>] /\ attached' = attached \cup {w}
  <2>1. <<Ready>> \in Seq(Task \cup {Ready}) /\ Len(<<Ready>>) <= HWM
    BY HeartbeatAssumption
  <2> QED BY <1>2, <2>1 DEF ParanoidSocketsTypeOK
<1> QED
  BY <1>1, <1>2 DEF Connect

\* Nothing is left of what the worker could read.
LEMMA EmptiedFacts ==
    ASSUME ParanoidSocketsTypeOK, NEW w \in Workers, tasks' = [tasks EXCEPT ![w] = << >>]
    PROVE  /\ tasks' \in [Workers -> Seq(Task \cup {Beat})]
           /\ \A v \in Workers : Len(tasks'[v]) <= HWM
<1>1. << >> \in Seq(Task \cup {Beat}) /\ Len(<< >>) <= HWM
  BY HeartbeatAssumption
<1> QED
  BY <1>1 DEF ParanoidSocketsTypeOK

LEMMA DisconnectFacts ==
    ASSUME ParanoidSocketsTypeOK, NEW w \in Workers, Disconnect(w)
    PROVE  ParanoidSocketsTypeOK'
<1>1. /\ attached' = attached \ {w}
      /\ tasks' = [tasks EXCEPT ![w] = << >>]
      /\ UNCHANGED <<outbox, requests, routes, replies, notices>>
  BY DEF Disconnect
<1>2. /\ tasks' \in [Workers -> Seq(Task \cup {Beat})]
      /\ \A v \in Workers : Len(tasks'[v]) <= HWM
  BY <1>1, EmptiedFacts
<1> QED
  BY <1>1, <1>2 DEF ParanoidSocketsTypeOK

\* The part of the invariant that is about workers.
WorkersInv ==
    /\ WorkerTypeOK
    /\ \A w \in Workers : wpc[w] \in {"start", "poll", "busy", "sleep"} => wretries[w] > 0

LEMMA WorkerKeeps ==
    ASSUME IInv, NEW w \in Workers, WorkerStep(w) \/ WorkerStop(w)
    PROVE  IInv'
<1>0. /\ ParanoidSocketsTypeOK /\ ClientTypeOK /\ BrokerTypeOK /\ WorkerTypeOK
      /\ PollInv /\ RetryInv
  BY DEF IInv, TypeOK
<1>1. /\ Worker(w) \/ WorkerCrash(w) \/ WorkerInterrupted(w)
      /\ UNCHANGED <<cpc, sequence, retries>>
      /\ UNCHANGED <<bpc, frontend_ready, workers, age, serviced_requests>>
  BY DEF WorkerStep, WorkerStop, clientVars, brokerVars
<1>2. ClientTypeOK' /\ BrokerTypeOK' /\ PollInv'
  BY <1>0, <1>1 DEF ClientTypeOK, BrokerTypeOK, PollInv
<1>3. \A c \in Clients : cpc'[c] = "poll" => retries'[c] > 0
  BY <1>0, <1>1 DEF RetryInv
<1>4. NoJob \in Task /\ MAX_LIVENESS \in Nat \ {0} /\ WORKER_RETRIES \in Nat \ {0}
  BY LivenessAssumption DEF NoJob, Task, ClientIds
<1>5. SUFFICES ParanoidSocketsTypeOK' /\ WorkersInv'
  BY <1>2, <1>3 DEF IInv, TypeOK, RetryInv, WorkersInv
<1>6. WorkersInv
  BY <1>0 DEF WorkersInv, RetryInv
<1>7. CASE WorkerStart(w)
  <2>1. /\ wpc[w] = "start" /\ Connect(w) /\ wpc' = [wpc EXCEPT ![w] = "poll"]
        /\ UNCHANGED <<job, server_alive, wretries, outbox, requests, routes, replies, tasks>>
    BY <1>7 DEF WorkerStart
  <2>2. ParanoidSocketsTypeOK'
    BY <1>0, <2>1, ConnectFacts DEF ParanoidSocketsTypeOK
  <2>3. WorkersInv'
    BY <1>6, <2>1 DEF WorkersInv, WorkerTypeOK
  <2> QED BY <2>2, <2>3
<1>8. CASE WorkerReceive(w)
  <2> DEFINE m == Head(tasks[w])
             s == Tail(tasks[w])
  <2>1. /\ wpc[w] = "poll" /\ tasks[w] # << >>
        /\ server_alive' = [server_alive EXCEPT ![w] = MAX_LIVENESS]
        /\ wretries' = [wretries EXCEPT ![w] = WORKER_RETRIES]
        /\ \/ m.client = HEARTBEAT /\ UNCHANGED <<wpc, job>>
           \/ /\ m.client # HEARTBEAT
              /\ wpc' = [wpc EXCEPT ![w] = "busy"]
              /\ job' = [job EXCEPT ![w] = m]
        /\ tasks' = [tasks EXCEPT ![w] = s]
        /\ UNCHANGED <<outbox, requests, routes, replies, notices, attached>>
    BY <1>8 DEF WorkerReceive
  <2>2. tasks[w] \in Seq(Task \cup {Beat}) /\ Len(tasks[w]) <= HWM
    BY <1>0 DEF ParanoidSocketsTypeOK
  <2>3. m \in Task \cup {Beat} /\ s \in Seq(Task \cup {Beat}) /\ Len(s) <= HWM
    BY <2>1, <2>2, TailFacts, HeartbeatAssumption
  <2> HIDE DEF m, s
  <2>4. m.client # HEARTBEAT => m \in Task
    BY <2>3 DEF Beat
  <2>5. ParanoidSocketsTypeOK'
    BY <1>0, <2>1, <2>3 DEF ParanoidSocketsTypeOK
  <2>6. WorkersInv'
    <3>1. CASE UNCHANGED <<wpc, job>>
      BY <1>4, <1>6, <2>1, <3>1 DEF WorkersInv, WorkerTypeOK
    <3>2. CASE /\ m \in Task /\ wpc' = [wpc EXCEPT ![w] = "busy"]
               /\ job' = [job EXCEPT ![w] = m]
      BY <1>4, <1>6, <2>1, <3>2 DEF WorkersInv, WorkerTypeOK
    <3> QED BY <2>1, <2>4, <3>1, <3>2
  <2> QED BY <2>5, <2>6
<1>9. CASE WorkerReply(w)
  <2>1. /\ wpc[w] = "busy" /\ Send(w, job[w])
        /\ wpc' = [wpc EXCEPT ![w] = "poll"]
        /\ job' = [job EXCEPT ![w] = NoJob]
        /\ UNCHANGED <<server_alive, wretries, outbox, requests, routes, replies, tasks,
                       attached>>
    BY <1>9 DEF WorkerReply
  <2>2. job[w] \in Task \cup {Ready}
    BY <1>0 DEF WorkerTypeOK
  <2>3. ParanoidSocketsTypeOK'
    BY <1>0, <2>1, <2>2, SendFacts DEF ParanoidSocketsTypeOK
  <2>4. WorkersInv'
    BY <1>4, <1>6, <2>1 DEF WorkersInv, WorkerTypeOK
  <2> QED BY <2>3, <2>4
<1>10. CASE WorkerCrash(w)
  <2>1. /\ Disconnect(w)
        /\ wpc' = [wpc EXCEPT ![w] = "crashed"]
        /\ job' = [job EXCEPT ![w] = NoJob]
        /\ UNCHANGED <<server_alive, wretries>>
    BY <1>10 DEF WorkerCrash
  <2>2. WorkersInv'
    BY <1>4, <1>6, <2>1 DEF WorkersInv, WorkerTypeOK
  <2> QED BY <1>0, <2>1, <2>2, DisconnectFacts
<1>11. CASE WorkerTimeout(w)
  <2>1. /\ server_alive[w] > 1
        /\ server_alive' = [server_alive EXCEPT ![w] = @ - 1]
        /\ Send(w, Ready)
        /\ UNCHANGED <<wpc, job, wretries, outbox, requests, routes, replies, tasks, attached>>
    BY <1>11 DEF WorkerTimeout
  <2>2. ParanoidSocketsTypeOK'
    BY <1>0, <2>1, SendFacts DEF ParanoidSocketsTypeOK
  <2>3. server_alive[w] - 1 \in 0 .. MAX_LIVENESS
    BY <1>0, <1>4, <2>1 DEF WorkerTypeOK
  <2>4. WorkersInv'
    BY <1>6, <2>1, <2>3 DEF WorkersInv, WorkerTypeOK
  <2> QED BY <2>2, <2>4
<1>12. CASE WorkerGiveUp(w)
  <2> DEFINE left == wretries[w] - 1
  <2>1. /\ wpc[w] = "poll"
        /\ server_alive' = [server_alive EXCEPT ![w] = 0]
        /\ wretries' = [wretries EXCEPT ![w] = left]
        /\ job' = job
        /\ \/ ~LastRetry(w) /\ wpc' = [wpc EXCEPT ![w] = "sleep"] /\ UNCHANGED socketVars
           \/ wpc' = [wpc EXCEPT ![w] = "exited"] /\ Disconnect(w)
    BY <1>12 DEF WorkerGiveUp
  <2>2. left \in 0 .. WORKER_RETRIES /\ (LastRetry(w) \/ left > 0)
    <3>1. wretries[w] \in 0 .. WORKER_RETRIES /\ wretries[w] > 0
      BY <1>6, <2>1 DEF WorkersInv, WorkerTypeOK
    <3> QED BY <1>4, <3>1 DEF LastRetry
  <2> HIDE DEF left
  <2>3. ParanoidSocketsTypeOK'
    <3>1. CASE UNCHANGED socketVars
      BY <1>0, <3>1 DEF socketVars, ParanoidSocketsTypeOK
    <3> QED BY <1>0, <2>1, <3>1, DisconnectFacts
  <2>4. WorkersInv'
    <3>1. /\ wretries' \in [Workers -> 0 .. WORKER_RETRIES]
          /\ server_alive' \in [Workers -> 0 .. MAX_LIVENESS]
      BY <1>4, <1>6, <2>1, <2>2 DEF WorkersInv, WorkerTypeOK
    <3>2. CASE wpc' = [wpc EXCEPT ![w] = "sleep"] /\ left > 0
      BY <1>6, <2>1, <3>1, <3>2 DEF WorkersInv, WorkerTypeOK
    <3>3. CASE wpc' = [wpc EXCEPT ![w] = "exited"]
      BY <1>6, <2>1, <3>1, <3>3 DEF WorkersInv, WorkerTypeOK
    <3> QED BY <2>1, <2>2, <3>2, <3>3
  <2> QED BY <2>3, <2>4
<1>13. CASE WorkerInterrupted(w)
  <2>1. /\ Disconnect(w)
        /\ wpc' = [wpc EXCEPT ![w] = "exited"]
        /\ UNCHANGED <<job, server_alive, wretries>>
    BY <1>13 DEF WorkerInterrupted
  <2>2. WorkersInv'
    BY <1>6, <2>1 DEF WorkersInv, WorkerTypeOK
  <2> QED BY <1>0, <2>1, <2>2, DisconnectFacts
<1>14. CASE WorkerReconnect(w)
  <2>1. /\ wpc[w] = "sleep" /\ Connect(w)
        /\ tasks' = [tasks EXCEPT ![w] = << >>]
        /\ server_alive' = [server_alive EXCEPT ![w] = MAX_LIVENESS]
        /\ wpc' = [wpc EXCEPT ![w] = "poll"]
        /\ UNCHANGED <<job, wretries, outbox, requests, routes, replies>>
    BY <1>14 DEF WorkerReconnect
  <2>2. ParanoidSocketsTypeOK'
    BY <1>0, <2>1, ConnectFacts, EmptiedFacts DEF ParanoidSocketsTypeOK
  <2>3. WorkersInv'
    BY <1>4, <1>6, <2>1 DEF WorkersInv, WorkerTypeOK
  <2> QED BY <2>2, <2>3
<1> QED
  BY <1>1, <1>7, <1>8, <1>9, <1>10, <1>11, <1>12, <1>13, <1>14 DEF Worker

-----------------------------------------------------------------------------
(* The theorems.                                                              *)

LEMMA IInvKept == IInv /\ [Next]_vars => IInv'
<1> SUFFICES ASSUME IInv, [Next]_vars PROVE IInv'
  OBVIOUS
<1>1. CASE UNCHANGED vars
  BY <1>1 DEF vars, socketVars, clientVars, brokerVars, workerVars, IInv, TypeOK,
              ParanoidSocketsTypeOK, ClientTypeOK, BrokerTypeOK, WorkerTypeOK, PollInv, RetryInv
<1>2. CASE Next
  BY <1>2, ClientKeeps, NetworkKeeps, BrokerKeeps, WorkerKeeps DEF Next
<1> QED
  BY <1>1, <1>2

\* The broker reads a request only while it has a worker to give it to, whatever
\* arrives, is purged or reconnects between the two
\* (paranoid-pirate-broker.cpp:143 against the assertion at :92); and every pipe and
\* counter keeps within its limits.
THEOREM PopsFromNonEmpty == Spec => []PopIsSafe
<1>1. Init => IInv
  BY InitIInv
<1>2. IInv /\ [Next]_vars => IInv'
  BY IInvKept
<1>3. IInv => PopIsSafe
  BY DEF IInv, PollInv, PopIsSafe
<1> QED
  BY <1>1, <1>2, <1>3, PTL DEF Spec

\* A worker that is left is before the first expired one in the set's order, so it
\* has not expired itself.
LEMMA PurgeStep ==
    ASSUME IInv, Next, bpc = "purge", bpc' = "poll"
    PROVE  \A w \in workers' : age[w] <= EXPIRATION
<1>1. BrokerPurge
  <2>1. ASSUME NEW c \in Clients PROVE ~ (ClientStep(c) \/ NetworkStep(c))
    BY DEF ClientStep, NetworkStep, brokerVars
  <2>2. ASSUME NEW w \in Workers PROVE ~ (WorkerStep(w) \/ WorkerStop(w))
    BY DEF WorkerStep, WorkerStop, brokerVars
  <2>3. BrokerStep \/ BrokerStop
    BY <2>1, <2>2 DEF Next
  <2> QED BY <2>3 DEF BrokerStep, BrokerStop, Broker, BrokerPoll, PollFor, BackendFrom,
                      FrontendFrom, BrokerBeat, BrokerDone, BrokerInterrupted
<1>2. workers' = {w \in workers : \A v \in Expired : w < v}
  BY <1>1 DEF BrokerPurge, Purged
<1>3. ASSUME NEW w \in workers' PROVE age[w] <= EXPIRATION
  <2>1. w \in workers /\ w \in Workers /\ w \in Nat
    BY <1>2, ParanoidAssumption DEF IInv, TypeOK, BrokerTypeOK
  <2>2. w \notin Expired
    BY <1>2, <2>1
  <2> QED BY <2>1, <2>2, ParanoidAssumption DEF Expired, IInv, TypeOK, BrokerTypeOK
<1> QED
  BY <1>3

\* No expired worker survives a purge, although the search stops at the first one
\* and what is erased is the rest of the set
\* (paranoid-pirate-broker.cpp:60-75).
THEOREM PurgeIsComplete == Spec => NoneExpiredAfterPurge
<1> DEFINE Step == bpc = "purge" /\ bpc' = "poll" => \A w \in workers' : age[w] <= EXPIRATION
<1>1. Init => IInv
  BY InitIInv
<1>2. IInv /\ [Next]_vars => IInv'
  BY IInvKept
<1>3. IInv /\ [Next]_vars => [Step]_vars
  BY PurgeStep
<1> QED
  BY <1>1, <1>2, <1>3, PTL DEF Spec, NoneExpiredAfterPurge
===============================================================================
