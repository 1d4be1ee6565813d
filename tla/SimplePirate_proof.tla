-------------------------- MODULE SimplePirate_proof --------------------------
(***************************************************************************)
(* Proofs about SimplePirate, for any number of clients, workers, retries  *)
(* and requests: type correctness, that each worker's turn is in one place,*)
(* that the broker only dispatches to an idle worker; and, by counting the *)
(* copies of a request over all the places they can be at, that retries    *)
(* are bounded and that nothing is lost without a trace.                   *)
(***************************************************************************)
EXTENDS SimplePirate, SequenceFacts, TLAPS

\* What a zmq_poll established stays true until its results are used up.
PollInv ==
    /\ bpc = "backend" => /\ serviced_requests < MAX_REQUESTS
                          /\ frontend_ready => worker_queue # << >>
    /\ bpc = "frontend" => worker_queue # << >>

\* A worker that is running is known to the backend.
AttachedInv == \A w \in Workers : wpc[w] \in {"recv", "busy"} => w \in attached

\* A client that waits has an attempt left, the one it waits for.
RetryInv == \A c \in Clients : cpc[c] = "poll" => retries[c] > 0

IInv == TypeOK /\ RetryInv /\ PollInv /\ AttachedInv /\ OneTurnPerWorker

-----------------------------------------------------------------------------
(* Initial states and the type invariant. *)

LEMMA InitIInv == Init => IInv
<1>. SUFFICES ASSUME Init PROVE IInv
  OBVIOUS
<1>. USE DEF Init, SocketsInit, ClientInit, BrokerInit, WorkerInit
<1>1. SocketsTypeOK
  BY DEF SocketsTypeOK
<1>2. ClientTypeOK
  BY ClientAssumption DEF ClientTypeOK
<1>3. BrokerTypeOK
  <2>1. frontend_ready \in BOOLEAN
    BY Zenon
  <2>2. worker_queue \in Seq(Workers) /\ serviced_requests \in 0 .. MAX_REQUESTS
    BY BrokerAssumption
  <2>. QED BY <2>1, <2>2 DEF BrokerTypeOK
<1>4. WorkerTypeOK
  BY DEF WorkerTypeOK, Task, NoJob, ClientIds
<1>5. PollInv /\ AttachedInv
  BY DEF PollInv, AttachedInv
<1>7. RetryInv
  BY DEF RetryInv
<1>6. OneTurnPerWorker
  BY DEF OneTurnPerWorker, Turns, Queued, Idle
<1>. QED BY <1>1, <1>2, <1>3, <1>4, <1>5, <1>6, <1>7 DEF IInv, TypeOK

LEMMA TypeStep == ASSUME IInv, Next PROVE TypeOK'
<1>. USE DEF IInv
<1>. SUFFICES SocketsTypeOK' /\ ClientTypeOK' /\ BrokerTypeOK' /\ WorkerTypeOK'
  BY DEF TypeOK
<1>0. /\ SocketsTypeOK /\ ClientTypeOK /\ BrokerTypeOK /\ WorkerTypeOK
      /\ MAX_RETRIES \in Nat \ {0}
  BY ClientAssumption DEF TypeOK
<1>1. ASSUME NEW c \in Clients, ClientStep(c)
      PROVE  SocketsTypeOK' /\ ClientTypeOK' /\ BrokerTypeOK' /\ WorkerTypeOK'
  <2>1. BrokerTypeOK' /\ WorkerTypeOK'
    BY <1>0, <1>1 DEF ClientStep, brokerVars, workerVars, BrokerTypeOK, WorkerTypeOK
  <2>2. CASE ClientSend(c)
    BY <1>0, <2>1, <2>2 DEF ClientSend, ReqSend, SocketsTypeOK, ClientTypeOK
  <2>3. CASE ClientReceive(c)
    BY <1>0, <2>1, <2>3 DEF ClientReceive, ReqReceive, SocketsTypeOK, ClientTypeOK
  <2>4. CASE ClientTimeout(c)
    <3>1. retries[c] \in Nat \ {0} /\ retries[c] <= MAX_RETRIES /\ sequence[c] \in Nat
      BY <1>0, <2>4 DEF ClientTimeout, RetryInv, ClientTypeOK
    <3>2. ClientTypeOK'
      <4>1. AttemptsLeft(c) \in 0 .. MAX_RETRIES
        BY <1>0, <3>1 DEF AttemptsLeft
      <4>2. cpc' \in [Clients -> {"send", "poll", "exited"}]
        BY <1>0, <2>4 DEF ClientTimeout, ClientTypeOK
      <4>. QED BY <1>0, <2>4, <4>1, <4>2 DEF ClientTimeout, ClientTypeOK
    <3>3. <<sequence[c]>> \in Seq(Nat) /\ << >> \in Seq(Nat)
      BY <3>1
    <3>4. PICK unsent \in Seq(Nat) : ReplaceSocket(c, unsent)
      BY <2>4, <3>3 DEF ClientTimeout, Reopen, CloseSocket
    <3>5. SocketsTypeOK'
      BY <1>0, <3>4 DEF ReplaceSocket, SocketsTypeOK
    <3>. QED BY <2>1, <3>2, <3>5
  <2>. QED BY <1>1, <2>2, <2>3, <2>4 DEF ClientStep, Client
<1>2. ASSUME NEW c \in Clients, NetworkStep(c)
      PROVE  SocketsTypeOK' /\ ClientTypeOK' /\ BrokerTypeOK' /\ WorkerTypeOK'
  <2>1. ClientTypeOK' /\ BrokerTypeOK' /\ WorkerTypeOK'
    BY <1>0, <1>2
    DEF NetworkStep, clientVars, brokerVars, workerVars, ClientTypeOK, BrokerTypeOK, WorkerTypeOK
  <2>2. CASE Transmit(c)
    BY <1>0, <2>1, <2>2 DEF Transmit, SocketsTypeOK
  <2>3. CASE Refuse(c)
    BY <1>0, <2>1, <2>3 DEF Refuse, SocketsTypeOK
  <2>. QED BY <1>2, <2>2, <2>3 DEF NetworkStep
<1>3. ASSUME BrokerStep \/ BrokerStop
      PROVE  SocketsTypeOK' /\ ClientTypeOK' /\ BrokerTypeOK' /\ WorkerTypeOK'
  <2>1. ClientTypeOK' /\ WorkerTypeOK'
    BY <1>0, <1>3 DEF BrokerStep, BrokerStop, clientVars, workerVars, ClientTypeOK, WorkerTypeOK
  <2>2. CASE BrokerPoll
    BY <1>0, <2>1, <2>2 DEF BrokerPoll, socketVars, SocketsTypeOK, BrokerTypeOK
  <2>3. ASSUME NEW w \in Workers, BackendFrom(w)
        PROVE  SocketsTypeOK' /\ BrokerTypeOK'
    <3>1. /\ notices[w] \in Seq(Task \cup {Ready})
          /\ notices[w] # << >>
          /\ worker_queue \in Seq(Workers)
      BY <1>0, <2>3 DEF BackendFrom, SocketsTypeOK, BrokerTypeOK
    <3>2. /\ Head(notices[w]) \in Task \cup {Ready}
          /\ Tail(notices[w]) \in Seq(Task \cup {Ready})
      BY <3>1, TailFacts
    <3>3. Append(worker_queue, w) \in Seq(Workers)
      BY <3>1, AppendFacts
    <3>4. Head(notices[w]).client # WORKER_READY => Head(notices[w]).seq \in Nat
      BY <3>2 DEF Task, Ready
    <3>5. replies' \in [Clients -> Seq(Nat)]
      <4>1. ASSUME NEW id, NEW n \in Nat
            PROVE  Delivered(id, n) \in [Clients -> Seq(Nat)]
        BY <1>0, AppendFacts DEF Delivered, SocketsTypeOK
      <4>2. \/ replies' = replies
            \/ /\ Head(notices[w]).client # WORKER_READY
               /\ replies' = Delivered(Head(notices[w]).client, Head(notices[w]).seq)
        BY <2>3 DEF BackendFrom
      <4>. QED BY <1>0, <3>4, <4>1, <4>2 DEF SocketsTypeOK
    <3>6. notices' \in [Workers -> Seq(Task \cup {Ready})]
      BY <1>0, <2>3, <3>2 DEF BackendFrom, SocketsTypeOK
    <3>7. serviced_requests' \in 0 .. MAX_REQUESTS
      BY <1>0, <2>3, BrokerAssumption DEF BackendFrom, Requeued, PollInv, BrokerTypeOK
    <3>8. SocketsTypeOK'
      BY <1>0, <2>3, <3>5, <3>6 DEF BackendFrom, SocketsTypeOK
    <3>. QED BY <1>0, <2>3, <3>3, <3>7, <3>8 DEF BackendFrom, Requeued, BrokerTypeOK
  <2>4. ASSUME NEW c \in Clients, FrontendFrom(c)
        PROVE  SocketsTypeOK' /\ BrokerTypeOK'
    <3>1. /\ requests[c] \in Seq(Nat)
          /\ requests[c] # << >>
          /\ worker_queue \in Seq(Workers)
          /\ worker_queue # << >>
      BY <1>0, <2>4 DEF FrontendFrom, SocketsTypeOK, BrokerTypeOK, PollInv
    <3>2. /\ Head(requests[c]) \in Nat
          /\ Tail(requests[c]) \in Seq(Nat)
          /\ Tail(worker_queue) \in Seq(Workers)
      BY <3>1, TailFacts
    <3>3. [client |-> ClientId(c), seq |-> Head(requests[c])] \in Task
      BY <3>2 DEF Task, ClientId, ClientIds
    <3>4. tasks' \in [Workers -> Seq(Task)]
      BY <1>0, <2>4, <3>3 DEF FrontendFrom, Dispatched, SocketsTypeOK
    <3>5. requests' \in [Clients -> Seq(Nat)]
      BY <1>0, <2>4, <3>2 DEF FrontendFrom, SocketsTypeOK
    <3>6. SocketsTypeOK'
      BY <1>0, <2>4, <3>4, <3>5 DEF FrontendFrom, SocketsTypeOK
    <3>. QED BY <1>0, <2>4, <3>2, <3>6 DEF FrontendFrom, FrontRemoved, BrokerTypeOK
  <2>5. CASE BrokerDone \/ BrokerInterrupted
    BY <1>0, <2>1, <2>5
    DEF BrokerDone, BrokerInterrupted, socketVars, SocketsTypeOK, BrokerTypeOK
  <2>. QED BY <1>3, <2>1, <2>2, <2>3, <2>4, <2>5 DEF BrokerStep, BrokerStop, Broker
<1>4. ASSUME NEW w \in Workers, WorkerStep(w) \/ Crash(w)
      PROVE  SocketsTypeOK' /\ ClientTypeOK' /\ BrokerTypeOK' /\ WorkerTypeOK'
  <2>1. ClientTypeOK' /\ BrokerTypeOK'
    BY <1>0, <1>4 DEF WorkerStep, Crash, clientVars, brokerVars, ClientTypeOK, BrokerTypeOK
  <2>2. NoJob \in Task
    BY DEF NoJob, Task, ClientIds
  <2>3. CASE WorkerStart(w)
    BY <1>0, <2>1, <2>3 DEF WorkerStart, WorkerSend, SocketsTypeOK, WorkerTypeOK
  <2>4. CASE WorkerReceive(w)
    BY <1>0, <2>1, <2>4 DEF WorkerReceive, SocketsTypeOK, WorkerTypeOK
  <2>5. CASE WorkerReply(w)
    BY <1>0, <2>1, <2>2, <2>5 DEF WorkerReply, WorkerSend, SocketsTypeOK, WorkerTypeOK
  <2>6. CASE WorkerCrash(w)
    BY <1>0, <2>1, <2>2, <2>6 DEF WorkerCrash, SocketsTypeOK, WorkerTypeOK
  <2>. QED BY <1>4, <2>3, <2>4, <2>5, <2>6 DEF WorkerStep, Crash, Worker
<1>. QED BY <1>1, <1>2, <1>3, <1>4 DEF Next

-----------------------------------------------------------------------------
(* The other parts of the inductive invariant. *)

\* The steps that leave the workers' turns alone.
TurnsKept == UNCHANGED <<notices, tasks, worker_queue, wpc, attached>>

LEMMA RetryStep == ASSUME IInv, Next PROVE RetryInv'
<1>. USE DEF IInv, RetryInv
<1>0. /\ cpc \in [Clients -> {"send", "poll", "exited"}]
      /\ retries \in [Clients -> 0 .. MAX_RETRIES]
  BY DEF TypeOK, ClientTypeOK
<1>1. ASSUME UNCHANGED clientVars
      PROVE  RetryInv'
  BY <1>1 DEF clientVars
<1>2. ASSUME NEW c \in Clients, Client(c)
      PROVE  RetryInv'
  <2>1. CASE ClientSend(c)
    BY <1>0, <2>1 DEF ClientSend
  <2>2. CASE ClientReceive(c)
    BY <1>0, <2>2 DEF ClientReceive
  <2>3. CASE ClientTimeout(c)
    <3>1. retries[c] \in Nat \ {0} /\ AttemptsLeft(c) = retries[c] - 1
      BY <1>0, <2>3 DEF ClientTimeout, AttemptsLeft
    <3>2. LastAttempt(c) \/ AttemptsLeft(c) > 0
      BY <3>1 DEF LastAttempt
    <3>. QED BY <1>0, <2>3, <3>2 DEF ClientTimeout
  <2>. QED BY <1>2, <2>1, <2>2, <2>3 DEF Client
<1>. QED BY <1>1, <1>2
         DEF Next, ClientStep, NetworkStep, BrokerStep, BrokerStop, WorkerStep, Crash

LEMMA PollStep == ASSUME IInv, Next PROVE PollInv'
<1>1. /\ worker_queue \in Seq(Workers)
      /\ bpc \in {"poll", "backend", "frontend", "closed"}
  BY DEF IInv, TypeOK, BrokerTypeOK
<1>2. ASSUME UNCHANGED brokerVars
      PROVE  PollInv'
  BY <1>2 DEF IInv, PollInv, brokerVars
<1>3. CASE BrokerPoll
  BY <1>3 DEF BrokerPoll, FrontendPolled, PollInv
<1>4. ASSUME NEW w \in Workers, BackendFrom(w)
      PROVE  PollInv'
  <2>1. worker_queue' # << >>
    BY <1>1, <1>4, AppendFacts DEF BackendFrom, Requeued
  <2>. QED BY <1>4, <2>1 DEF BackendFrom, Requeued, PollInv
<1>5. ASSUME NEW c \in Clients, FrontendFrom(c)
      PROVE  PollInv'
  BY <1>5 DEF FrontendFrom, PollInv
<1>6. CASE BrokerDone \/ BrokerInterrupted
  BY <1>6 DEF BrokerDone, BrokerInterrupted, PollInv
<1>. QED BY <1>2, <1>3, <1>4, <1>5, <1>6
         DEF Next, ClientStep, NetworkStep, BrokerStep, BrokerStop, Broker, WorkerStep, Crash

LEMMA AttachedStep == ASSUME IInv, Next PROVE AttachedInv'
<1>. USE DEF IInv, AttachedInv
<1>0. wpc \in [Workers -> {"start", "recv", "busy", "crashed"}]
  BY DEF TypeOK, WorkerTypeOK
<1>1. ASSUME UNCHANGED <<wpc, attached>>
      PROVE  AttachedInv'
  BY <1>1
<1>2. ASSUME NEW c \in Clients, ClientStep(c) \/ NetworkStep(c)
      PROVE  UNCHANGED <<wpc, attached>>
  BY <1>2 DEF ClientStep, NetworkStep, Client, ClientSend, ClientReceive, ClientTimeout,
              ReqSend, ReqReceive, Reopen, CloseSocket, ReplaceSocket, Transmit, Refuse,
              workerVars
<1>3. ASSUME BrokerStep \/ BrokerStop
      PROVE  UNCHANGED <<wpc, attached>>
  BY <1>3 DEF BrokerStep, BrokerStop, Broker, BrokerPoll, BackendFrom, FrontendFrom,
              BrokerDone, BrokerInterrupted, socketVars, workerVars
<1>4. ASSUME NEW w \in Workers, WorkerStep(w) \/ Crash(w)
      PROVE  AttachedInv'
  <2>1. CASE WorkerStart(w)
    BY <1>0, <2>1 DEF WorkerStart
  <2>2. CASE WorkerReceive(w)
    BY <1>0, <2>2 DEF WorkerReceive
  <2>3. CASE WorkerReply(w)
    BY <1>0, <2>3 DEF WorkerReply
  <2>4. CASE WorkerCrash(w)
    BY <1>0, <2>4 DEF WorkerCrash
  <2>. QED BY <1>4, <2>1, <2>2, <2>3, <2>4 DEF WorkerStep, Crash, Worker
<1>. QED BY <1>1, <1>2, <1>3, <1>4 DEF Next

\* A turn is in one place only.
LEMMA OnePlace ==
    ASSUME IInv, NEW w \in Workers
    PROVE  /\ Len(notices[w]) \in Nat /\ Len(tasks[w]) \in Nat
           /\ notices[w] # << >> => /\ wpc[w] = "recv" /\ Len(notices[w]) = 1
                                    /\ tasks[w] = << >> /\ w \notin Idle
           /\ tasks[w] # << >>   => /\ wpc[w] = "recv" /\ Len(tasks[w]) = 1
                                    /\ notices[w] = << >> /\ w \notin Idle
           /\ w \in Idle         => /\ wpc[w] = "recv"
                                    /\ notices[w] = << >> /\ tasks[w] = << >>
<1>1. /\ notices[w] \in Seq(Task \cup {Ready})
      /\ tasks[w] \in Seq(Task)
  BY DEF IInv, TypeOK, SocketsTypeOK
<1>. DEFINE n == Len(notices[w])
            t == Len(tasks[w])
<1>2. /\ n \in Nat /\ t \in Nat
      /\ n = 0 <=> notices[w] = << >>
      /\ t = 0 <=> tasks[w] = << >>
  BY <1>1
<1>3. Turns(w) = IF wpc[w] = "recv" THEN 1 ELSE 0
  BY DEF IInv, OneTurnPerWorker
<1>4. /\ w \in Idle    => Turns(w) = n + 1 + t
      /\ w \notin Idle => Turns(w) = n + 0 + t
  BY DEF Turns, Queued
<1>. HIDE DEF n, t
<1>5. w \in Idle => wpc[w] = "recv" /\ n = 0 /\ t = 0
  BY <1>2, <1>3, <1>4
<1>6. w \notin Idle => /\ n # 0 => wpc[w] = "recv" /\ n = 1 /\ t = 0
                       /\ t # 0 => wpc[w] = "recv" /\ t = 1 /\ n = 0
  BY <1>2, <1>3, <1>4
<1>. QED BY <1>2, <1>5, <1>6 DEF n, t

LEMMA TurnStep == ASSUME IInv, Next PROVE OneTurnPerWorker'
<1>0. /\ notices \in [Workers -> Seq(Task \cup {Ready})]
      /\ tasks \in [Workers -> Seq(Task)]
      /\ worker_queue \in Seq(Workers)
      /\ wpc \in [Workers -> {"start", "recv", "busy", "crashed"}]
      /\ TypeOK'
  BY TypeStep DEF IInv, TypeOK, SocketsTypeOK, BrokerTypeOK, WorkerTypeOK
<1>1. \A v \in Workers : /\ Len(notices[v]) \in Nat /\ Len(tasks[v]) \in Nat
                         /\ Len(notices[v]) = 0 <=> notices[v] = << >>
                         /\ Len(tasks[v]) = 0 <=> tasks[v] = << >>
  BY <1>0
<1>2. /\ \A v \in Workers : Turns(v) = IF wpc[v] = "recv" THEN 1 ELSE 0
      /\ Injective(worker_queue)
      /\ Idle = Elements(worker_queue)
  BY DEF IInv, OneTurnPerWorker, Injective, Idle, Elements
<1>3. /\ Idle' = Elements(worker_queue')
      /\ OneTurnPerWorker' <=>
           /\ \A v \in Workers : Turns(v)' = IF wpc'[v] = "recv" THEN 1 ELSE 0
           /\ Injective(worker_queue')
  BY DEF OneTurnPerWorker, Injective, Idle, Elements
<1>4. ASSUME TurnsKept
      PROVE  OneTurnPerWorker'
  BY <1>2, <1>3, <1>4 DEF TurnsKept, Turns, Queued
<1>5. ASSUME NEW c \in Clients, ClientStep(c) \/ NetworkStep(c)
      PROVE  TurnsKept
  BY <1>5 DEF ClientStep, NetworkStep, Client, ClientSend, ClientReceive, ClientTimeout,
              ReqSend, ReqReceive, Reopen, CloseSocket, ReplaceSocket, Transmit, Refuse,
              brokerVars, workerVars, TurnsKept
<1>6. ASSUME BrokerStep \/ BrokerStop
      PROVE  OneTurnPerWorker'
  <2>1. UNCHANGED wpc
    BY <1>6 DEF BrokerStep, BrokerStop, workerVars
  <2>2. CASE BrokerPoll \/ BrokerDone \/ BrokerInterrupted
    BY <1>4, <2>1, <2>2
    DEF BrokerPoll, BrokerDone, BrokerInterrupted, socketVars, TurnsKept
  <2>3. ASSUME NEW w \in Workers, BackendFrom(w)
        PROVE  OneTurnPerWorker'
    <3>1. /\ notices[w] # << >>
          /\ notices' = [notices EXCEPT ![w] = Tail(notices[w])]
          /\ tasks' = tasks
          /\ worker_queue' = Append(worker_queue, w)
      BY <2>3 DEF BackendFrom, Requeued
    <3>2. Len(notices[w]) = 1 /\ w \notin Idle /\ tasks[w] = << >>
      BY <3>1, OnePlace
    <3>3. wpc[w] = "recv"
      BY <3>1, OnePlace
    <3>4. Len(Tail(notices[w])) = 0
      BY <1>0, <3>1, <3>2, TailFacts
    <3>5. Idle' = Idle \cup {w} /\ Injective(worker_queue')
      BY <1>0, <1>2, <1>3, <3>1, <3>2, AppendFacts
    <3>6. ASSUME NEW v \in Workers
          PROVE  Turns(v)' = IF wpc'[v] = "recv" THEN 1 ELSE 0
      <4>1. CASE v = w
        BY <1>0, <1>1, <2>1, <3>1, <3>2, <3>3, <3>4, <3>5, <4>1 DEF Turns, Queued
      <4>2. CASE v # w
        BY <1>0, <1>2, <2>1, <3>1, <3>5, <4>2 DEF Turns, Queued
      <4>. QED BY <4>1, <4>2
    <3>. QED BY <1>3, <3>5, <3>6
  <2>4. ASSUME NEW c \in Clients, FrontendFrom(c)
        PROVE  OneTurnPerWorker'
    <3>. DEFINE w == Head(worker_queue)
                m == [client |-> ClientId(c), seq |-> Head(requests[c])]
    <3>1. /\ worker_queue # << >>
          /\ notices' = notices
          /\ tasks' = Dispatched(w, m)
          /\ worker_queue' = Tail(worker_queue)
      BY <2>4 DEF FrontendFrom, FrontRemoved, IInv, PollInv
    <3>2. /\ w \in Workers /\ w \in Idle
          /\ Idle' = Idle \ {w} /\ Injective(worker_queue')
      BY <1>0, <1>2, <1>3, <3>1, TailFacts
    <3>3. wpc[w] = "recv" /\ notices[w] = << >> /\ tasks[w] = << >>
      BY <3>2, OnePlace
    <3>4. w \in attached
      BY <3>2, <3>3 DEF IInv, AttachedInv
    <3>5. /\ tasks'[w] = Append(tasks[w], m)
          /\ \A v \in Workers : v # w => tasks'[v] = tasks[v]
      BY <3>1, <3>2, <3>4 DEF Dispatched
    <3>6. Len(tasks'[w]) = 1
      <4>1. Append(<< >>, m) = <<m>>
        OBVIOUS
      <4>2. Len(<<m>>) = 1
        OBVIOUS
      <4>. QED BY <3>3, <3>5, <4>1, <4>2
    <3>. HIDE DEF w, m
    <3>7. ASSUME NEW v \in Workers
          PROVE  Turns(v)' = IF wpc'[v] = "recv" THEN 1 ELSE 0
      <4>1. CASE v = w
        BY <1>0, <1>1, <2>1, <3>1, <3>2, <3>3, <3>4, <3>6, <4>1 DEF Turns, Queued
      <4>2. CASE v # w
        BY <1>0, <1>2, <2>1, <3>1, <3>2, <3>5, <4>2 DEF Turns, Queued
      <4>. QED BY <4>1, <4>2
    <3>. QED BY <1>3, <3>2, <3>7
  <2>. QED BY <1>6, <2>2, <2>3, <2>4 DEF BrokerStep, BrokerStop, Broker
<1>7. ASSUME NEW w \in Workers, WorkerStep(w) \/ Crash(w)
      PROVE  OneTurnPerWorker'
  <2>1. worker_queue' = worker_queue /\ Idle' = Idle
    BY <1>2, <1>3, <1>7 DEF WorkerStep, Crash, brokerVars
  <2>2. ASSUME \A v \in Workers : Turns(v)' = IF wpc'[v] = "recv" THEN 1 ELSE 0
        PROVE  OneTurnPerWorker'
    BY <1>2, <1>3, <2>1, <2>2
  <2>3. \A e : Len(Append(<< >>, e)) = 1
    <3>1. ASSUME NEW e PROVE Append(<< >>, e) = <<e>> /\ Len(<<e>>) = 1
      OBVIOUS
    <3>. QED BY <3>1
  <2>4. ASSUME wpc[w] \in {"start", "busy"}, wpc' = [wpc EXCEPT ![w] = "recv"],
               NEW m, WorkerSend(w, m)
        PROVE  OneTurnPerWorker'
    <3>1. notices[w] = << >> /\ tasks[w] = << >> /\ w \notin Idle
      BY <2>4, OnePlace
    <3>2. Len(notices'[w]) = 1 /\ Len(tasks'[w]) = 0
      BY <1>0, <2>3, <2>4, <3>1 DEF WorkerSend
    <3>3. ASSUME NEW v \in Workers
          PROVE  Turns(v)' = IF wpc'[v] = "recv" THEN 1 ELSE 0
      <4>1. CASE v = w
        <5>1. w \notin Idle' /\ wpc'[w] = "recv"
          BY <1>0, <2>1, <2>4, <3>1
        <5>2. Turns(w)' = 1 + 0 + 0
          BY <3>2, <5>1 DEF Turns, Queued
        <5>. QED BY <4>1, <5>1, <5>2
      <4>2. CASE v # w
        BY <1>0, <1>2, <2>1, <2>4, <4>2 DEF Turns, Queued, WorkerSend
      <4>. QED BY <4>1, <4>2
    <3>. QED BY <2>2, <3>3
  <2>5. CASE WorkerStart(w)
    BY <2>4, <2>5 DEF WorkerStart
  <2>6. CASE WorkerReply(w)
    BY <2>4, <2>6 DEF WorkerReply
  <2>7. CASE WorkerReceive(w)
    <3>1. tasks[w] # << >> /\ wpc[w] = "recv"
      BY <2>7 DEF WorkerReceive
    <3>2. notices[w] = << >> /\ Len(tasks[w]) = 1 /\ w \notin Idle
      BY <3>1, OnePlace
    <3>3. Len(Tail(tasks[w])) = 0
      BY <1>0, <3>1, <3>2, TailFacts
    <3>4. ASSUME NEW v \in Workers
          PROVE  Turns(v)' = IF wpc'[v] = "recv" THEN 1 ELSE 0
      <4>1. CASE v = w
        BY <1>0, <1>1, <2>1, <2>7, <3>2, <3>3, <4>1 DEF Turns, Queued, WorkerReceive
      <4>2. CASE v # w
        BY <1>0, <1>2, <2>1, <2>7, <4>2 DEF Turns, Queued, WorkerReceive
      <4>. QED BY <4>1, <4>2
    <3>. QED BY <2>2, <3>4
  <2>8. CASE WorkerCrash(w)
    <3>1. wpc[w] = "busy"
      BY <2>8 DEF WorkerCrash
    <3>2. notices[w] = << >> /\ tasks[w] = << >> /\ w \notin Idle
      BY <3>1, OnePlace
    <3>3. ASSUME NEW v \in Workers
          PROVE  Turns(v)' = IF wpc'[v] = "recv" THEN 1 ELSE 0
      <4>1. CASE v = w
        BY <1>0, <1>1, <2>1, <2>8, <3>2, <4>1 DEF Turns, Queued, WorkerCrash
      <4>2. CASE v # w
        BY <1>0, <1>2, <2>1, <2>8, <4>2 DEF Turns, Queued, WorkerCrash
      <4>. QED BY <4>1, <4>2
    <3>. QED BY <2>2, <3>3
  <2>. QED BY <1>7, <2>5, <2>6, <2>7, <2>8 DEF WorkerStep, Crash, Worker
<1>. QED BY <1>4, <1>5, <1>6, <1>7 DEF Next

-----------------------------------------------------------------------------
(* The theorems. *)

\* The inductive invariant holds in every state the system reaches.
LEMMA Inductive == Spec => []IInv
<1>1. IInv /\ [Next]_vars => IInv'
  <2>. SUFFICES ASSUME IInv, [Next]_vars PROVE IInv'
    OBVIOUS
  <2>1. CASE Next
    BY <2>1, TypeStep, RetryStep, PollStep, AttachedStep, TurnStep DEF IInv
  <2>2. CASE UNCHANGED vars
    BY <2>2 DEF vars, socketVars, clientVars, brokerVars, workerVars, IInv, TypeOK,
                SocketsTypeOK, ClientTypeOK, BrokerTypeOK, WorkerTypeOK, RetryInv,
                PollInv, AttachedInv, OneTurnPerWorker, Turns, Queued, Idle
  <2>. QED BY <2>1, <2>2
<1>. QED BY InitIInv, <1>1, PTL DEF Spec

\* Type correctness of the whole system.
THEOREM TypeCorrect == Spec => []TypeOK
BY Inductive, PTL DEF IInv

\* A worker never holds two requests and is never forgotten, whatever crashes,
\* retries and closed connections do.
THEOREM WorkersTakeTurns == Spec => []OneTurnPerWorker
BY Inductive, PTL DEF IInv

\* worker_queue.front() and pop_front() are safe, and the worker at the front is
\* waiting for a request.
THEOREM DispatchIsSafe == Spec => []FrontIsIdle
<1>1. IInv => FrontIsIdle
  <2>. SUFFICES ASSUME IInv, bpc = "frontend" PROVE FrontIsIdle
    BY DEF FrontIsIdle
  <2>. DEFINE w == Head(worker_queue)
  <2>1. worker_queue \in Seq(Workers) /\ worker_queue # << >>
    BY DEF IInv, TypeOK, BrokerTypeOK, PollInv
  <2>2. w \in Workers /\ Queued(w)
    BY <2>1, TailFacts DEF Queued, Idle, Elements
  <2>3. wpc[w] = "recv"
    BY <2>2, OnePlace DEF Queued
  <2>4. w \in attached
    BY <2>2, <2>3 DEF IInv, AttachedInv
  <2>. QED BY <2>1, <2>3, <2>4 DEF FrontIsIdle
<1>. QED BY Inductive, <1>1, PTL

-----------------------------------------------------------------------------
(* The copies of a request, place by place.  A place is one of the client's   *)
(* own, one of a worker's, or the set of the busy workers.                    *)

WorkerSpots == {"notices", "tasks"} \X Workers
OtherSpots  == {"outbox", "requests", "replies", "busy"} \X {0}
Spots       == WorkerSpots \cup OtherSpots

InOutbox   == <<"outbox", 0>>
InRequests == <<"requests", 0>>
InReplies  == <<"replies", 0>>
InHand     == <<"busy", 0>>

Asked(c, n) == [client |-> ClientId(c), seq |-> n]

Held == [k \in Clients \X Nat |-> [q \in Spots |->
    IF q[1] = "outbox"        THEN At(outbox[k[1]], k[2])
    ELSE IF q[1] = "requests" THEN At(requests[k[1]], k[2])
    ELSE IF q[1] = "replies"  THEN At(replies[k[1]], k[2])
    ELSE IF q[1] = "notices"  THEN At(notices[q[2]], Asked(k[1], k[2]))
    ELSE IF q[1] = "tasks"    THEN At(tasks[q[2]], Asked(k[1], k[2]))
    ELSE {w \in Workers : wpc[w] = "busy" /\ job[w] = Asked(k[1], k[2])}]]

\* What a place holds, with the place's name, and all the places hold.
Part(q, A) == IF q \in WorkerSpots THEN {q[1]} \X {q[2]} \X A ELSE {q[1]} \X A
Flat(V) == UNION {Part(q, V[q]) : q \in Spots}

LEMMA SpotFacts ==
    /\ InOutbox \in Spots /\ InRequests \in Spots /\ InReplies \in Spots /\ InHand \in Spots
    /\ \A w \in Workers : <<"notices", w>> \in Spots /\ <<"tasks", w>> \in Spots
    /\ InOutbox # InRequests /\ InOutbox # InReplies /\ InRequests # InReplies
    /\ InOutbox # InHand /\ InRequests # InHand /\ InReplies # InHand
    /\ \A w : /\ <<"notices", w>> # <<"tasks", w>>
              /\ <<"notices", w>> # InReplies /\ <<"notices", w>> # InHand
              /\ <<"tasks", w>> # InRequests /\ <<"tasks", w>> # InHand
  BY DEF Spots, WorkerSpots, OtherSpots, InOutbox, InRequests, InReplies, InHand

LEMMA SpotCases ==
    ASSUME NEW q \in Spots
    PROVE  \/ q = InOutbox \/ q = InRequests \/ q = InReplies \/ q = InHand
           \/ \E w \in Workers : q = <<"notices", w>> \/ q = <<"tasks", w>>
  BY DEF Spots, WorkerSpots, OtherSpots, InOutbox, InRequests, InReplies, InHand

LEMMA HeldIs ==
    ASSUME NEW c \in Clients, NEW n \in Nat
    PROVE  LET H == Held[<<c, n>>] IN
             /\ DOMAIN H = Spots /\ H = [q \in Spots |-> H[q]]
             /\ H[InOutbox] = At(outbox[c], n)
             /\ H[InRequests] = At(requests[c], n)
             /\ H[InReplies] = At(replies[c], n)
             /\ H[InHand] = {w \in Workers : wpc[w] = "busy" /\ job[w] = Asked(c, n)}
             /\ \A w \in Workers : /\ H[<<"notices", w>>] = At(notices[w], Asked(c, n))
                                   /\ H[<<"tasks", w>>] = At(tasks[w], Asked(c, n))
<1> DEFINE H == Held[<<c, n>>]
<1>1. H = [q \in Spots |->
             IF q[1] = "outbox"        THEN At(outbox[c], n)
             ELSE IF q[1] = "requests" THEN At(requests[c], n)
             ELSE IF q[1] = "replies"  THEN At(replies[c], n)
             ELSE IF q[1] = "notices"  THEN At(notices[q[2]], Asked(c, n))
             ELSE IF q[1] = "tasks"    THEN At(tasks[q[2]], Asked(c, n))
             ELSE {w \in Workers : wpc[w] = "busy" /\ job[w] = Asked(c, n)}]
  BY DEF Held
<1> HIDE DEF H
<1>2. DOMAIN H = Spots /\ H = [q \in Spots |-> H[q]]
  BY <1>1
<1>3. /\ H[InOutbox] = At(outbox[c], n)
      /\ H[InRequests] = At(requests[c], n)
      /\ H[InReplies] = At(replies[c], n)
      /\ H[InHand] = {w \in Workers : wpc[w] = "busy" /\ job[w] = Asked(c, n)}
  BY <1>1, SpotFacts DEF InOutbox, InRequests, InReplies, InHand
<1>4. ASSUME NEW w \in Workers
      PROVE  /\ H[<<"notices", w>>] = At(notices[w], Asked(c, n))
             /\ H[<<"tasks", w>>] = At(tasks[w], Asked(c, n))
  BY <1>1, SpotFacts
<1> QED
  BY <1>2, <1>3, <1>4 DEF H

LEMMA PartFacts ==
    ASSUME NEW q \in Spots, NEW A
    PROVE  /\ IsFiniteSet(A) <=> IsFiniteSet(Part(q, A))
           /\ IsFiniteSet(A) => Cardinality(Part(q, A)) = Cardinality(A)
           /\ A = {} <=> Part(q, A) = {}
<1> DEFINE f == [a \in A |-> IF q \in WorkerSpots THEN <<q[1], q[2], a>> ELSE <<q[1], a>>]
           g == [x \in Part(q, A) |-> IF q \in WorkerSpots THEN x[3] ELSE x[2]]
<1>0. A = {} <=> Part(q, A) = {}
  <2>1. CASE q \in WorkerSpots
    <3>1. \A a \in A : <<q[1], q[2], a>> \in Part(q, A)
      BY <2>1 DEF Part
    <3>2. \A x \in Part(q, A) : x[3] \in A
      BY <2>1 DEF Part
    <3> QED BY <3>1, <3>2
  <2>2. CASE q \notin WorkerSpots
    <3>1. \A a \in A : <<q[1], a>> \in Part(q, A)
      BY <2>2 DEF Part
    <3>2. \A x \in Part(q, A) : x[2] \in A
      BY <2>2 DEF Part
    <3> QED BY <3>1, <3>2
  <2> QED BY <2>1, <2>2
<1>1. f \in Injection(A, Part(q, A))
  <2>1. f \in [A -> Part(q, A)]
    BY DEF Part
  <2>2. \A a, b \in A : f[a] = f[b] => a = b
    OBVIOUS
  <2> QED BY <2>1, <2>2 DEF Injection, IsInjective
<1>2. g \in Injection(Part(q, A), A)
  <2>1. CASE q \in WorkerSpots
    BY <2>1 DEF Part, Injection, IsInjective
  <2>2. CASE q \notin WorkerSpots
    BY <2>2 DEF Part, Injection, IsInjective
  <2> QED BY <2>1, <2>2
<1> HIDE DEF f, g
<1>3. ASSUME IsFiniteSet(Part(q, A)) PROVE IsFiniteSet(A)
  BY <1>1, <1>3, FS_Injection
<1>4. ASSUME IsFiniteSet(A)
      PROVE  IsFiniteSet(Part(q, A)) /\ Cardinality(Part(q, A)) = Cardinality(A)
  <2>1. IsFiniteSet(Part(q, A)) /\ Cardinality(Part(q, A)) <= Cardinality(A)
    BY <1>2, <1>4, FS_Injection
  <2>2. Cardinality(A) <= Cardinality(Part(q, A))
    BY <1>1, <2>1, FS_Injection
  <2>3. Cardinality(A) \in Nat /\ Cardinality(Part(q, A)) \in Nat
    BY <1>4, <2>1, FS_CardinalityType
  <2> QED BY <2>1, <2>2, <2>3
<1> QED
  BY <1>0, <1>3, <1>4

LEMMA PartsDiffer ==
    ASSUME NEW q \in Spots, NEW r \in Spots, q # r, NEW A, NEW B
    PROVE  Part(q, A) \cap Part(r, B) = {}
<1> SUFFICES ASSUME NEW x \in Part(q, A), x \in Part(r, B) PROVE FALSE
  OBVIOUS
<1>1. x[1] = q[1] /\ x[1] = r[1]
  BY DEF Part
<1>2. CASE q \in WorkerSpots
  <2>1. r \in WorkerSpots
    BY <1>1, <1>2 DEF Spots, WorkerSpots, OtherSpots
  <2>2. x[2] = q[2] /\ x[2] = r[2]
    BY <1>2, <2>1 DEF Part
  <2>3. q = <<q[1], q[2]>> /\ r = <<r[1], r[2]>>
    BY <1>2, <2>1 DEF WorkerSpots
  <2> QED BY <1>1, <2>2, <2>3
<1>3. CASE q \notin WorkerSpots
  <2>1. r \notin WorkerSpots
    BY <1>1, <1>3 DEF Spots, WorkerSpots, OtherSpots
  <2>2. q = <<q[1], 0>> /\ r = <<r[1], 0>>
    BY <1>3, <2>1 DEF Spots, OtherSpots
  <2> QED BY <1>1, <2>2
<1> QED
  BY <1>2, <1>3

\* One place changes.
LEMMA FlatChange ==
    ASSUME NEW V, NEW W, NEW q \in Spots, \A r \in Spots : r # q => W[r] = V[r],
           IsFiniteSet(Flat(V)), IsFiniteSet(V[q]) => IsFiniteSet(W[q])
    PROVE  /\ IsFiniteSet(Flat(W)) /\ IsFiniteSet(V[q]) /\ IsFiniteSet(W[q])
           /\ Cardinality(Flat(W)) = Cardinality(Flat(V)) - Cardinality(V[q]) + Cardinality(W[q])
<1> DEFINE P == Part(q, V[q])
           Q == Part(q, W[q])
           Rest == UNION {Part(r, V[r]) : r \in Spots \ {q}}
<1>0. /\ \A x : x \in Flat(V) <=> \E r \in Spots : x \in Part(r, V[r])
      /\ \A x : x \in Flat(W) <=> \E r \in Spots : x \in Part(r, W[r])
      /\ \A x : x \in Rest <=> \E r \in Spots : r # q /\ x \in Part(r, V[r])
  BY DEF Flat
<1>1. Flat(V) = Rest \cup P
  <2>1. \A x : x \in Flat(V) <=> x \in Rest \/ x \in P
    BY <1>0
  <2> QED BY <2>1
<1>2. Flat(W) = Rest \cup Q
  <2>1. \A r \in Spots : r # q => Part(r, W[r]) = Part(r, V[r])
    OBVIOUS
  <2>2. \A x : x \in Flat(W) <=> x \in Rest \/ x \in Q
    BY <1>0, <2>1
  <2> QED BY <2>2
<1>3. Rest \cap P = {} /\ Rest \cap Q = {}
  <2>1. \A r \in Spots \ {q} : Part(r, V[r]) \cap P = {} /\ Part(r, V[r]) \cap Q = {}
    BY PartsDiffer
  <2> QED BY <2>1
<1> HIDE DEF P, Q, Rest
<1>4. IsFiniteSet(Rest) /\ IsFiniteSet(P)
  BY <1>1, FS_Subset
<1>5. IsFiniteSet(V[q]) /\ IsFiniteSet(W[q]) /\ IsFiniteSet(Q)
  BY <1>4, PartFacts DEF P, Q
<1>6. Cardinality(P) = Cardinality(V[q]) /\ Cardinality(Q) = Cardinality(W[q])
  BY <1>5, PartFacts DEF P, Q
<1>7. /\ Cardinality(Rest) \in Nat /\ Cardinality(P) \in Nat /\ Cardinality(Q) \in Nat
  BY <1>4, <1>5, FS_CardinalityType
<1>8. /\ Cardinality(Rest \cup P) = Cardinality(Rest) + Cardinality(P)
      /\ Cardinality(Rest \cup Q) = Cardinality(Rest) + Cardinality(Q)
      /\ IsFiniteSet(Rest \cup Q)
  <2>1. /\ Cardinality(Rest \cup P) = Cardinality(Rest) + Cardinality(P) - Cardinality(Rest \cap P)
        /\ Cardinality(Rest \cup Q) = Cardinality(Rest) + Cardinality(Q) - Cardinality(Rest \cap Q)
        /\ IsFiniteSet(Rest \cup Q)
    BY <1>4, <1>5, FS_Union
  <2>2. Cardinality(Rest \cap P) = 0 /\ Cardinality(Rest \cap Q) = 0
    BY <1>3, FS_EmptySet
  <2> QED BY <1>7, <2>1, <2>2
<1> QED
  BY <1>1, <1>2, <1>5, <1>6, <1>7, <1>8

\* Two places change.
LEMMA FlatChanges ==
    ASSUME NEW V, V = [r \in Spots |-> V[r]], NEW W, NEW q \in Spots, NEW p \in Spots, q # p,
           \A r \in Spots : r # q /\ r # p => W[r] = V[r],
           IsFiniteSet(Flat(V)),
           IsFiniteSet(V[q]) => IsFiniteSet(W[q]), IsFiniteSet(V[p]) => IsFiniteSet(W[p])
    PROVE  /\ IsFiniteSet(Flat(W))
           /\ IsFiniteSet(V[q]) /\ IsFiniteSet(W[q]) /\ IsFiniteSet(V[p]) /\ IsFiniteSet(W[p])
           /\ Cardinality(Flat(W)) = Cardinality(Flat(V)) - Cardinality(V[q]) + Cardinality(W[q])
                                                        - Cardinality(V[p]) + Cardinality(W[p])
<1> DEFINE U == [V EXCEPT ![q] = W[q]]
<1>1. U[q] = W[q] /\ U[p] = V[p] /\ \A r \in Spots : r # q => U[r] = V[r]
  OBVIOUS
<1> HIDE DEF U
<1>2. /\ IsFiniteSet(Flat(U)) /\ IsFiniteSet(V[q]) /\ IsFiniteSet(W[q])
      /\ Cardinality(Flat(U)) = Cardinality(Flat(V)) - Cardinality(V[q]) + Cardinality(W[q])
  BY <1>1, FlatChange
<1>3. \A r \in Spots : r # p => W[r] = U[r]
  BY <1>1
<1>4. /\ IsFiniteSet(Flat(W)) /\ IsFiniteSet(U[p]) /\ IsFiniteSet(W[p])
      /\ Cardinality(Flat(W)) = Cardinality(Flat(U)) - Cardinality(U[p]) + Cardinality(W[p])
  BY <1>1, <1>2, <1>3, FlatChange
<1>5. /\ IsFiniteSet(V[p])
      /\ Cardinality(Flat(V)) \in Nat /\ Cardinality(V[q]) \in Nat
      /\ Cardinality(W[q]) \in Nat /\ Cardinality(V[p]) \in Nat /\ Cardinality(W[p]) \in Nat
  BY <1>1, <1>2, <1>4, FS_CardinalityType
<1>6. Cardinality(U[p]) = Cardinality(V[p])
  BY <1>1
<1> QED
  BY <1>2, <1>4, <1>5, <1>6

LEMMA CopiesAre ==
    ASSUME NEW c \in Clients, NEW n \in Nat
    PROVE  Copies(c, n) = Cardinality(Flat(Held[<<c, n>>]))
<1> DEFINE H == Held[<<c, n>>]
           t == Asked(c, n)
           Busy == {w \in Workers : wpc[w] = "busy" /\ job[w] = t}
           All == ({"outbox"} \X At(outbox[c], n)) \cup ({"requests"} \X At(requests[c], n))
                    \cup ({"replies"} \X At(replies[c], n))
                    \cup (UNION {{"notices"} \X {w} \X At(notices[w], t) : w \in Workers})
                    \cup (UNION {{"tasks"} \X {w} \X At(tasks[w], t) : w \in Workers})
                    \cup ({"busy"} \X Busy)
<1>1. Copies(c, n) = Cardinality(All)
  BY DEF Copies, Asked
<1>2. /\ Part(InOutbox, H[InOutbox]) = {"outbox"} \X At(outbox[c], n)
      /\ Part(InRequests, H[InRequests]) = {"requests"} \X At(requests[c], n)
      /\ Part(InReplies, H[InReplies]) = {"replies"} \X At(replies[c], n)
      /\ Part(InHand, H[InHand]) = {"busy"} \X Busy
  <2>1. \A q \in {InOutbox, InRequests, InReplies, InHand} : q \notin WorkerSpots
    BY DEF WorkerSpots, InOutbox, InRequests, InReplies, InHand
  <2>2. /\ InOutbox[1] = "outbox" /\ InRequests[1] = "requests"
        /\ InReplies[1] = "replies" /\ InHand[1] = "busy"
    BY DEF InOutbox, InRequests, InReplies, InHand
  <2> QED BY <2>1, <2>2, HeldIs DEF Part
<1>3. ASSUME NEW w \in Workers
      PROVE  /\ Part(<<"notices", w>>, H[<<"notices", w>>]) = {"notices"} \X {w} \X At(notices[w], t)
             /\ Part(<<"tasks", w>>, H[<<"tasks", w>>]) = {"tasks"} \X {w} \X At(tasks[w], t)
  <2>1. <<"notices", w>> \in WorkerSpots /\ <<"tasks", w>> \in WorkerSpots
    BY DEF WorkerSpots
  <2>2. /\ H[<<"notices", w>>] = At(notices[w], t) /\ H[<<"tasks", w>>] = At(tasks[w], t)
    BY HeldIs
  <2> QED BY <2>1, <2>2 DEF Part
<1>4. \A x : x \in Flat(H) <=> \E q \in Spots : x \in Part(q, H[q])
  BY DEF Flat
<1> HIDE DEF H, t, Busy
<1>5. ASSUME NEW x PROVE x \in Flat(H) => x \in All
  <2> SUFFICES ASSUME NEW q \in Spots, x \in Part(q, H[q]) PROVE x \in All
    BY <1>4
  <2>1. CASE q = InOutbox \/ q = InRequests \/ q = InReplies \/ q = InHand
    BY <1>2, <2>1
  <2>2. ASSUME NEW w \in Workers, q = <<"notices", w>> \/ q = <<"tasks", w>>
        PROVE  x \in All
    BY <1>3, <2>2
  <2> QED BY <2>1, <2>2, SpotCases
<1>6. ASSUME NEW x, x \in All PROVE x \in Flat(H)
  <2>1. CASE \/ x \in {"outbox"} \X At(outbox[c], n)
             \/ x \in {"requests"} \X At(requests[c], n)
             \/ x \in {"replies"} \X At(replies[c], n)
             \/ x \in {"busy"} \X {w \in Workers : wpc[w] = "busy" /\ job[w] = Asked(c, n)}
    <3> DEFINE S == {InOutbox, InRequests, InReplies, InHand}
    <3>1. \E q \in S : x \in Part(q, H[q])
      BY <1>2, <2>1 DEF Busy, t
    <3>2. S \subseteq Spots
      BY SpotFacts
    <3> QED BY <1>4, <3>1, <3>2
  <2>2. ASSUME NEW w \in Workers, \/ x \in {"notices"} \X {w} \X At(notices[w], t)
                                  \/ x \in {"tasks"} \X {w} \X At(tasks[w], t)
        PROVE  x \in Flat(H)
    <3>1. x \in Part(<<"notices", w>>, H[<<"notices", w>>]) \/ x \in Part(<<"tasks", w>>, H[<<"tasks", w>>])
      BY <1>3, <2>2
    <3>2. <<"notices", w>> \in Spots /\ <<"tasks", w>> \in Spots
      BY SpotFacts
    <3> QED BY <1>4, <3>1, <3>2
  <2> QED BY <1>6, <2>1, <2>2 DEF Busy, t
<1> QED
  BY <1>1, <1>5, <1>6 DEF H

-----------------------------------------------------------------------------
(* How many copies there are, and how a step changes that.                    *)

HeldShape ==
    \A c \in Clients, n \in Nat :
        /\ Held[<<c, n>>][InOutbox] = At(outbox[c], n)
        /\ Held[<<c, n>>][InRequests] = At(requests[c], n)
        /\ Held[<<c, n>>][InReplies] = At(replies[c], n)
        /\ Held[<<c, n>>][InHand] = {w \in Workers : wpc[w] = "busy" /\ job[w] = Asked(c, n)}
        /\ \A w \in Workers : /\ Held[<<c, n>>][<<"notices", w>>] = At(notices[w], Asked(c, n))
                              /\ Held[<<c, n>>][<<"tasks", w>>] = At(tasks[w], Asked(c, n))

LEMMA ShapeIs == HeldShape
  BY HeldIs DEF HeldShape

\* The same in the next state.
LEMMA ShapeNext ==
    ASSUME NEW c \in Clients, NEW n \in Nat
    PROVE  /\ Held'[<<c, n>>][InOutbox] = At(outbox'[c], n)
           /\ Held'[<<c, n>>][InRequests] = At(requests'[c], n)
           /\ Held'[<<c, n>>][InReplies] = At(replies'[c], n)
           /\ Held'[<<c, n>>][InHand] = {w \in Workers : wpc'[w] = "busy" /\ job'[w] = Asked(c, n)}
           /\ \A w \in Workers : /\ Held'[<<c, n>>][<<"notices", w>>] = At(notices'[w], Asked(c, n))
                                 /\ Held'[<<c, n>>][<<"tasks", w>>] = At(tasks'[w], Asked(c, n))
<1>1. HeldShape'
  BY ShapeIs, PTL
<1> QED
  BY <1>1 DEF HeldShape, InOutbox, InRequests, InReplies, InHand, Asked, ClientId, At

Size == [k \in Clients \X Nat |-> Cardinality(Flat(Held[k]))]

Finite == \A k \in Clients \X Nat : IsFiniteSet(Flat(Held[k]))

\* The places of a value in a sequence.
LEMMA AtFacts ==
    ASSUME NEW S, NEW s \in Seq(S), NEW x
    PROVE  /\ IsFiniteSet(At(s, x)) /\ Cardinality(At(s, x)) \in Nat
           /\ s = << >> => At(s, x) = {} /\ Cardinality(At(s, x)) = 0
<1>1. At(s, x) = Places(s, {x})
  BY DEF At, Places
<1> QED
  BY <1>1, PlacesFinite, FS_CardinalityType, FS_EmptySet

LEMMA AtEmpty == ASSUME NEW x PROVE At(<< >>, x) = {} /\ Cardinality(At(<< >>, x)) = 0
  BY FS_EmptySet DEF At

LEMMA AtAppend ==
    ASSUME NEW S, NEW s \in Seq(S), NEW e \in S, NEW x
    PROVE  /\ Append(s, e) \in Seq(S) /\ IsFiniteSet(At(Append(s, e), x))
           /\ Cardinality(At(Append(s, e), x)) = Cardinality(At(s, x)) + (IF e = x THEN 1 ELSE 0)
<1>1. At(s, x) = Places(s, {x}) /\ At(Append(s, e), x) = Places(Append(s, e), {x})
  BY DEF At, Places
<1>2. Append(s, e) \in Seq(S)
  BY AppendFacts
<1>3. IsFiniteSet(At(Append(s, e), x))
  BY <1>2, AtFacts
<1>4. Cardinality(Places(Append(s, e), {x}))
        = Cardinality(Places(s, {x})) + (IF e \in {x} THEN 1 ELSE 0)
  BY AppendCounts
<1>5. e \in {x} <=> e = x
  OBVIOUS
<1> QED
  BY <1>1, <1>2, <1>3, <1>4, <1>5

LEMMA AtTail ==
    ASSUME NEW S, NEW s \in Seq(S), s # << >>, NEW x
    PROVE  /\ Tail(s) \in Seq(S) /\ IsFiniteSet(At(Tail(s), x))
           /\ Cardinality(At(Tail(s), x)) = Cardinality(At(s, x)) - (IF Head(s) = x THEN 1 ELSE 0)
<1>1. At(s, x) = Places(s, {x}) /\ At(Tail(s), x) = Places(Tail(s), {x})
  BY DEF At, Places
<1>2. Tail(s) \in Seq(S)
  BY TailFacts
<1>3. IsFiniteSet(At(Tail(s), x))
  BY <1>2, AtFacts
<1>4. Cardinality(Places(Tail(s), {x}))
        = Cardinality(Places(s, {x})) - (IF Head(s) \in {x} THEN 1 ELSE 0)
  BY TailCounts
<1>5. Head(s) \in {x} <=> Head(s) = x
  OBVIOUS
<1> QED
  BY <1>1, <1>2, <1>3, <1>4, <1>5

\* Every place but two holds what it held.
Elsewhere(c, n, q, p) ==
    /\ q = InOutbox \/ p = InOutbox \/ outbox'[c] = outbox[c]
    /\ q = InRequests \/ p = InRequests \/ requests'[c] = requests[c]
    /\ q = InReplies \/ p = InReplies \/ replies'[c] = replies[c]
    /\ q = InHand \/ p = InHand \/ UNCHANGED <<wpc, job>>
    /\ \A w \in Workers :
         /\ q = <<"notices", w>> \/ p = <<"notices", w>> \/ notices'[w] = notices[w]
         /\ q = <<"tasks", w>> \/ p = <<"tasks", w>> \/ tasks'[w] = tasks[w]

LEMMA SameBut ==
    ASSUME NEW c \in Clients, NEW n \in Nat, NEW q, NEW p, Elsewhere(c, n, q, p)
    PROVE  \A r \in Spots : r # q /\ r # p => Held'[<<c, n>>][r] = Held[<<c, n>>][r]
<1> USE DEF Elsewhere
<1> SUFFICES ASSUME NEW r \in Spots, r # q, r # p PROVE Held'[<<c, n>>][r] = Held[<<c, n>>][r]
  OBVIOUS
<1>1. CASE r = InOutbox
  BY <1>1, ShapeIs, ShapeNext DEF HeldShape
<1>2. CASE r = InRequests
  BY <1>2, ShapeIs, ShapeNext DEF HeldShape
<1>3. CASE r = InReplies
  BY <1>3, ShapeIs, ShapeNext DEF HeldShape
<1>4. CASE r = InHand
  <2>1. Held[<<c, n>>][InHand] = {w \in Workers : wpc[w] = "busy" /\ job[w] = Asked(c, n)}
    BY ShapeIs DEF HeldShape
  <2>2. Held'[<<c, n>>][InHand] = {w \in Workers : wpc'[w] = "busy" /\ job'[w] = Asked(c, n)}
    BY ShapeNext
  <2>3. UNCHANGED <<wpc, job>>
    BY <1>4
  <2> QED BY <1>4, <2>1, <2>2, <2>3
<1>5. ASSUME NEW w \in Workers, r = <<"notices", w>>
      PROVE  Held'[<<c, n>>][r] = Held[<<c, n>>][r]
  <2>1. At(notices'[w], Asked(c, n)) = At(notices[w], Asked(c, n))
    BY <1>5
  <2>2. Held[<<c, n>>][<<"notices", w>>] = At(notices[w], Asked(c, n))
    BY ShapeIs DEF HeldShape
  <2>3. Held'[<<c, n>>][<<"notices", w>>] = At(notices'[w], Asked(c, n))
    BY ShapeNext
  <2> QED BY <1>5, <2>1, <2>2, <2>3
<1>6. ASSUME NEW w \in Workers, r = <<"tasks", w>>
      PROVE  Held'[<<c, n>>][r] = Held[<<c, n>>][r]
  <2>1. At(tasks'[w], Asked(c, n)) = At(tasks[w], Asked(c, n))
    BY <1>6
  <2>2. Held[<<c, n>>][<<"tasks", w>>] = At(tasks[w], Asked(c, n))
    BY ShapeIs DEF HeldShape
  <2>3. Held'[<<c, n>>][<<"tasks", w>>] = At(tasks'[w], Asked(c, n))
    BY ShapeNext
  <2> QED BY <1>6, <2>1, <2>2, <2>3
<1> QED
  BY <1>1, <1>2, <1>3, <1>4, <1>5, <1>6, SpotCases

LEMMA Changes ==
    ASSUME Finite, NEW k \in Clients \X Nat, NEW q \in Spots, NEW p \in Spots, q # p,
           \A r \in Spots : r # q /\ r # p => Held'[k][r] = Held[k][r],
           IsFiniteSet(Held[k][q]) => IsFiniteSet(Held'[k][q]),
           IsFiniteSet(Held[k][p]) => IsFiniteSet(Held'[k][p])
    PROVE  /\ IsFiniteSet(Flat(Held'[k])) /\ Size[k] \in Nat /\ Size'[k] \in Nat
           /\ IsFiniteSet(Held[k][q]) /\ Cardinality(Held[k][q]) \in Nat
           /\ Cardinality(Held'[k][q]) \in Nat
           /\ IsFiniteSet(Held[k][p]) /\ Cardinality(Held[k][p]) \in Nat
           /\ Cardinality(Held'[k][p]) \in Nat
           /\ Size'[k] = Size[k] - Cardinality(Held[k][q]) + Cardinality(Held'[k][q])
                                 - Cardinality(Held[k][p]) + Cardinality(Held'[k][p])
<1>1. Held[k] = [r \in Spots |-> Held[k][r]]
  BY DEF Held
<1>2. IsFiniteSet(Flat(Held[k]))
  BY DEF Finite
<1> DEFINE V == Held[k]
           W == Held'[k]
<1> HIDE DEF V, W
<1>3. /\ IsFiniteSet(Flat(W))
      /\ IsFiniteSet(V[q]) /\ IsFiniteSet(W[q]) /\ IsFiniteSet(V[p]) /\ IsFiniteSet(W[p])
      /\ Cardinality(Flat(W)) = Cardinality(Flat(V)) - Cardinality(V[q]) + Cardinality(W[q])
                                                   - Cardinality(V[p]) + Cardinality(W[p])
  <2>1. V = [r \in Spots |-> V[r]] /\ IsFiniteSet(Flat(V))
    BY <1>1, <1>2 DEF V
  <2>2. \A r \in Spots : r # q /\ r # p => W[r] = V[r]
    BY DEF V, W
  <2>3. (IsFiniteSet(V[q]) => IsFiniteSet(W[q])) /\ (IsFiniteSet(V[p]) => IsFiniteSet(W[p]))
    BY DEF V, W
  <2> QED BY <2>1, <2>2, <2>3, FlatChanges
<1>4. /\ Size[k] = Cardinality(Flat(V)) /\ Size'[k] = Cardinality(Flat(W))
  BY DEF Size, V, W
<1>5. /\ Cardinality(Flat(V)) \in Nat /\ Cardinality(Flat(W)) \in Nat
      /\ Cardinality(V[q]) \in Nat /\ Cardinality(V[p]) \in Nat
      /\ Cardinality(W[q]) \in Nat /\ Cardinality(W[p]) \in Nat
  BY <1>2, <1>3, FS_CardinalityType DEF V
<1> QED
  BY <1>3, <1>4, <1>5 DEF V, W

\* The copies of a request are counted before and after a step.
Counted(c, n) == /\ IsFiniteSet(Flat(Held'[<<c, n>>]))
                 /\ Size[<<c, n>>] \in Nat /\ Size'[<<c, n>>] \in Nat

\* A step that moves what the client's two queues hold.
LEMMA ClientMoves ==
    ASSUME Finite, TypeOK, TypeOK', NEW c \in Clients, NEW n \in Nat,
           UNCHANGED <<requests, notices, tasks, wpc, job>>
    PROVE  /\ Counted(c, n)
           /\ Size'[<<c, n>>] = Size[<<c, n>>]
                - Cardinality(At(outbox[c], n)) + Cardinality(At(outbox'[c], n))
                - Cardinality(At(replies[c], n)) + Cardinality(At(replies'[c], n))
<1>1. \A r \in Spots : r # InOutbox /\ r # InReplies => Held'[<<c, n>>][r] = Held[<<c, n>>][r]
  <2>1. Elsewhere(c, n, InOutbox, InReplies)
    BY DEF Elsewhere
  <2> QED BY <2>1, SameBut
<1>2. /\ outbox[c] \in Seq(Nat) /\ outbox'[c] \in Seq(Nat)
      /\ replies[c] \in Seq(Nat) /\ replies'[c] \in Seq(Nat)
  BY DEF TypeOK, SocketsTypeOK
<1>3. /\ Held[<<c, n>>][InOutbox] = At(outbox[c], n)
      /\ Held'[<<c, n>>][InOutbox] = At(outbox'[c], n)
      /\ Held[<<c, n>>][InReplies] = At(replies[c], n)
      /\ Held'[<<c, n>>][InReplies] = At(replies'[c], n)
  BY ShapeIs, ShapeNext DEF HeldShape
<1>4. IsFiniteSet(At(outbox'[c], n)) /\ IsFiniteSet(At(replies'[c], n))
  BY <1>2, AtFacts
<1> DEFINE k == <<c, n>>
<1>5. k \in Clients \X Nat /\ InOutbox \in Spots /\ InReplies \in Spots /\ InOutbox # InReplies
  BY SpotFacts
<1>6. /\ IsFiniteSet(Flat(Held'[k])) /\ Size[k] \in Nat /\ Size'[k] \in Nat
      /\ Size'[k] = Size[k] - Cardinality(Held[k][InOutbox]) + Cardinality(Held'[k][InOutbox])
                            - Cardinality(Held[k][InReplies]) + Cardinality(Held'[k][InReplies])
  BY <1>1, <1>3, <1>4, <1>5, Changes
<1> QED
  BY <1>3, <1>6 DEF Counted

LEMMA RequestMoves ==
    ASSUME Finite, TypeOK, TypeOK', NEW c \in Clients, NEW n \in Nat,
           UNCHANGED <<replies, notices, tasks, wpc, job>>
    PROVE  /\ Counted(c, n)
           /\ Size'[<<c, n>>] = Size[<<c, n>>]
                - Cardinality(At(outbox[c], n)) + Cardinality(At(outbox'[c], n))
                - Cardinality(At(requests[c], n)) + Cardinality(At(requests'[c], n))
<1>1. \A r \in Spots : r # InOutbox /\ r # InRequests => Held'[<<c, n>>][r] = Held[<<c, n>>][r]
  <2>1. Elsewhere(c, n, InOutbox, InRequests)
    BY DEF Elsewhere
  <2> QED BY <2>1, SameBut
<1>2. /\ outbox[c] \in Seq(Nat) /\ outbox'[c] \in Seq(Nat)
      /\ requests[c] \in Seq(Nat) /\ requests'[c] \in Seq(Nat)
  BY DEF TypeOK, SocketsTypeOK
<1>3. /\ Held[<<c, n>>][InOutbox] = At(outbox[c], n)
      /\ Held'[<<c, n>>][InOutbox] = At(outbox'[c], n)
      /\ Held[<<c, n>>][InRequests] = At(requests[c], n)
      /\ Held'[<<c, n>>][InRequests] = At(requests'[c], n)
  BY ShapeIs, ShapeNext DEF HeldShape
<1>4. IsFiniteSet(At(outbox'[c], n)) /\ IsFiniteSet(At(requests'[c], n))
  BY <1>2, AtFacts
<1> DEFINE k == <<c, n>>
<1>5. k \in Clients \X Nat /\ InOutbox \in Spots /\ InRequests \in Spots /\ InOutbox # InRequests
  BY SpotFacts
<1>6. /\ IsFiniteSet(Flat(Held'[k])) /\ Size[k] \in Nat /\ Size'[k] \in Nat
      /\ Size'[k] = Size[k] - Cardinality(Held[k][InOutbox]) + Cardinality(Held'[k][InOutbox])
                            - Cardinality(Held[k][InRequests]) + Cardinality(Held'[k][InRequests])
  BY <1>1, <1>3, <1>4, <1>5, Changes
<1> QED
  BY <1>3, <1>6 DEF Counted

LEMMA NoticeMoves ==
    ASSUME Finite, TypeOK, TypeOK', NEW c \in Clients, NEW n \in Nat, NEW w \in Workers,
           UNCHANGED <<outbox, requests, tasks, wpc, job>>,
           \A v \in Workers : v # w => notices'[v] = notices[v]
    PROVE  /\ Counted(c, n)
           /\ Size'[<<c, n>>] = Size[<<c, n>>]
                - Cardinality(At(notices[w], Asked(c, n))) + Cardinality(At(notices'[w], Asked(c, n)))
                - Cardinality(At(replies[c], n)) + Cardinality(At(replies'[c], n))
<1> DEFINE k == <<c, n>>
           q == <<"notices", w>>
<1>1. \A r \in Spots : r # q /\ r # InReplies => Held'[k][r] = Held[k][r]
  <2>1. Elsewhere(c, n, q, InReplies)
    BY DEF Elsewhere
  <2> QED BY <2>1, SameBut
<1>2. /\ notices[w] \in Seq(Task \cup {Ready}) /\ notices'[w] \in Seq(Task \cup {Ready})
      /\ replies[c] \in Seq(Nat) /\ replies'[c] \in Seq(Nat)
  BY DEF TypeOK, SocketsTypeOK, Task, Ready, ClientIds
<1>3. /\ Held[k][q] = At(notices[w], Asked(c, n))
      /\ Held'[k][q] = At(notices'[w], Asked(c, n))
      /\ Held[k][InReplies] = At(replies[c], n)
      /\ Held'[k][InReplies] = At(replies'[c], n)
  <2>1. Held[k][q] = At(notices[w], Asked(c, n)) /\ Held[k][InReplies] = At(replies[c], n)
    BY ShapeIs DEF HeldShape
  <2>2. Held'[k][q] = At(notices'[w], Asked(c, n)) /\ Held'[k][InReplies] = At(replies'[c], n)
    BY ShapeNext
  <2> QED BY <2>1, <2>2
<1>4. IsFiniteSet(At(notices'[w], Asked(c, n))) /\ IsFiniteSet(At(replies'[c], n))
  BY <1>2, AtFacts
<1>5. k \in Clients \X Nat /\ q \in Spots /\ InReplies \in Spots /\ q # InReplies
  BY SpotFacts
<1> HIDE DEF q
<1>6. /\ IsFiniteSet(Flat(Held'[k])) /\ Size[k] \in Nat /\ Size'[k] \in Nat
      /\ Size'[k] = Size[k] - Cardinality(Held[k][q]) + Cardinality(Held'[k][q])
                            - Cardinality(Held[k][InReplies]) + Cardinality(Held'[k][InReplies])
  BY <1>1, <1>3, <1>4, <1>5, Changes
<1> QED
  BY <1>3, <1>6 DEF Counted

LEMMA TaskMoves ==
    ASSUME Finite, TypeOK, TypeOK', NEW c \in Clients, NEW n \in Nat, NEW w \in Workers,
           UNCHANGED <<outbox, replies, notices, wpc, job>>,
           \A v \in Workers : v # w => tasks'[v] = tasks[v]
    PROVE  /\ Counted(c, n)
           /\ Size'[<<c, n>>] = Size[<<c, n>>]
                - Cardinality(At(requests[c], n)) + Cardinality(At(requests'[c], n))
                - Cardinality(At(tasks[w], Asked(c, n))) + Cardinality(At(tasks'[w], Asked(c, n)))
<1> DEFINE k == <<c, n>>
           p == <<"tasks", w>>
<1>1. \A r \in Spots : r # InRequests /\ r # p => Held'[k][r] = Held[k][r]
  <2>1. Elsewhere(c, n, InRequests, p)
    BY DEF Elsewhere
  <2> QED BY <2>1, SameBut
<1>2. /\ tasks[w] \in Seq(Task) /\ tasks'[w] \in Seq(Task)
      /\ requests[c] \in Seq(Nat) /\ requests'[c] \in Seq(Nat)
  BY DEF TypeOK, SocketsTypeOK, Task, ClientIds
<1>3. /\ Held[k][p] = At(tasks[w], Asked(c, n))
      /\ Held'[k][p] = At(tasks'[w], Asked(c, n))
      /\ Held[k][InRequests] = At(requests[c], n)
      /\ Held'[k][InRequests] = At(requests'[c], n)
  <2>1. Held[k][p] = At(tasks[w], Asked(c, n)) /\ Held[k][InRequests] = At(requests[c], n)
    BY ShapeIs DEF HeldShape
  <2>2. Held'[k][p] = At(tasks'[w], Asked(c, n)) /\ Held'[k][InRequests] = At(requests'[c], n)
    BY ShapeNext
  <2> QED BY <2>1, <2>2
<1>4. IsFiniteSet(At(tasks'[w], Asked(c, n))) /\ IsFiniteSet(At(requests'[c], n))
  BY <1>2, AtFacts
<1>5. k \in Clients \X Nat /\ p \in Spots /\ InRequests \in Spots /\ InRequests # p
  BY SpotFacts
<1> HIDE DEF p
<1>6. /\ IsFiniteSet(Flat(Held'[k])) /\ Size[k] \in Nat /\ Size'[k] \in Nat
      /\ Size'[k] = Size[k] - Cardinality(Held[k][InRequests]) + Cardinality(Held'[k][InRequests])
                            - Cardinality(Held[k][p]) + Cardinality(Held'[k][p])
  BY <1>1, <1>3, <1>4, <1>5, Changes
<1> QED
  BY <1>3, <1>6 DEF Counted

LEMMA HandMoves ==
    ASSUME Finite, TypeOK, TypeOK', NEW c \in Clients, NEW n \in Nat, NEW w \in Workers,
           UNCHANGED <<outbox, requests, replies>>,
           NEW s, NEW t,
           \/ s = notices[w] /\ t = notices'[w] /\ tasks' = tasks
           \/ s = tasks[w] /\ t = tasks'[w] /\ notices' = notices,
           \A v \in Workers : v # w => /\ notices'[v] = notices[v] /\ tasks'[v] = tasks[v]
                                       /\ wpc'[v] = wpc[v] /\ job'[v] = job[v]
    PROVE  /\ Counted(c, n)
           /\ Cardinality(At(s, Asked(c, n))) \in Nat /\ Cardinality(At(t, Asked(c, n))) \in Nat
           /\ Size'[<<c, n>>] = Size[<<c, n>>]
                - Cardinality(At(s, Asked(c, n))) + Cardinality(At(t, Asked(c, n)))
                - (IF wpc[w] = "busy" /\ job[w] = Asked(c, n) THEN 1 ELSE 0)
                + (IF wpc'[w] = "busy" /\ job'[w] = Asked(c, n) THEN 1 ELSE 0)
<1>0. PICK q : \/ q = <<"notices", w>> /\ s = notices[w] /\ t = notices'[w] /\ tasks' = tasks
               \/ q = <<"tasks", w>> /\ s = tasks[w] /\ t = tasks'[w] /\ notices' = notices
  OBVIOUS
<1> DEFINE k == <<c, n>>
           A == {v \in Workers : wpc[v] = "busy" /\ job[v] = Asked(c, n)}
           B == {v \in Workers : wpc'[v] = "busy" /\ job'[v] = Asked(c, n)}
<1>1. \A r \in Spots : r # q /\ r # InHand => Held'[k][r] = Held[k][r]
  <2>1. Elsewhere(c, n, q, InHand)
    BY <1>0 DEF Elsewhere
  <2> QED BY <2>1, SameBut
<1>2. s \in Seq(Task \cup {Ready}) /\ t \in Seq(Task \cup {Ready})
  <2>1. /\ notices[w] \in Seq(Task \cup {Ready}) /\ notices'[w] \in Seq(Task \cup {Ready})
        /\ tasks[w] \in Seq(Task) /\ tasks'[w] \in Seq(Task)
    BY DEF TypeOK, SocketsTypeOK, Task, Ready, ClientIds
  <2>2. Seq(Task) \subseteq Seq(Task \cup {Ready})
    OBVIOUS
  <2> QED BY <1>0, <2>1, <2>2
<1>3. /\ Held[k][q] = At(s, Asked(c, n)) /\ Held'[k][q] = At(t, Asked(c, n))
      /\ Held[k][InHand] = A /\ Held'[k][InHand] = B
  <2>1. Held[k][InHand] = A /\ Held'[k][InHand] = B
    BY ShapeIs, ShapeNext DEF HeldShape
  <2>2. /\ Held[k][<<"notices", w>>] = At(notices[w], Asked(c, n))
        /\ Held'[k][<<"notices", w>>] = At(notices'[w], Asked(c, n))
        /\ Held[k][<<"tasks", w>>] = At(tasks[w], Asked(c, n))
        /\ Held'[k][<<"tasks", w>>] = At(tasks'[w], Asked(c, n))
    BY ShapeIs, ShapeNext DEF HeldShape
  <2> QED BY <1>0, <2>1, <2>2
<1>4. /\ IsFiniteSet(At(t, Asked(c, n)))
      /\ Cardinality(At(s, Asked(c, n))) \in Nat /\ Cardinality(At(t, Asked(c, n))) \in Nat
  BY <1>2, AtFacts
<1>5. k \in Clients \X Nat /\ q \in Spots /\ InHand \in Spots /\ q # InHand
  BY <1>0, SpotFacts
<1>6. A \ {w} = B \ {w}
  OBVIOUS
<1>7. /\ w \in A <=> wpc[w] = "busy" /\ job[w] = Asked(c, n)
      /\ w \in B <=> wpc'[w] = "busy" /\ job'[w] = Asked(c, n)
  OBVIOUS
<1> HIDE DEF A, B
<1>8. ASSUME IsFiniteSet(A) PROVE IsFiniteSet(B)
  <2>1. B \subseteq A \cup {w}
    BY <1>6
  <2> QED BY <1>8, <2>1, FS_AddElement, FS_Subset
<1>9. /\ IsFiniteSet(Flat(Held'[k])) /\ Size[k] \in Nat /\ Size'[k] \in Nat /\ IsFiniteSet(A)
      /\ Size'[k] = Size[k] - Cardinality(Held[k][q]) + Cardinality(Held'[k][q])
                            - Cardinality(A) + Cardinality(B)
  BY <1>1, <1>3, <1>4, <1>5, <1>8, Changes
<1>10. /\ Cardinality(A) = Cardinality(A \ {w}) + (IF w \in A THEN 1 ELSE 0)
       /\ Cardinality(B) = Cardinality(A \ {w}) + (IF w \in B THEN 1 ELSE 0)
       /\ Cardinality(A \ {w}) \in Nat
  <2>1. /\ IsFiniteSet(A \ {w}) /\ IsFiniteSet(B)
        /\ Cardinality(A \ {w}) \in Nat /\ Cardinality(A) \in Nat /\ Cardinality(B) \in Nat
    BY <1>8, <1>9, FS_Subset, FS_CardinalityType
  <2>2. Cardinality(A \ {w}) = IF w \in A THEN Cardinality(A) - 1 ELSE Cardinality(A)
    BY <1>9, FS_RemoveElement
  <2>3. Cardinality(A \ {w}) = IF w \in B THEN Cardinality(B) - 1 ELSE Cardinality(B)
    BY <1>6, <2>1, FS_RemoveElement
  <2> DEFINE a == Cardinality(A)
             b == Cardinality(B)
             e == Cardinality(A \ {w})
  <2> HIDE DEF a, b, e
  <2>4. /\ a \in Nat /\ b \in Nat /\ e \in Nat
        /\ e = IF w \in A THEN a - 1 ELSE a
        /\ e = IF w \in B THEN b - 1 ELSE b
    BY <2>1, <2>2, <2>3 DEF a, b, e
  <2>5. /\ a = e + (IF w \in A THEN 1 ELSE 0) /\ b = e + (IF w \in B THEN 1 ELSE 0)
    BY <2>4
  <2> QED BY <2>1, <2>5 DEF a, b, e
<1> QED
  BY <1>3, <1>4, <1>7, <1>9, <1>10 DEF Counted

-----------------------------------------------------------------------------
(* What each step does to the number of copies.                               *)

\* Clients that announce an identity are told apart.
LEMMA AskedIs ==
    ASSUME Anonymous = {}, NEW c \in Clients, NEW n \in Nat
    PROVE  /\ Asked(c, n) = [client |-> c, seq |-> n] /\ Asked(c, n) \in Task
           /\ Asked(c, n) # Ready /\ Asked(c, n) # NoJob
           /\ Asked(c, n).client = c /\ Asked(c, n).seq = n
           /\ \A m \in Task : m.client = c /\ m.seq = n => m = Asked(c, n)
<1>1. Asked(c, n) = [client |-> c, seq |-> n] /\ Asked(c, n) \in Task
  BY DEF Asked, ClientId, Task, ClientIds
<1>2. c # WORKER_READY /\ c # Truncated
  BY IdAssumption
<1> QED
  BY <1>1, <1>2 DEF Ready, NoJob, Task

\* A place with a copy in it is counted.
LEMMA SomeCopy ==
    ASSUME NEW V, IsFiniteSet(Flat(V)), NEW q \in Spots, V[q] # {}
    PROVE  Cardinality(Flat(V)) > 0
<1>1. Part(q, V[q]) # {}
  BY PartFacts
<1>2. \A x : x \in Part(q, V[q]) => x \in Flat(V)
  BY DEF Flat
<1>3. Flat(V) # {}
  BY <1>1, <1>2
<1>4. Cardinality(Flat(V)) \in Nat /\ Cardinality(Flat(V)) # 0
  BY <1>3, FS_CardinalityType, FS_EmptySet
<1> QED
  BY <1>4

LEMMA QuietCopies ==
    ASSUME Finite, TypeOK, TypeOK', NEW c \in Clients, NEW n \in Nat,
           UNCHANGED <<requests, notices, tasks, wpc, job>>,
           outbox'[c] = outbox[c], replies'[c] = replies[c]
    PROVE  Counted(c, n) /\ Size'[<<c, n>>] = Size[<<c, n>>]
<1>1. outbox[c] \in Seq(Nat) /\ replies[c] \in Seq(Nat)
  BY DEF TypeOK, SocketsTypeOK
<1> DEFINE a == Cardinality(At(outbox[c], n))
           b == Cardinality(At(replies[c], n))
<1>2. a \in Nat /\ b \in Nat
  BY <1>1, AtFacts
<1>3. Counted(c, n) /\ Size'[<<c, n>>] = Size[<<c, n>>] - a + a - b + b
  BY ClientMoves
<1> HIDE DEF a, b
<1> QED
  BY <1>2, <1>3 DEF Counted

\* A request that is sent is one copy more, and every reply is discarded.
LEMMA SendCopies ==
    ASSUME Finite, TypeOK, TypeOK', NEW c \in Clients, NEW n \in Nat,
           NEW d \in Clients, ReqSend(d, sequence[d]), UNCHANGED <<wpc, job>>
    PROVE  /\ Counted(c, n)
           /\ Size'[<<c, n>>] <= Size[<<c, n>>]
                                  + (IF c = d /\ n = sequence[d] THEN 1 ELSE 0)
<1>1. /\ outbox[c] \in Seq(Nat) /\ replies[c] \in Seq(Nat) /\ sequence[d] \in Nat
      /\ outbox' = [outbox EXCEPT ![d] = Append(outbox[d], sequence[d])]
      /\ replies' = [replies EXCEPT ![d] = << >>]
      /\ outbox'[c] \in Seq(Nat) /\ replies'[c] \in Seq(Nat)
      /\ outbox \in [Clients -> Seq(Nat)] /\ replies \in [Clients -> Seq(Nat)]
  BY DEF TypeOK, SocketsTypeOK, ClientTypeOK, ReqSend
<1> DEFINE a == Cardinality(At(outbox[c], n))
           b == Cardinality(At(replies[c], n))
           a1 == Cardinality(At(outbox'[c], n))
           b1 == Cardinality(At(replies'[c], n))
<1>2. a \in Nat /\ b \in Nat /\ a1 \in Nat /\ b1 \in Nat
  BY <1>1, AtFacts
<1>3. Counted(c, n) /\ Size'[<<c, n>>] = Size[<<c, n>>] - a + a1 - b + b1
  BY ClientMoves DEF ReqSend
<1>4. b1 <= b
  <2>1. CASE c = d
    <3>1. replies'[c] = << >>
      BY <1>1, <2>1
    <3> QED BY <1>2, <3>1, AtEmpty
  <2>2. CASE c # d
    BY <1>1, <1>2, <2>2
  <2> QED BY <2>1, <2>2
<1>5. a1 = a + (IF c = d /\ n = sequence[d] THEN 1 ELSE 0)
  <2>1. CASE c = d
    <3>1. outbox'[c] = Append(outbox[c], sequence[d])
      BY <1>1, <2>1
    <3>2. a1 = a + (IF sequence[d] = n THEN 1 ELSE 0)
      <4>1. outbox[c] \in Seq(Nat) /\ sequence[d] \in Nat
        BY <1>1
      <4>2. Cardinality(At(Append(outbox[c], sequence[d]), n))
              = Cardinality(At(outbox[c], n)) + (IF sequence[d] = n THEN 1 ELSE 0)
        BY <4>1, AtAppend
      <4> QED BY <3>1, <4>2
    <3> HIDE DEF a, a1
    <3> QED BY <1>2, <2>1, <3>2
  <2>2. CASE c # d
    BY <1>1, <1>2, <2>2
  <2> QED BY <2>1, <2>2
<1> HIDE DEF a, b, a1, b1
<1> QED
  BY <1>2, <1>3, <1>4, <1>5 DEF Counted

LEMMA ReceiveCopies ==
    ASSUME Finite, TypeOK, TypeOK', NEW c \in Clients, NEW n \in Nat,
           NEW d \in Clients, replies[d] # << >>, ReqReceive(d), UNCHANGED <<wpc, job>>
    PROVE  Counted(c, n) /\ Size'[<<c, n>>] <= Size[<<c, n>>]
<1>1. /\ outbox[c] \in Seq(Nat) /\ replies[c] \in Seq(Nat)
      /\ outbox' = outbox /\ replies' = [replies EXCEPT ![d] = Tail(replies[d])]
      /\ replies'[c] \in Seq(Nat) /\ replies \in [Clients -> Seq(Nat)]
  BY DEF TypeOK, SocketsTypeOK, ReqReceive
<1> DEFINE a == Cardinality(At(outbox[c], n))
           b == Cardinality(At(replies[c], n))
           b1 == Cardinality(At(replies'[c], n))
<1>2. a \in Nat /\ b \in Nat /\ b1 \in Nat
  BY <1>1, AtFacts
<1>3. Counted(c, n) /\ Size'[<<c, n>>] = Size[<<c, n>>] - a + a - b + b1
  BY <1>1, ClientMoves DEF ReqReceive
<1>4. b1 <= b
  <2>1. CASE c = d
    <3>1. replies'[c] = Tail(replies[c]) /\ replies[c] # << >>
      BY <1>1, <2>1
    <3>2. Cardinality(At(Tail(replies[c]), n))
            = Cardinality(At(replies[c], n)) - (IF Head(replies[c]) = n THEN 1 ELSE 0)
      BY <1>1, <3>1, AtTail
    <3>3. b1 = b - (IF Head(replies[c]) = n THEN 1 ELSE 0)
      BY <3>1, <3>2
    <3> HIDE DEF b, b1
    <3> QED BY <1>2, <3>3
  <2>2. CASE c # d
    BY <1>1, <1>2, <2>2
  <2> QED BY <2>1, <2>2
<1> HIDE DEF a, b, b1
<1> QED
  BY <1>2, <1>3, <1>4 DEF Counted

\* A new socket has one copy of the request at hand, or none.
LEMMA ReplaceCopies ==
    ASSUME Finite, TypeOK, TypeOK', NEW c \in Clients, NEW n \in Nat,
           NEW d \in Clients, NEW unsent, unsent \in {<< >>, <<sequence[d]>>},
           ReplaceSocket(d, unsent), UNCHANGED <<wpc, job>>
    PROVE  /\ Counted(c, n)
           /\ Size'[<<c, n>>] <= Size[<<c, n>>]
                + (IF c = d /\ n = sequence[d] /\ unsent # << >> THEN 1 ELSE 0)
<1>1. /\ outbox[c] \in Seq(Nat) /\ replies[c] \in Seq(Nat) /\ sequence[d] \in Nat
      /\ outbox' = [outbox EXCEPT ![d] = unsent]
      /\ replies' = [replies EXCEPT ![d] = << >>]
      /\ outbox'[c] \in Seq(Nat) /\ replies'[c] \in Seq(Nat)
      /\ outbox \in [Clients -> Seq(Nat)] /\ replies \in [Clients -> Seq(Nat)]
  BY DEF TypeOK, SocketsTypeOK, ClientTypeOK, ReplaceSocket
<1> DEFINE a == Cardinality(At(outbox[c], n))
           b == Cardinality(At(replies[c], n))
           a1 == Cardinality(At(outbox'[c], n))
           b1 == Cardinality(At(replies'[c], n))
<1>2. a \in Nat /\ b \in Nat /\ a1 \in Nat /\ b1 \in Nat
  BY <1>1, AtFacts
<1>3. Counted(c, n) /\ Size'[<<c, n>>] = Size[<<c, n>>] - a + a1 - b + b1
  BY ClientMoves DEF ReplaceSocket
<1>4. b1 <= b
  <2>1. CASE c = d
    <3>1. replies'[c] = << >>
      BY <1>1, <2>1
    <3> QED BY <1>2, <3>1, AtEmpty
  <2>2. CASE c # d
    BY <1>1, <1>2, <2>2
  <2> QED BY <2>1, <2>2
<1>5. a1 <= a + (IF c = d /\ n = sequence[d] /\ unsent # << >> THEN 1 ELSE 0)
  <2>1. CASE c = d /\ unsent = << >>
    <3>1. outbox'[c] = << >>
      BY <1>1, <2>1
    <3> QED BY <1>2, <2>1, <3>1, AtEmpty
  <2>2. CASE c = d /\ unsent # << >>
    <3>1. unsent = <<sequence[d]>> /\ outbox'[c] = unsent /\ << >> \in Seq(Nat)
      BY <1>1, <2>2
    <3>2. unsent = Append(<< >>, sequence[d])
      BY <3>1
    <3>3. Cardinality(At(Append(<< >>, sequence[d]), n))
            = Cardinality(At(<< >>, n)) + (IF sequence[d] = n THEN 1 ELSE 0)
      <4>1. << >> \in Seq(Nat) /\ sequence[d] \in Nat
        BY <1>1
      <4>2. \A s \in Seq(Nat), e \in Nat :
              Cardinality(At(Append(s, e), n)) = Cardinality(At(s, n)) + (IF e = n THEN 1 ELSE 0)
        BY AtAppend
      <4> QED BY <4>1, <4>2
    <3>4. a1 = 0 + (IF sequence[d] = n THEN 1 ELSE 0)
      BY <3>1, <3>2, <3>3, AtEmpty
    <3> HIDE DEF a, a1
    <3> QED BY <1>2, <2>2, <3>4
  <2>3. CASE c # d
    BY <1>1, <1>2, <2>3
  <2> QED BY <2>1, <2>2, <2>3
<1> HIDE DEF a, b, a1, b1
<1> QED
  BY <1>2, <1>3, <1>4, <1>5 DEF Counted

LEMMA TransmitCopies ==
    ASSUME Finite, TypeOK, TypeOK', NEW c \in Clients, NEW n \in Nat,
           NEW d \in Clients, Transmit(d), UNCHANGED <<wpc, job>>
    PROVE  Counted(c, n) /\ Size'[<<c, n>>] = Size[<<c, n>>]
<1>1. /\ outbox \in [Clients -> Seq(Nat)] /\ requests \in [Clients -> Seq(Nat)]
      /\ outbox' = [outbox EXCEPT ![d] = Tail(outbox[d])] /\ outbox[d] # << >>
      /\ requests' = [requests EXCEPT ![d] = Append(requests[d], Head(outbox[d]))]
      /\ Head(outbox[d]) \in Nat
  BY DEF TypeOK, SocketsTypeOK, Transmit
<1> DEFINE a == Cardinality(At(outbox[c], n))
           b == Cardinality(At(requests[c], n))
           a1 == Cardinality(At(outbox'[c], n))
           b1 == Cardinality(At(requests'[c], n))
<1>2. a \in Nat /\ b \in Nat
  BY <1>1, AtFacts
<1>3. Counted(c, n) /\ Size'[<<c, n>>] = Size[<<c, n>>] - a + a1 - b + b1
  BY RequestMoves DEF Transmit
<1>4. CASE c = d
  <2>1. a1 = a - (IF Head(outbox[d]) = n THEN 1 ELSE 0)
    BY <1>1, <1>4, AtTail
  <2>2. b1 = b + (IF Head(outbox[d]) = n THEN 1 ELSE 0)
    BY <1>1, <1>4, AtAppend
  <2> HIDE DEF a, b, a1, b1
  <2> QED BY <1>2, <1>3, <2>1, <2>2 DEF Counted
<1>5. CASE c # d
  <2>1. a1 = a /\ b1 = b
    BY <1>1, <1>5
  <2> HIDE DEF a, b, a1, b1
  <2> QED BY <1>2, <1>3, <2>1 DEF Counted
<1> QED
  BY <1>4, <1>5

LEMMA RefuseCopies ==
    ASSUME Finite, TypeOK, TypeOK', NEW c \in Clients, NEW n \in Nat,
           NEW d \in Clients, Refuse(d), UNCHANGED <<wpc, job>>
    PROVE  /\ Counted(c, n) /\ Size'[<<c, n>>] <= Size[<<c, n>>]
           /\ c # d => Size'[<<c, n>>] = Size[<<c, n>>]
<1>1. /\ outbox \in [Clients -> Seq(Nat)] /\ replies \in [Clients -> Seq(Nat)]
      /\ outbox' = [outbox EXCEPT ![d] = << >>] /\ replies' = replies
      /\ outbox'[c] \in Seq(Nat)
  BY DEF TypeOK, SocketsTypeOK, Refuse
<1> DEFINE a == Cardinality(At(outbox[c], n))
           b == Cardinality(At(replies[c], n))
           a1 == Cardinality(At(outbox'[c], n))
<1>2. a \in Nat /\ b \in Nat /\ a1 \in Nat
  BY <1>1, AtFacts
<1>3. Counted(c, n) /\ Size'[<<c, n>>] = Size[<<c, n>>] - a + a1 - b + b
  BY <1>1, ClientMoves DEF Refuse
<1>4. a1 <= a /\ (c # d => a1 = a)
  <2>1. CASE c = d
    <3>1. outbox'[c] = << >>
      BY <1>1, <2>1
    <3> QED BY <1>2, <2>1, <3>1, AtEmpty
  <2>2. CASE c # d
    BY <1>1, <1>2, <2>2
  <2> QED BY <2>1, <2>2
<1> HIDE DEF a, b, a1
<1> QED
  BY <1>2, <1>3, <1>4 DEF Counted

\* The steps of the broker and the workers, for clients with an identity.
LEMMA BackendCopies ==
    ASSUME Anonymous = {}, Finite, TypeOK, TypeOK', NEW c \in Clients, NEW n \in Nat,
           NEW w \in Workers, BackendFrom(w), UNCHANGED <<wpc, job>>
    PROVE  /\ Counted(c, n) /\ Size'[<<c, n>>] <= Size[<<c, n>>]
           /\ c \in routes => Size'[<<c, n>>] = Size[<<c, n>>]
<1> DEFINE m == Head(notices[w])
           a == Cardinality(At(notices[w], Asked(c, n)))
           a1 == Cardinality(At(notices'[w], Asked(c, n)))
           b == Cardinality(At(replies[c], n))
           b1 == Cardinality(At(replies'[c], n))
<1>1. /\ notices[w] \in Seq(Task \cup {Ready}) /\ notices[w] # << >>
      /\ replies[c] \in Seq(Nat) /\ replies'[c] \in Seq(Nat)
      /\ notices'[w] = Tail(notices[w])
      /\ \A v \in Workers : v # w => notices'[v] = notices[v]
  BY DEF TypeOK, SocketsTypeOK, BackendFrom
<1>2. m \in Task \cup {Ready}
  BY <1>1, TailFacts
<1>3. a \in Nat /\ b \in Nat /\ b1 \in Nat
  BY <1>1, AtFacts
<1>4. Counted(c, n) /\ Size'[<<c, n>>] = Size[<<c, n>>] - a + a1 - b + b1
  BY <1>1, NoticeMoves DEF BackendFrom
<1>5. a1 = a - (IF m = Asked(c, n) THEN 1 ELSE 0)
  BY <1>1, AtTail
<1>6. \/ m.client = WORKER_READY /\ replies' = replies
      \/ m.client # WORKER_READY /\ replies' = Delivered(m.client, m.seq)
  BY DEF BackendFrom
<1>7. b1 = b + (IF m = Asked(c, n) /\ c \in routes THEN 1 ELSE 0)
  <2>1. CASE m.client = WORKER_READY /\ replies' = replies
    <3>1. m # Asked(c, n)
      BY <2>1, AskedIs, IdAssumption
    <3> HIDE DEF m
    <3> QED BY <1>3, <2>1, <3>1
  <2>2. CASE m.client # WORKER_READY /\ replies' = Delivered(m.client, m.seq)
    <3>1. m \in Task /\ m.seq \in Nat
      BY <1>2, <2>2 DEF Ready, Task
    <3>2. m = Asked(c, n) <=> m.client = c /\ m.seq = n
      BY <3>1, AskedIs
    <3> HIDE DEF m
    <3>3. replies'[c] = IF c = m.client /\ c \in routes THEN Append(replies[c], m.seq)
                                                       ELSE replies[c]
      BY <2>2 DEF Delivered
    <3>4. CASE c = m.client /\ c \in routes
      <4>1. Cardinality(At(Append(replies[c], m.seq), n)) = b + (IF m.seq = n THEN 1 ELSE 0)
        <5>1. replies[c] \in Seq(Nat) /\ m.seq \in Nat
          BY <1>1, <3>1
        <5> QED BY <5>1, AtAppend
      <4>2. b1 = b + (IF m.seq = n THEN 1 ELSE 0)
        BY <3>3, <3>4, <4>1
      <4> HIDE DEF b, b1
      <4> QED BY <3>2, <3>4, <4>2
    <3>5. CASE ~(c = m.client /\ c \in routes)
      <4>1. b1 = b
        BY <3>3, <3>5
      <4> HIDE DEF b, b1
      <4> QED BY <1>3, <3>2, <3>5, <4>1
    <3> QED BY <3>4, <3>5
  <2> QED BY <1>6, <2>1, <2>2
<1> HIDE DEF m, a, a1, b, b1
<1> QED
  BY <1>3, <1>4, <1>5, <1>7 DEF Counted

LEMMA FrontendCopies ==
    ASSUME Anonymous = {}, Finite, IInv, TypeOK', NEW c \in Clients, NEW n \in Nat,
           NEW d \in Clients, FrontendFrom(d), UNCHANGED <<wpc, job>>
    PROVE  Counted(c, n) /\ Size'[<<c, n>>] = Size[<<c, n>>]
<1> DEFINE w == Head(worker_queue)
           m == [client |-> ClientId(d), seq |-> Head(requests[d])]
           a == Cardinality(At(requests[c], n))
           a1 == Cardinality(At(requests'[c], n))
           b == Cardinality(At(tasks[w], Asked(c, n)))
           b1 == Cardinality(At(tasks'[w], Asked(c, n)))
<1>0. TypeOK
  BY DEF IInv
<1>1. /\ requests \in [Clients -> Seq(Nat)] /\ requests[d] # << >>
      /\ requests' = [requests EXCEPT ![d] = Tail(requests[d])]
      /\ requests[d] \in Seq(Nat) /\ requests[c] \in Seq(Nat)
  BY <1>0 DEF TypeOK, SocketsTypeOK, FrontendFrom
<1>2. Head(requests[d]) \in Nat
  BY <1>1, TailFacts
<1>3. w \in Workers /\ w \in Idle
  <2>1. worker_queue \in Seq(Workers) /\ worker_queue # << >>
    BY <1>0 DEF TypeOK, BrokerTypeOK, IInv, PollInv, FrontendFrom
  <2>2. w \in Workers /\ w \in Elements(worker_queue)
    BY <2>1, TailFacts
  <2> QED BY <2>2 DEF Idle, Elements
<1>4. wpc[w] = "recv"
  BY <1>3, OnePlace
<1>5. w \in attached
  BY <1>3, <1>4 DEF IInv, AttachedInv
<1>6. /\ tasks[w] \in Seq(Task) /\ tasks'[w] = Append(tasks[w], m)
      /\ \A v \in Workers : v # w => tasks'[v] = tasks[v]
  BY <1>0, <1>3, <1>5 DEF FrontendFrom, Dispatched, TypeOK, SocketsTypeOK
<1>7. m = Asked(d, Head(requests[d])) /\ m \in Task
  BY <1>2, AskedIs DEF Asked
<1>8. m = Asked(c, n) <=> c = d /\ Head(requests[d]) = n
  BY <1>2, <1>7, AskedIs
<1> HIDE DEF w, m
<1>9. a \in Nat /\ b \in Nat
  BY <1>1, <1>6, AtFacts
<1>10. Counted(c, n) /\ Size'[<<c, n>>] = Size[<<c, n>>] - a + a1 - b + b1
  BY <1>0, <1>3, <1>6, TaskMoves DEF FrontendFrom
<1>11. b1 = b + (IF m = Asked(c, n) THEN 1 ELSE 0)
  BY <1>6, <1>7, AtAppend
<1>12. a1 = a - (IF c = d /\ Head(requests[d]) = n THEN 1 ELSE 0)
  <2>1. CASE c = d
    <3>1. Cardinality(At(Tail(requests[d]), n)) = a - (IF Head(requests[d]) = n THEN 1 ELSE 0)
      BY <1>1, <2>1, AtTail
    <3>2. requests'[c] = Tail(requests[d])
      BY <1>1, <2>1
    <3>3. a1 = a - (IF Head(requests[d]) = n THEN 1 ELSE 0)
      BY <3>1, <3>2
    <3> HIDE DEF a, a1
    <3> QED BY <2>1, <3>3
  <2>2. CASE c # d
    <3>1. a1 = a
      BY <1>1, <2>2
    <3> HIDE DEF a, a1
    <3> QED BY <1>9, <2>2, <3>1
  <2> QED BY <2>1, <2>2
<1> HIDE DEF a, a1, b, b1
<1> QED
  BY <1>8, <1>9, <1>10, <1>11, <1>12 DEF Counted

LEMMA WorkerCopies ==
    ASSUME Anonymous = {}, Finite, IInv, TypeOK', NEW c \in Clients, NEW n \in Nat,
           NEW w \in Workers, Worker(w)
    PROVE  Counted(c, n) /\ Size'[<<c, n>>] = Size[<<c, n>>]
<1> DEFINE x == Asked(c, n)
<1>0. /\ TypeOK /\ x \in Task /\ x # Ready /\ x # NoJob
      /\ notices \in [Workers -> Seq(Task \cup {Ready})] /\ tasks \in [Workers -> Seq(Task)]
      /\ wpc \in [Workers -> {"start", "recv", "busy", "crashed"}] /\ job \in [Workers -> Task]
  BY AskedIs DEF IInv, TypeOK, SocketsTypeOK, WorkerTypeOK
<1>1. ASSUME WorkerStart(w) \/ WorkerReply(w),
             NEW m \in Task \cup {Ready}, WorkerSend(w, m),
             m = x <=> wpc[w] = "busy" /\ job[w] = x
      PROVE  Counted(c, n) /\ Size'[<<c, n>>] = Size[<<c, n>>]
  <2> DEFINE a == Cardinality(At(notices[w], x))
             a1 == Cardinality(At(notices'[w], x))
             q == <<"notices", w>>
  <2>1. tasks[w] = << >>
    BY <1>1, OnePlace DEF WorkerStart, WorkerReply
  <2>2. tasks' = tasks
    BY <1>0, <1>1, <2>1 DEF WorkerSend
  <2>3. /\ notices[w] \in Seq(Task \cup {Ready}) /\ notices'[w] = Append(notices[w], m)
        /\ \A v \in Workers : v # w => notices'[v] = notices[v]
    BY <1>0, <1>1 DEF WorkerSend
  <2>4. wpc'[w] = "recv" /\ \A v \in Workers : v # w => wpc'[v] = wpc[v] /\ job'[v] = job[v]
    BY <1>0, <1>1 DEF WorkerStart, WorkerReply
  <2>5. UNCHANGED <<outbox, requests, replies>>
    BY <1>1 DEF WorkerSend
  <2>6. /\ Counted(c, n) /\ a \in Nat /\ a1 \in Nat
        /\ Size'[<<c, n>>] = Size[<<c, n>>] - a + a1
             - (IF wpc[w] = "busy" /\ job[w] = x THEN 1 ELSE 0)
             + (IF wpc'[w] = "busy" /\ job'[w] = x THEN 1 ELSE 0)
    <3>1. \A v \in Workers : v # w => /\ notices'[v] = notices[v] /\ tasks'[v] = tasks[v]
                                     /\ wpc'[v] = wpc[v] /\ job'[v] = job[v]
      BY <2>2, <2>3, <2>4
    <3> QED BY <1>0, <2>2, <2>5, <3>1, HandMoves
  <2>7. a1 = a + (IF m = x THEN 1 ELSE 0)
    BY <2>3, AtAppend
  <2> HIDE DEF a, a1, x
  <2> QED BY <1>1, <2>4, <2>6, <2>7 DEF Counted
<1>2. CASE WorkerStart(w)
  BY <1>0, <1>1, <1>2 DEF WorkerStart
<1>3. CASE WorkerReply(w)
  <2>1. job[w] \in Task \cup {Ready}
    BY <1>0
  <2> QED BY <1>1, <1>3, <2>1 DEF WorkerReply
<1>4. CASE WorkerReceive(w)
  <2> DEFINE a == Cardinality(At(tasks[w], x))
             a1 == Cardinality(At(tasks'[w], x))
  <2>1. /\ tasks[w] \in Seq(Task) /\ tasks[w] # << >> /\ tasks'[w] = Tail(tasks[w])
        /\ \A v \in Workers : v # w => tasks'[v] = tasks[v]
        /\ wpc[w] = "recv" /\ wpc'[w] = "busy" /\ job'[w] = Head(tasks[w])
        /\ \A v \in Workers : v # w => wpc'[v] = wpc[v] /\ job'[v] = job[v]
    BY <1>0, <1>4 DEF WorkerReceive
  <2>2. UNCHANGED <<outbox, requests, replies, notices>>
    BY <1>4 DEF WorkerReceive
  <2>3. /\ Counted(c, n) /\ a \in Nat /\ a1 \in Nat
        /\ Size'[<<c, n>>] = Size[<<c, n>>] - a + a1
             - (IF wpc[w] = "busy" /\ job[w] = x THEN 1 ELSE 0)
             + (IF wpc'[w] = "busy" /\ job'[w] = x THEN 1 ELSE 0)
    <3>1. \A v \in Workers : v # w => /\ notices'[v] = notices[v] /\ tasks'[v] = tasks[v]
                                     /\ wpc'[v] = wpc[v] /\ job'[v] = job[v]
      BY <2>1, <2>2
    <3>2. UNCHANGED <<outbox, requests, replies>> /\ notices' = notices
      BY <2>2
    <3> DEFINE s == tasks[w]
               t == tasks'[w]
    <3>3. s = tasks[w] /\ t = tasks'[w] /\ TypeOK
      BY <1>0
    <3> HIDE DEF s, t
    <3>4. /\ Counted(c, n)
          /\ Cardinality(At(s, Asked(c, n))) \in Nat /\ Cardinality(At(t, Asked(c, n))) \in Nat
          /\ Size'[<<c, n>>] = Size[<<c, n>>]
                - Cardinality(At(s, Asked(c, n))) + Cardinality(At(t, Asked(c, n)))
                - (IF wpc[w] = "busy" /\ job[w] = Asked(c, n) THEN 1 ELSE 0)
                + (IF wpc'[w] = "busy" /\ job'[w] = Asked(c, n) THEN 1 ELSE 0)
      BY <3>1, <3>2, <3>3, HandMoves
    <3> QED BY <3>3, <3>4
  <2>4. a1 = a - (IF Head(tasks[w]) = x THEN 1 ELSE 0)
    BY <2>1, AtTail
  <2> HIDE DEF a, a1, x
  <2> QED BY <2>1, <2>3, <2>4 DEF Counted
<1> QED
  BY <1>2, <1>3, <1>4 DEF Worker

LEMMA CrashCopies ==
    ASSUME Anonymous = {}, Finite, IInv, TypeOK', NEW c \in Clients, NEW n \in Nat,
           NEW w \in Workers, WorkerCrash(w)
    PROVE  Counted(c, n) /\ Size'[<<c, n>>] <= Size[<<c, n>>]
<1> DEFINE x == Asked(c, n)
           a == Cardinality(At(notices[w], x))
           a1 == Cardinality(At(notices'[w], x))
<1>0. /\ TypeOK /\ tasks \in [Workers -> Seq(Task)]
      /\ wpc \in [Workers -> {"start", "recv", "busy", "crashed"}] /\ job \in [Workers -> Task]
  BY DEF IInv, TypeOK, SocketsTypeOK, WorkerTypeOK
<1>1. tasks[w] = << >>
  BY OnePlace DEF WorkerCrash
<1>2. UNCHANGED <<outbox, requests, replies, notices, tasks>>
  BY <1>0, <1>1 DEF WorkerCrash
<1>3. wpc'[w] = "crashed" /\ \A v \in Workers : v # w => wpc'[v] = wpc[v] /\ job'[v] = job[v]
  BY <1>0 DEF WorkerCrash
<1>4. /\ Counted(c, n) /\ a \in Nat /\ a1 \in Nat
      /\ Size'[<<c, n>>] = Size[<<c, n>>] - a + a1
           - (IF wpc[w] = "busy" /\ job[w] = x THEN 1 ELSE 0)
           + (IF wpc'[w] = "busy" /\ job'[w] = x THEN 1 ELSE 0)
  BY <1>0, <1>2, <1>3, HandMoves
<1>5. a1 = a
  BY <1>2
<1> HIDE DEF a, a1, x
<1> QED
  BY <1>3, <1>4, <1>5 DEF Counted

-----------------------------------------------------------------------------
(* The inductive invariant about the copies.                                  *)

\* What CopiesBounded allows.
Allowed(c, n) ==
    IF n = sequence[c]
    THEN IF cpc[c] = "send" THEN 0 ELSE MAX_RETRIES - retries[c] + 1
    ELSE IF n < sequence[c] THEN MAX_RETRIES ELSE 0

FewCopies == \A c \in Clients, n \in Nat : Size[<<c, n>>] <= Allowed(c, n)

\* The request at hand is the last one a client has to send.
LastInv == \A c \in Clients : cpc[c] = "poll" /\ outbox[c] # << >> =>
                                 outbox[c][Len(outbox[c])] = sequence[c]

InTheSystem(c) == \/ replies[c] # << >>
                  \/ Size[<<c, sequence[c]>>] > 0
                  \/ Unreachable(c)

NotLost == Crashed = {} /\ bpc # "closed" =>
              \A c \in Clients : cpc[c] = "poll" => InTheSystem(c)

CopyInv == IInv /\ Finite /\ FewCopies /\ LastInv /\ NotLost

LEMMA InitCopies == Init => Finite /\ FewCopies /\ LastInv /\ NotLost
<1> SUFFICES ASSUME Init PROVE Finite /\ FewCopies /\ LastInv /\ NotLost
  OBVIOUS
<1>0. /\ \A c \in Clients : /\ outbox[c] = << >> /\ requests[c] = << >> /\ replies[c] = << >>
                            /\ cpc[c] = "send" /\ sequence[c] = 0
      /\ \A w \in Workers : notices[w] = << >> /\ tasks[w] = << >> /\ wpc[w] = "start"
  BY DEF Init, SocketsInit, ClientInit, WorkerInit
<1>1. ASSUME NEW c \in Clients, NEW n \in Nat
      PROVE  Flat(Held[<<c, n>>]) = {}
  <2>1. ASSUME NEW q \in Spots PROVE Part(q, Held[<<c, n>>][q]) = {}
    <3>1. Held[<<c, n>>][q] = {}
      <4>1. CASE q = InHand
        BY <1>0, <4>1, ShapeIs DEF HeldShape
      <4>2. CASE q # InHand
        <5>1. \A x : At(<< >>, x) = {}
          BY AtEmpty
        <5>2. /\ Held[<<c, n>>][InOutbox] = {} /\ Held[<<c, n>>][InRequests] = {}
              /\ Held[<<c, n>>][InReplies] = {}
          BY <1>0, <5>1, ShapeIs DEF HeldShape
        <5>3. ASSUME NEW w \in Workers
              PROVE  /\ Held[<<c, n>>][<<"notices", w>>] = {}
                     /\ Held[<<c, n>>][<<"tasks", w>>] = {}
          BY <1>0, <5>1, ShapeIs DEF HeldShape
        <5> QED BY <4>2, <5>2, <5>3, SpotCases
      <4> QED BY <4>1, <4>2
    <3> QED BY <3>1, PartFacts
  <2> QED BY <2>1 DEF Flat
<1>2. Finite
  BY <1>1, FS_EmptySet DEF Finite
<1>3. ASSUME NEW c \in Clients, NEW n \in Nat PROVE Size[<<c, n>>] = 0
  BY <1>1, FS_EmptySet DEF Size
<1>4. FewCopies
  <2>1. ASSUME NEW c \in Clients, NEW n \in Nat PROVE Allowed(c, n) = 0
    BY <1>0 DEF Allowed
  <2>2. ASSUME NEW c \in Clients, NEW n \in Nat PROVE Size[<<c, n>>] <= Allowed(c, n)
    BY <1>3, <2>1
  <2> QED BY <2>2 DEF FewCopies
<1>5. LastInv /\ NotLost
  BY <1>0 DEF LastInv, NotLost
<1> QED
  BY <1>2, <1>4, <1>5

\* What has to be shown of a step.
LEMMA FewNext ==
    ASSUME \A c \in Clients, n \in Nat : Counted(c, n) /\ Size'[<<c, n>>] <= Allowed(c, n)'
    PROVE  Finite' /\ FewCopies'
<1>1. \A k \in Clients \X Nat : \E c \in Clients, n \in Nat : k = <<c, n>>
  OBVIOUS
<1> QED
  BY <1>1 DEF Finite, FewCopies, Counted

\* A step that the clients take no part in and that adds no copy.
LEMMA FewKept ==
    ASSUME TypeOK, FewCopies, UNCHANGED clientVars,
           \A c \in Clients, n \in Nat : Counted(c, n) /\ Size'[<<c, n>>] <= Size[<<c, n>>]
    PROVE  Finite' /\ FewCopies'
<1>1. ASSUME NEW c \in Clients, NEW n \in Nat
      PROVE  Counted(c, n) /\ Size'[<<c, n>>] <= Allowed(c, n)'
  <2>1. Size[<<c, n>>] <= Allowed(c, n)
    BY DEF FewCopies
  <2>2. Allowed(c, n)' = Allowed(c, n) /\ Allowed(c, n) \in Int
    BY ClientAssumption DEF Allowed, clientVars, TypeOK, ClientTypeOK
  <2>3. Size'[<<c, n>>] \in Nat /\ Size[<<c, n>>] \in Nat /\ Size'[<<c, n>>] <= Size[<<c, n>>]
    BY DEF Counted
  <2> QED BY <2>1, <2>2, <2>3
<1> QED
  BY <1>1, FewNext

\* ... and neither loses one, nor a reply, nor a connection.
LEMMA LostKept ==
    ASSUME TypeOK, NotLost, UNCHANGED clientVars, Crashed' = {} => Crashed = {},
           bpc' # "closed" => bpc # "closed",
           \A c \in Clients : InTheSystem(c) /\ cpc[c] = "poll" => InTheSystem(c)'
    PROVE  NotLost'
  BY DEF NotLost, clientVars

LEMMA LastStep ==
    ASSUME IInv, LastInv, Next
    PROVE  LastInv'
<1>0. /\ outbox \in [Clients -> Seq(Nat)] /\ sequence \in [Clients -> Nat]
      /\ cpc \in [Clients -> {"send", "poll", "exited"}]
  BY DEF IInv, TypeOK, SocketsTypeOK, ClientTypeOK
<1>1. ASSUME NEW c \in Clients, ClientSend(c) PROVE LastInv'
  <2>1. /\ outbox' = [outbox EXCEPT ![c] = Append(outbox[c], sequence[c])]
        /\ sequence' = sequence /\ \A e \in Clients : e # c => cpc'[e] = cpc[e]
    BY <1>0, <1>1 DEF ClientSend, ReqSend
  <2>2. /\ Len(Append(outbox[c], sequence[c])) = Len(outbox[c]) + 1
        /\ Append(outbox[c], sequence[c])[Len(outbox[c]) + 1] = sequence[c]
    BY <1>0
  <2>3. outbox'[c][Len(outbox'[c])] = sequence'[c]
    BY <1>0, <2>1, <2>2
  <2> QED BY <1>0, <2>1, <2>3 DEF LastInv
<1>2. ASSUME NEW c \in Clients, ClientReceive(c) PROVE LastInv'
  BY <1>0, <1>2 DEF ClientReceive, ReqReceive, LastInv
<1>3. ASSUME NEW c \in Clients, ClientTimeout(c) PROVE LastInv'
  <2>1. \E unsent \in {<< >>, <<sequence[c]>>} : outbox' = [outbox EXCEPT ![c] = unsent]
    BY <1>3 DEF ClientTimeout, Reopen, CloseSocket, ReplaceSocket
  <2>2. PICK unsent \in {<< >>, <<sequence[c]>>} : outbox' = [outbox EXCEPT ![c] = unsent]
    BY <2>1
  <2>3. sequence' = sequence /\ \A e \in Clients : e # c => cpc'[e] = cpc[e]
    BY <1>0, <1>3 DEF ClientTimeout
  <2>4. outbox'[c] # << >> => outbox'[c][Len(outbox'[c])] = sequence'[c]
    BY <1>0, <2>2, <2>3
  <2> QED BY <1>0, <2>2, <2>3, <2>4 DEF LastInv
<1>4. ASSUME NEW c \in Clients, NetworkStep(c) PROVE LastInv'
  <2>1. UNCHANGED <<cpc, sequence>>
    BY <1>4 DEF NetworkStep, clientVars
  <2>2. CASE Transmit(c)
    <3>1. outbox[c] \in Seq(Nat) /\ outbox[c] # << >>
          /\ outbox' = [outbox EXCEPT ![c] = Tail(outbox[c])]
      BY <1>0, <2>2 DEF Transmit
    <3>2. Tail(outbox[c]) # << >> =>
            Tail(outbox[c])[Len(Tail(outbox[c]))] = outbox[c][Len(outbox[c])]
      BY <3>1
    <3> QED BY <1>0, <2>1, <3>1, <3>2 DEF LastInv
  <2>3. CASE Refuse(c)
    BY <1>0, <2>1, <2>3 DEF Refuse, LastInv
  <2> QED BY <1>4, <2>2, <2>3 DEF NetworkStep
<1>5. ASSUME UNCHANGED <<cpc, sequence, outbox>> PROVE LastInv'
  BY <1>5 DEF LastInv
<1>6. ASSUME BrokerStep \/ BrokerStop PROVE UNCHANGED <<cpc, sequence, outbox>>
  BY <1>6 DEF BrokerStep, BrokerStop, Broker, BrokerPoll, BackendFrom, FrontendFrom,
              BrokerDone, BrokerInterrupted, socketVars, clientVars
<1>7. ASSUME NEW w \in Workers, WorkerStep(w) \/ Crash(w)
      PROVE  UNCHANGED <<cpc, sequence, outbox>>
  BY <1>7 DEF WorkerStep, Crash, Worker, WorkerStart, WorkerReceive, WorkerReply, WorkerCrash,
              WorkerSend, clientVars
<1> QED
  BY <1>1, <1>2, <1>3, <1>4, <1>5, <1>6, <1>7 DEF Next, ClientStep, Client

-----------------------------------------------------------------------------
(* The steps. *)

LEMMA ClientCopyStep ==
    ASSUME CopyInv, TypeOK', NEW d \in Clients, ClientStep(d)
    PROVE  Finite' /\ FewCopies' /\ NotLost'
<1>0. /\ TypeOK /\ Finite /\ FewCopies /\ NotLost
      /\ outbox \in [Clients -> Seq(Nat)] /\ sequence \in [Clients -> Nat]
      /\ cpc \in [Clients -> {"send", "poll", "exited"}]
      /\ retries \in [Clients -> 0 .. MAX_RETRIES] /\ MAX_RETRIES \in Nat \ {0}
  BY ClientAssumption DEF CopyInv, IInv, TypeOK, SocketsTypeOK, ClientTypeOK
<1>1. /\ UNCHANGED <<wpc, job, bpc, requests, notices, tasks>>
      /\ Crashed' = Crashed
      /\ \A c \in Clients : c # d => /\ outbox'[c] = outbox[c] /\ replies'[c] = replies[c]
                                     /\ c \in routes' <=> c \in routes
                                     /\ cpc'[c] = cpc[c] /\ sequence'[c] = sequence[c]
                                     /\ retries'[c] = retries[c]
  <2>1. UNCHANGED <<wpc, job, bpc>>
    BY DEF ClientStep, brokerVars, workerVars
  <2>2. CASE ClientSend(d)
    BY <1>0, <2>1, <2>2 DEF ClientSend, ReqSend, Crashed, TypeOK, SocketsTypeOK
  <2>3. CASE ClientReceive(d)
    BY <1>0, <2>1, <2>3 DEF ClientReceive, ReqReceive, Crashed, TypeOK, SocketsTypeOK
  <2>4. CASE ClientTimeout(d)
    <3>1. PICK unsent : ReplaceSocket(d, unsent)
      BY <2>4 DEF ClientTimeout, Reopen, CloseSocket
    <3>2. \A c \in Clients : c # d => /\ cpc'[c] = cpc[c] /\ sequence'[c] = sequence[c]
                                     /\ retries'[c] = retries[c]
      BY <1>0, <2>4 DEF ClientTimeout
    <3> QED BY <1>0, <2>1, <3>1, <3>2 DEF ReplaceSocket, Crashed, TypeOK, SocketsTypeOK
  <2> QED BY <2>2, <2>3, <2>4 DEF ClientStep, Client
\* The bound of another client's requests is what it was.
<1>2. ASSUME NEW c \in Clients, NEW n \in Nat
      PROVE  /\ Size[<<c, n>>] <= Allowed(c, n) /\ Allowed(c, n) \in Int
             /\ c # d => Allowed(c, n)' = Allowed(c, n)
  BY <1>0, <1>1 DEF FewCopies, Allowed
\* Another client loses nothing when its copies are all there.
<1>3. ASSUME \A c \in Clients, n \in Nat : c # d => Size'[<<c, n>>] = Size[<<c, n>>],
             cpc'[d] = "poll" => InTheSystem(d)'
      PROVE  NotLost'
  <2>1. ASSUME NEW c \in Clients, c # d, cpc'[c] = "poll", Crashed' = {}, bpc' # "closed"
        PROVE  InTheSystem(c)'
    <3>1. InTheSystem(c)
      BY <1>0, <1>1, <2>1 DEF NotLost
    <3>2. sequence[c] \in Nat /\ sequence'[c] = sequence[c]
      BY <1>0, <1>1, <2>1
    <3>3. Size'[<<c, sequence'[c]>>] = Size[<<c, sequence[c]>>]
      BY <1>3, <2>1, <3>2
    <3>4. /\ replies'[c] = replies[c] /\ outbox'[c] = outbox[c]
          /\ c \in routes' <=> c \in routes
      BY <1>1, <2>1
    <3> QED BY <3>1, <3>3, <3>4 DEF InTheSystem, Unreachable
  <2> QED BY <1>3, <2>1 DEF NotLost
\* A request in the outbox is in the system.
<1>4. ASSUME Finite', NEW i \in 1 .. Len(outbox'[d]), outbox'[d][i] = sequence'[d],
             sequence'[d] \in Nat
      PROVE  InTheSystem(d)'
  <2> DEFINE n == sequence'[d]
  <2>1. Held'[<<d, n>>][InOutbox] = At(outbox'[d], n)
    BY <1>4, ShapeNext
  <2>2. Held'[<<d, n>>][InOutbox] # {}
    BY <1>4, <2>1 DEF At
  <2>3. IsFiniteSet(Flat(Held'[<<d, n>>]))
    BY <1>4 DEF Finite
  <2> HIDE DEF n
  <2>4. Cardinality(Flat(Held'[<<d, n>>])) > 0
    BY <2>2, <2>3, SomeCopy, SpotFacts
  <2>5. Size'[<<d, n>>] = Cardinality(Flat(Held'[<<d, n>>]))
    BY <1>4 DEF Size, n
  <2> QED BY <2>4, <2>5 DEF InTheSystem, n
<1>5. \A c \in Clients, n \in Nat : c # d => Size'[<<c, n>>] = Size[<<c, n>>]
  BY <1>0, <1>1, QuietCopies
<1>6. CASE ClientSend(d)
  <2>1. /\ cpc[d] = "send" /\ cpc'[d] = "poll" /\ ReqSend(d, sequence[d])
        /\ sequence' = sequence /\ retries' = retries
    BY <1>0, <1>6 DEF ClientSend
  <2>2. ASSUME NEW c \in Clients, NEW n \in Nat
        PROVE  Counted(c, n) /\ Size'[<<c, n>>] <= Allowed(c, n)'
    <3>1. /\ Counted(c, n)
          /\ Size'[<<c, n>>] <= Size[<<c, n>>] + (IF c = d /\ n = sequence[d] THEN 1 ELSE 0)
      BY <1>0, <1>1, <2>1, SendCopies
    <3>2. Size[<<c, n>>] \in Nat /\ Size'[<<c, n>>] \in Nat
      BY <3>1 DEF Counted
    <3>3. CASE c = d /\ n = sequence[d]
      <4>1. Allowed(c, n) = 0 /\ Allowed(c, n)' = MAX_RETRIES - retries[d] + 1
        BY <2>1, <3>3 DEF Allowed
      <4>2. retries[d] \in 0 .. MAX_RETRIES /\ Size[<<c, n>>] <= 0
        BY <1>0, <1>2, <4>1
      <4> QED BY <1>0, <3>1, <3>2, <3>3, <4>1, <4>2
    <3>4. CASE c = d /\ n # sequence[d]
      <4>1. Allowed(c, n)' = Allowed(c, n)
        BY <2>1, <3>4 DEF Allowed
      <4> QED BY <1>2, <3>1, <3>2, <3>4, <4>1
    <3>5. CASE c # d
      BY <1>2, <3>1, <3>2, <3>5
    <3> QED BY <3>3, <3>4, <3>5
  <2>3. Finite' /\ FewCopies'
    BY <2>2, FewNext
  <2>4. InTheSystem(d)'
    <3> DEFINE i == Len(outbox[d]) + 1
    <3>1. outbox'[d] = Append(outbox[d], sequence[d]) /\ outbox[d] \in Seq(Nat)
      BY <1>0, <2>1 DEF ReqSend
    <3>2. i \in 1 .. Len(outbox'[d]) /\ outbox'[d][i] = sequence'[d] /\ sequence'[d] \in Nat
      BY <1>0, <2>1, <3>1
    <3> HIDE DEF i
    <3> QED BY <1>4, <2>3, <3>2
  <2> QED BY <1>3, <1>5, <2>3, <2>4
<1>7. CASE ClientReceive(d)
  <2>1. /\ cpc[d] = "poll" /\ cpc'[d] = "send" /\ replies[d] # << >> /\ ReqReceive(d)
        /\ sequence'[d] = sequence[d] + 1 /\ retries[d] > 0
    BY <1>0, <1>7 DEF ClientReceive, CopyInv, IInv, RetryInv
  <2>2. ASSUME NEW c \in Clients, NEW n \in Nat
        PROVE  Counted(c, n) /\ Size'[<<c, n>>] <= Allowed(c, n)'
    <3>1. Counted(c, n) /\ Size'[<<c, n>>] <= Size[<<c, n>>]
      BY <1>0, <1>1, <2>1, ReceiveCopies
    <3>2. Size[<<c, n>>] \in Nat /\ Size'[<<c, n>>] \in Nat
      BY <3>1 DEF Counted
    <3>3. CASE c = d
      <4>1. retries[d] \in 1 .. MAX_RETRIES /\ sequence[d] \in Nat
        BY <1>0, <2>1
      <4>2. Allowed(c, n)' = IF n < sequence[d] + 1 THEN MAX_RETRIES ELSE 0
        BY <2>1, <3>3, <4>1 DEF Allowed
      <4>3. Allowed(c, n) <= IF n < sequence[d] + 1 THEN MAX_RETRIES ELSE 0
        BY <1>0, <2>1, <3>3, <4>1 DEF Allowed
      <4> QED BY <1>0, <1>2, <3>1, <3>2, <4>2, <4>3
    <3>4. CASE c # d
      BY <1>2, <3>1, <3>2, <3>4
    <3> QED BY <3>3, <3>4
  <2>3. Finite' /\ FewCopies'
    BY <2>2, FewNext
  <2> QED BY <1>3, <1>5, <2>1, <2>3
<1>8. CASE ClientTimeout(d)
  <2>1. /\ cpc[d] = "poll" /\ sequence' = sequence /\ retries'[d] = retries[d] - 1
        /\ retries[d] > 0
    BY <1>0, <1>8 DEF ClientTimeout, AttemptsLeft, CopyInv, IInv, RetryInv
  <2>2. PICK unsent \in {<< >>, <<sequence[d]>>} :
          /\ ReplaceSocket(d, unsent)
          /\ \/ unsent = <<sequence[d]>> /\ cpc'[d] = "poll"
             \/ unsent = << >> /\ cpc'[d] = "exited"
    BY <1>0, <1>8, <2>1 DEF ClientTimeout, Reopen, CloseSocket
  <2>3. ASSUME NEW c \in Clients, NEW n \in Nat
        PROVE  Counted(c, n) /\ Size'[<<c, n>>] <= Allowed(c, n)'
    <3>1. /\ Counted(c, n)
          /\ Size'[<<c, n>>] <= Size[<<c, n>>] + (IF c = d /\ n = sequence[d] THEN 1 ELSE 0)
      <4>1. /\ Counted(c, n)
            /\ Size'[<<c, n>>] <= Size[<<c, n>>]
                  + (IF c = d /\ n = sequence[d] /\ unsent # << >> THEN 1 ELSE 0)
        BY <1>0, <1>1, <2>2, ReplaceCopies
      <4> QED BY <4>1 DEF Counted
    <3>2. Size[<<c, n>>] \in Nat /\ Size'[<<c, n>>] \in Nat
      BY <3>1 DEF Counted
    <3>3. CASE c = d /\ n = sequence[d]
      <4>1. retries[d] \in 0 .. MAX_RETRIES
        BY <1>0
      <4>2. /\ Allowed(c, n) = MAX_RETRIES - retries[d] + 1
            /\ Allowed(c, n)' = MAX_RETRIES - (retries[d] - 1) + 1
        BY <2>1, <2>2, <3>3 DEF Allowed
      <4>3. Size'[<<c, n>>] <= Size[<<c, n>>] + 1 /\ Size[<<c, n>>] <= Allowed(c, n)
        BY <1>2, <3>1, <3>3
      <4>4. MAX_RETRIES \in Nat /\ retries[d] \in Int
        BY <1>0, <4>1
      <4>5. Allowed(c, n)' = Allowed(c, n) + 1 /\ Allowed(c, n) \in Int
        BY <4>2, <4>4
      <4> QED BY <3>1, <3>2, <4>3, <4>5
    <3>4. CASE c = d /\ n # sequence[d]
      <4>1. Allowed(c, n)' = Allowed(c, n)
        BY <2>1, <3>4 DEF Allowed
      <4> QED BY <1>2, <3>1, <3>2, <3>4, <4>1
    <3>5. CASE c # d
      <4>1. Size'[<<c, n>>] <= Size[<<c, n>>] /\ Allowed(c, n)' = Allowed(c, n)
        BY <1>2, <3>1, <3>2, <3>5
      <4> QED BY <1>2, <3>1, <3>2, <4>1
    <3> QED BY <3>3, <3>4, <3>5
  <2>4. Finite' /\ FewCopies'
    BY <2>3, FewNext
  <2>5. cpc'[d] = "poll" => InTheSystem(d)'
    <3> SUFFICES ASSUME cpc'[d] = "poll" PROVE InTheSystem(d)'
      OBVIOUS
    <3>1. outbox'[d] = <<sequence[d]>>
      BY <1>0, <2>2 DEF ReplaceSocket
    <3>2. 1 \in 1 .. Len(outbox'[d]) /\ outbox'[d][1] = sequence'[d] /\ sequence'[d] \in Nat
      BY <1>0, <2>1, <3>1
    <3> QED BY <1>4, <2>4, <3>2
  <2> QED BY <1>3, <1>5, <2>4, <2>5
<1> QED
  BY <1>6, <1>7, <1>8 DEF ClientStep, Client

LEMMA AtMost ==
    ASSUME \A c \in Clients, n \in Nat : Counted(c, n) /\ Size'[<<c, n>>] = Size[<<c, n>>]
    PROVE  \A c \in Clients, n \in Nat : Counted(c, n) /\ Size'[<<c, n>>] <= Size[<<c, n>>]
<1> TAKE c \in Clients, n \in Nat
<1>1. Counted(c, n) /\ Size'[<<c, n>>] = Size[<<c, n>>]
  OBVIOUS
<1>2. Size'[<<c, n>>] \in Nat
  BY <1>1 DEF Counted
<1> DEFINE k == Size[<<c, n>>]
           j == Size'[<<c, n>>]
<1> HIDE DEF k, j
<1>3. j \in Nat /\ j = k
  BY <1>1, <1>2 DEF j, k
<1>4. j <= k
  BY <1>3
<1> QED BY <1>1, <1>4 DEF j, k

LEMMA NetworkCopyStep ==
    ASSUME CopyInv, TypeOK', NEW d \in Clients, NetworkStep(d)
    PROVE  Finite' /\ FewCopies' /\ NotLost'
<1>0. /\ TypeOK /\ Finite /\ FewCopies /\ NotLost /\ UNCHANGED <<clientVars, wpc, job, bpc, replies>>
      /\ outbox \in [Clients -> Seq(Nat)] /\ sequence \in [Clients -> Nat]
  BY DEF CopyInv, IInv, TypeOK, SocketsTypeOK, ClientTypeOK, NetworkStep, Transmit, Refuse,
         brokerVars, workerVars
<1>1. Crashed' = Crashed
  BY <1>0 DEF Crashed
<1>2. CASE Transmit(d)
  <2>1. \A c \in Clients, n \in Nat : Counted(c, n) /\ Size'[<<c, n>>] = Size[<<c, n>>]
    BY <1>0, <1>2, TransmitCopies
  <2>2. \A c \in Clients, n \in Nat : Counted(c, n) /\ Size'[<<c, n>>] <= Size[<<c, n>>]
    BY <2>1, AtMost
  <2>3. ASSUME NEW c \in Clients, InTheSystem(c) PROVE InTheSystem(c)'
    <3>1. Size'[<<c, sequence'[c]>>] = Size[<<c, sequence[c]>>]
      BY <1>0, <2>1 DEF clientVars
    <3>2. Unreachable(c) => Unreachable(c)'
      BY <1>0, <1>2 DEF Transmit, Unreachable
    <3> QED BY <1>0, <2>3, <3>1, <3>2 DEF InTheSystem
  <2> QED BY <1>0, <1>1, <2>2, <2>3, FewKept, LostKept
<1>3. CASE Refuse(d)
  <2>1. \A c \in Clients, n \in Nat : /\ Counted(c, n) /\ Size'[<<c, n>>] <= Size[<<c, n>>]
                                      /\ c # d => Size'[<<c, n>>] = Size[<<c, n>>]
    BY <1>0, <1>3, RefuseCopies
  <2>2. ASSUME NEW c \in Clients, InTheSystem(c) PROVE InTheSystem(c)'
    <3>1. CASE c = d
      BY <1>0, <1>3, <3>1 DEF InTheSystem, Unreachable, Refuse, IdentityKept
    <3>2. CASE c # d
      <4>1. Size'[<<c, sequence'[c]>>] = Size[<<c, sequence[c]>>]
        BY <1>0, <2>1, <3>2 DEF clientVars
      <4>2. Unreachable(c) => Unreachable(c)'
        BY <1>0, <1>3 DEF Refuse, Unreachable
      <4> QED BY <1>0, <2>2, <4>1, <4>2 DEF InTheSystem
    <3> QED BY <3>1, <3>2
  <2> QED BY <1>0, <1>1, <2>1, <2>2, FewKept, LostKept
<1> QED
  BY <1>2, <1>3 DEF NetworkStep

LEMMA BrokerCopyStep ==
    ASSUME Anonymous = {}, CopyInv, TypeOK', BrokerStep \/ BrokerStop
    PROVE  Finite' /\ FewCopies' /\ NotLost'
<1>0. /\ IInv /\ TypeOK /\ Finite /\ FewCopies /\ LastInv /\ NotLost
      /\ UNCHANGED <<clientVars, wpc, job>>
      /\ outbox \in [Clients -> Seq(Nat)] /\ sequence \in [Clients -> Nat]
      /\ replies \in [Clients -> Seq(Nat)]
  BY DEF CopyInv, IInv, TypeOK, SocketsTypeOK, ClientTypeOK, BrokerStep, BrokerStop, workerVars
<1>1. Crashed' = Crashed
  BY <1>0 DEF Crashed
<1>2. ASSUME bpc # "closed", UNCHANGED <<replies, outbox, routes>>,
             \A c \in Clients, n \in Nat : Counted(c, n) /\ Size'[<<c, n>>] = Size[<<c, n>>]
      PROVE  Finite' /\ FewCopies' /\ NotLost'
  <2>1. \A c \in Clients, n \in Nat : Counted(c, n) /\ Size'[<<c, n>>] <= Size[<<c, n>>]
    BY <1>2, AtMost
  <2>2. ASSUME NEW c \in Clients, InTheSystem(c) PROVE InTheSystem(c)'
    <3>1. Size'[<<c, sequence'[c]>>] = Size[<<c, sequence[c]>>]
      BY <1>0, <1>2 DEF clientVars
    <3> QED BY <1>2, <2>2, <3>1 DEF InTheSystem, Unreachable
  <2> QED BY <1>0, <1>1, <1>2, <2>1, <2>2, FewKept, LostKept
<1>3. CASE BrokerPoll \/ BrokerDone \/ BrokerInterrupted
  <2>1. bpc # "closed" /\ UNCHANGED socketVars
    BY <1>3 DEF BrokerPoll, BrokerDone, BrokerInterrupted
  <2>2. \A c \in Clients, n \in Nat : Counted(c, n) /\ Size'[<<c, n>>] = Size[<<c, n>>]
    BY <1>0, <2>1, QuietCopies DEF socketVars
  <2> QED BY <1>2, <2>1, <2>2 DEF socketVars
<1>4. ASSUME NEW w \in Workers, BackendFrom(w)
      PROVE  Finite' /\ FewCopies' /\ NotLost'
  <2>1. \A c \in Clients, n \in Nat :
           /\ Counted(c, n) /\ Size'[<<c, n>>] <= Size[<<c, n>>]
           /\ c \in routes => Size'[<<c, n>>] = Size[<<c, n>>]
    BY <1>0, <1>4, BackendCopies
  <2>2. Finite' /\ FewCopies'
    BY <1>0, <2>1, FewKept
  <2>3. ASSUME NEW c \in Clients, InTheSystem(c), cpc[c] = "poll" PROVE InTheSystem(c)'
    <3>1. UNCHANGED <<outbox, routes, sequence>> /\ sequence[c] \in Nat /\ outbox[c] \in Seq(Nat)
      BY <1>0, <1>4 DEF BackendFrom, clientVars
    <3>2. CASE replies[c] # << >>
      <4>1. \/ replies' = replies
            \/ \E id, n : replies' = Delivered(id, n)
        BY <1>4 DEF BackendFrom
      <4>2. replies'[c] # << >>
        BY <1>0, <3>2, <4>1 DEF Delivered
      <4> QED BY <4>2 DEF InTheSystem
    <3>3. CASE c \in routes
      <4>1. Size'[<<c, sequence'[c]>>] = Size[<<c, sequence[c]>>]
        BY <2>1, <3>1, <3>3
      <4> QED BY <2>3, <3>1, <3>2, <3>3, <4>1 DEF InTheSystem, Unreachable
    <3>4. CASE c \notin routes /\ outbox[c] # << >>
      <4> DEFINE n == sequence[c]
      <4>1. Len(outbox[c]) \in 1 .. Len(outbox[c]) /\ outbox[c][Len(outbox[c])] = n
        BY <1>0, <2>3, <3>1, <3>4 DEF LastInv
      <4>2. Held'[<<c, n>>][InOutbox] = At(outbox'[c], n) /\ outbox'[c] = outbox[c]
        BY <3>1, ShapeNext
      <4>3. Held'[<<c, n>>][InOutbox] # {}
        BY <4>1, <4>2 DEF At
      <4>4. IsFiniteSet(Flat(Held'[<<c, n>>])) /\ Size'[<<c, n>>] = Cardinality(Flat(Held'[<<c, n>>]))
        BY <2>2, <3>1 DEF Finite, Size
      <4> HIDE DEF n
      <4>5. Size'[<<c, n>>] > 0
        BY <4>3, <4>4, SomeCopy, SpotFacts
      <4> QED BY <3>1, <4>5 DEF InTheSystem, n
    <3>5. CASE c \notin routes /\ outbox[c] = << >>
      BY <3>1, <3>5 DEF InTheSystem, Unreachable
    <3> QED BY <3>3, <3>4, <3>5
  <2>4. bpc # "closed"
    BY <1>4 DEF BackendFrom
  <2> QED BY <1>0, <1>1, <2>2, <2>3, <2>4, LostKept
<1>5. ASSUME NEW d \in Clients, FrontendFrom(d)
      PROVE  Finite' /\ FewCopies' /\ NotLost'
  <2>1. \A c \in Clients, n \in Nat : Counted(c, n) /\ Size'[<<c, n>>] = Size[<<c, n>>]
    BY <1>0, <1>5, FrontendCopies
  <2> QED BY <1>2, <1>5, <2>1 DEF FrontendFrom
<1> QED
  BY <1>3, <1>4, <1>5 DEF BrokerStep, BrokerStop, Broker

LEMMA WorkerCopyStep ==
    ASSUME Anonymous = {}, CopyInv, TypeOK', NEW w \in Workers, WorkerStep(w) \/ Crash(w)
    PROVE  Finite' /\ FewCopies' /\ NotLost'
<1>0. /\ IInv /\ TypeOK /\ Finite /\ FewCopies /\ NotLost /\ UNCHANGED <<clientVars, bpc>>
      /\ sequence \in [Clients -> Nat]
      /\ wpc \in [Workers -> {"start", "recv", "busy", "crashed"}]
  BY DEF CopyInv, IInv, TypeOK, ClientTypeOK, WorkerTypeOK, WorkerStep, Crash, brokerVars
<1>1. CASE Worker(w)
  <2>1. \A c \in Clients, n \in Nat : Counted(c, n) /\ Size'[<<c, n>>] = Size[<<c, n>>]
    BY <1>0, <1>1, WorkerCopies
  <2>2. \A c \in Clients, n \in Nat : Counted(c, n) /\ Size'[<<c, n>>] <= Size[<<c, n>>]
    BY <2>1, AtMost
  <2>3. UNCHANGED <<outbox, replies, routes>>
    BY <1>1 DEF Worker, WorkerStart, WorkerReceive, WorkerReply, WorkerSend
  <2>4. Crashed' = Crashed
    BY <1>0, <1>1 DEF Worker, WorkerStart, WorkerReceive, WorkerReply, Crashed
  <2>5. ASSUME NEW c \in Clients, InTheSystem(c) PROVE InTheSystem(c)'
    <3>1. Size'[<<c, sequence'[c]>>] = Size[<<c, sequence[c]>>]
      BY <1>0, <2>1 DEF clientVars
    <3> QED BY <2>3, <2>5, <3>1 DEF InTheSystem, Unreachable
  <2> QED BY <1>0, <2>2, <2>4, <2>5, FewKept, LostKept
<1>2. CASE WorkerCrash(w)
  <2>1. \A c \in Clients, n \in Nat : Counted(c, n) /\ Size'[<<c, n>>] <= Size[<<c, n>>]
    BY <1>0, <1>2, CrashCopies
  <2>2. w \in Crashed'
    BY <1>0, <1>2 DEF WorkerCrash, Crashed
  <2> QED BY <1>0, <2>1, <2>2, FewKept DEF NotLost
<1> QED
  BY <1>1, <1>2 DEF WorkerStep, Crash

-----------------------------------------------------------------------------
(* The theorems about the copies, for clients that announce their identity.   *)

LEMMA CopiesInductive == ASSUME Anonymous = {} PROVE Spec => []CopyInv
<1>1. Init => CopyInv
  BY InitIInv, InitCopies DEF CopyInv
<1>2. CopyInv /\ [Next]_vars => CopyInv'
  <2> SUFFICES ASSUME CopyInv, [Next]_vars PROVE CopyInv'
    OBVIOUS
  <2>0. IInv /\ TypeOK /\ LastInv
    BY DEF CopyInv, IInv
  <2>1. CASE Next
    <3>1. IInv'
      BY <2>0, <2>1, TypeStep, RetryStep, PollStep, AttachedStep, TurnStep DEF IInv
    <3>2. TypeOK'
      BY <3>1 DEF IInv
    <3>3. LastInv'
      BY <2>0, <2>1, LastStep
    <3>4. Finite' /\ FewCopies' /\ NotLost'
      BY <2>1, <3>2, ClientCopyStep, NetworkCopyStep, BrokerCopyStep, WorkerCopyStep DEF Next
    <3> QED BY <3>1, <3>3, <3>4 DEF CopyInv
  <2>2. CASE UNCHANGED vars
    <3> USE <2>2 DEF vars, socketVars, clientVars, brokerVars, workerVars
    <3>1. IInv'
      BY <2>0 DEF IInv, TypeOK, SocketsTypeOK, ClientTypeOK, BrokerTypeOK, WorkerTypeOK,
                  RetryInv, PollInv, AttachedInv, OneTurnPerWorker, Turns, Queued, Idle
    <3>2. TypeOK'
      BY <3>1 DEF IInv
    <3>3. LastInv'
      BY <2>0 DEF LastInv
    <3>4. \A c \in Clients, n \in Nat : Counted(c, n) /\ Size'[<<c, n>>] = Size[<<c, n>>]
      <4>1. Finite /\ UNCHANGED <<outbox, requests, replies, notices, tasks, wpc, job>>
        BY DEF CopyInv
      <4> QED BY <2>0, <3>2, <4>1, QuietCopies
    <3>5. \A c \in Clients, n \in Nat : Counted(c, n) /\ Size'[<<c, n>>] <= Size[<<c, n>>]
      BY <3>4, AtMost
    <3>6. Finite' /\ FewCopies'
      BY <2>0, <3>5, FewKept DEF CopyInv
    <3>7. ASSUME NEW c \in Clients, InTheSystem(c) PROVE InTheSystem(c)'
      <4>1. sequence[c] \in Nat
        BY <2>0 DEF TypeOK, ClientTypeOK
      <4>2. Size'[<<c, sequence'[c]>>] = Size[<<c, sequence[c]>>]
        BY <3>4, <4>1
      <4> QED BY <3>7, <4>2 DEF InTheSystem, Unreachable
    <3>8. Crashed' = Crashed
      BY DEF Crashed
    <3>9. NotLost'
      BY <2>0, <3>7, <3>8, LostKept DEF CopyInv
    <3> QED BY <3>1, <3>3, <3>6, <3>9 DEF CopyInv
  <2> QED BY <2>1, <2>2
<1> QED
  BY <1>1, <1>2, PTL DEF Spec

\* A client that retries, whose replies come late and whose connection is
\* replaced, never has more copies of a request in the system than attempts
\* it made (simple-pirate-client.cpp:42-88).
THEOREM RetriesAreBounded == ASSUME Anonymous = {} PROVE Spec => []CopiesBounded
<1>1. CopyInv => CopiesBounded
  <2> SUFFICES ASSUME CopyInv, NEW c \in Clients, NEW n \in 0 .. MaxSeq
               PROVE  Copies(c, n) <= Allowed(c, n)
    BY DEF CopiesBounded, Allowed
  <2>1. n \in Nat
    BY ClientAssumption
  <2>2. Copies(c, n) = Size[<<c, n>>]
    BY <2>1, CopiesAre DEF Size
  <2> QED BY <2>1, <2>2 DEF CopyInv, FewCopies
<1> QED
  BY <1>1, CopiesInductive, PTL

\* Without a crash, the request a client waits for, or an answer to it, is on
\* its way or the frontend refused the client's connection.
THEOREM NothingLostSilently == ASSUME Anonymous = {} PROVE Spec => []NoSilentLoss
<1>1. CopyInv => NoSilentLoss
  <2> SUFFICES ASSUME CopyInv, Crashed = {}, bpc # "closed", NEW c \in Clients, cpc[c] = "poll"
               PROVE  replies[c] # << >> \/ Copies(c, sequence[c]) > 0 \/ Unreachable(c)
    BY DEF NoSilentLoss
  <2>1. sequence[c] \in Nat
    BY DEF CopyInv, IInv, TypeOK, ClientTypeOK
  <2>2. Copies(c, sequence[c]) = Size[<<c, sequence[c]>>]
    BY <2>1, CopiesAre DEF Size
  <2>3. InTheSystem(c)
    BY DEF CopyInv, NotLost
  <2> QED BY <2>2, <2>3 DEF InTheSystem
<1> QED
  BY <1>1, CopiesInductive, PTL
=============================================================================
