# zmq-scratch in TLA+

The repository is a collection of ZeroMQ programs, most of them after the
patterns of the ZeroMQ guide. This directory holds TLA+ models of its core (the
reliable request-reply patterns, the load balancer and the peer brokers) and of
its other concurrent programs (the asynchronous server, the broadcast, the file
transfer, publish-subscribe and the encrypted hello world), the TLC
configurations that check them on small instances, and TLAPS proofs of the
properties that matter most for instances of any size.

    tlc -config SimplePirate.cfg SimplePirate.tla      # a run
    tlapm SimplePirate_proof.tla                       # a proof

Line numbers refer to the sources as they are in this repository.

## 1. Inventory

### The system's parts

| part | source | state | operations | talks to |
|---|---|---|---|---|
| simple pirate client | `reliable-req-rep/simple-pirate-client.cpp` | sequence number, retries left, its REQ socket | send; poll; read a reply; on a timeout close the socket and send again; give up | broker's frontend |
| simple pirate broker | `simple-pirate-broker.cpp` | deque of idle workers, count of replies | poll; read a worker's READY or reply; forward a request; exit | clients (ROUTER), workers (ROUTER) |
| simple pirate worker | `simple-pirate-worker.cpp` | the request in hand | READY; receive; reply; simulated crash and overload | broker's backend |
| lazy pirate | `lazy-pirate.cpp` | client: as above; server: the request in hand | client: as above; server: start, receive, reply, crash | REQ to REP, no broker |
| paranoid pirate broker | `paranoid-pirate-broker.cpp` | set of workers with timestamps, count of replies | purge the expired; poll; list a worker that was heard; forward to one; heartbeat all; exit | clients, workers (ROUTER) |
| paranoid pirate worker | `paranoid-pirate-worker.cpp` | liveness and retry counters, the request in hand, its DEALER socket | READY when a poll times out; receive; reply; crash; reconnect; give up | broker's backend |
| load balancer | `router/load-balancer.cpp` | the simple broker's, and the threads of its clients and workers | the simple broker's loop; end of the process | threads over TCP |
| peer brokers | `peer-brokers/peering.cpp` | deque of idle workers; seven kinds of sockets | start-up handshake; route replies; route requests to a worker or a peer | own clients and workers, all other brokers |
| asynchronous server | `router-dealer/asyncsrv.cpp` | none beyond the sockets | clients send once a second; `zmq_proxy` deals out in turn; workers answer one to five times; main returns | threads |
| broadcast | `bcast/ipcbcast.cpp` | none beyond the sockets | bind the first free port, connect to all, push, read from each | N threads |
| file transfer | `filetransfer/file-send.cpp`, `file-receive.cpp` | position in the file, chunk counters, buffers | sizes, chunks and the rest, each acknowledged | REQ to REP |
| publish-subscribe | `pubsub/`, `multi-part/`, `multipart.h` | what the next frame is taken for | publish; forward messages and subscriptions (`zmq_proxy`); read by frame or by message | PUB, XSUB/XPUB, SUB |
| encrypted hello world | `encryption/` | nonce, keys, secret, the sizes of buffers | three handshake messages, then encrypted greetings | several REQ to one REP |
| router to router | `router-envelope/*.cpp` | none | notify, then one message between two ROUTERs | two processes |
| the rest | `simple/`, `stream/`, `scratch/`, benchmarks, helpers, build | - | straight-line examples | - |

`filetransfer/fastff.cpp` does not compile and `ipcbcast.cpp` calls itself in
progress.

### What is hard about it

* **Everything is concurrent.** Programs are processes or threads that share
  nothing but sockets, and libzmq's I/O threads move the messages between. A poll
  result is used after the poll; what a peer knows about a connection lags behind.
* **ROUTER sockets drop silently.** A message for an identity the socket does
  not know, or into a full pipe, is gone, and no return code says so. All
  recovery is by timeout.
* **Retries make copies.** A timed-out request is sent again while the first
  copy is still queued, worked on or on its way back. In most of the programs
  nothing in a reply is checked.
* **Workers are tracked by inference.** Brokers deduce from any message that its
  sender is idle, and from silence that it is gone.
* **Crashes** are simulated between reading a request and answering it, the worst
  place for them.
* **Everybody waits for everybody** when the peer brokers start and when the
  broadcast reads, and clients of the peer brokers have no timeout at all.
* **Messages are taken for what is expected next.** The encrypted server, the
  file receiver and the subscriber by frame look at the order of arrival and not
  at what they read; sizes cross the wire with another width than they have.
* **The end of main** ends threads that nobody has waited for.

### What makes each part correct

* simple broker: the queue names each idle worker exactly once and nobody else;
  it is never read when empty; no request gets lost while everybody lives; retries
  do not flood the system; every request is read in the end.
* lazy pirate: although the client checks nothing, it only ever gets the answer to
  its own request; what a server can read it reads, or goes down.
* paranoid broker: no empty set is popped; expired workers go, for good; live ones
  come back; requests are read all the same.
* load balancer: when the loop has counted enough replies every client has its own.
* peer brokers: nobody routes before it has shaken hands with all; every envelope
  leads home; a request is at one place at a time; brokers do not wait for each
  other for ever.
* asynchronous server: a request is at one place and gets one to five replies,
  all to the client that asked; order is kept per worker; nobody is passed over.
* broadcast: everybody finds a port; a program that ends has delivered one message
  of each thread to each other thread; connected threads do not hang.
* file transfer: what is written is the file's beginning, as long as the chunk's size
  arrives as it was sent; what is acknowledged is held; both ends agree on the number
  of messages.
* publish-subscribe: a subscriber by frame never takes a text for a process id
  behind a broker; who stays is served, whoever comes and goes.
* encrypted hello world: ends that greet have the same nonce, keys and secret;
  a buffer that Encrypt has shrunk still fits the answer.

## 2. Modules

    AtLeastOnce                 abstract: what a request-reply pattern promises
    PirateSockets               REQ - ROUTER - ROUTER - REQ, with identities
      PirateClient              simple-pirate-client.cpp
      SimpleBroker              simple-pirate-broker.cpp
      SimpleWorker              simple-pirate-worker.cpp
        SimplePirate            the three composed          -> SimplePirate_proof
        LoadBalancer            SimpleBroker + SimpleWorker + the balancer's clients
                                                            -> Completion_proof
      ParanoidSockets           DEALER workers, heartbeats, bounded pipes
        ParanoidBroker          paranoid-pirate-broker.cpp
        ParanoidWorker          paranoid-pirate-worker.cpp
          ParanoidPirate        PirateClient + both         -> ParanoidPirate_proof
    LazyPirate                  lazy-pirate.cpp, both roles -> LazyPirate_proof
    PeerHandshake               start-up of peering.cpp
      PeerBrokers               start-up and routing        -> PeerBrokers_proof
    FileTransfer                file-send.cpp, file-receive.cpp -> Completion_proof
    Broadcast                   ipcbcast.cpp                -> Rendezvous_proof
    EncryptedHello              encryption/                 -> Rendezvous_proof
    AsyncServer                 asyncsrv.cpp                -> Proxies_proof
    PubSub                      pubsub/, multi-part/        -> Proxies_proof
    SequenceFacts               lemmas on Append and Tail, on how many elements of a
                                kind a queue holds, and on totals, used by the proofs

Three proof modules hold two components each, which share no constant and no
variable and whose proofs do not refer to each other: programs that end when
everybody has been served (`Completion_proof`), that have to meet before they work
(`Rendezvous_proof`), and that have a `zmq_proxy` in the middle (`Proxies_proof`). One
component of each pair names its specification with a prefix: `BalancerSpec`,
`BroadcastSpec`, `AsyncSpec`, and likewise its `Init`, `Next` and invariant.

State variables keep the source's names where there is one (`worker_queue`,
`serviced_requests`, `sequence`, `retries`, `server_alive`, `numChunks`,
`tmpbuffer`; `wretries` is the worker's `retries`). `cpc`, `wpc`, `spc`, `rpc`,
`bpc`, `pc` and `phase` say where a thread is; `handled`, `lost` and `early` are
history variables. A definition whose comment starts with
"Mutant" is a wrong version of the definition after it, kept to see that the
properties notice; no specification uses it. Where a property has `TypeOK` as its
first conjunct, the type invariant is checked along with it.

### How the code is cut into actions

A thread's code between two blocking calls is one action: it is invisible to
others until it sends. The broker's `zmq_poll` is an action of its own, and what
it returned (`frontend_ready`) is state, because the code acts on it later, after
reading the backend. The exception is a worker's request: it is received in one
action and answered in another, since the simulated crash or overload happens in
between. The client's `zmq_poll` and the read or the timeout handling after it
are one action: nobody else reads the client's socket, so waiting for a reply to
appear after the poll timed out changes nothing (the code then closes the socket
without looking).

### How ZeroMQ is modelled

libzmq is not part of the repository. It is modelled from how the programs use
it, and only as far as they can tell:

* A pipe is a sequence; messages of one connection stay in order, those of
  different connections are read in any order.
* A ROUTER knows a peer by its announced identity once the connection is there,
  drops messages for an unknown identity, and keeps what a closed connection has
  delivered. While it keeps such messages the identity is taken, and a new
  connection with it is refused for good (`IdentityKept`, `Refuse`; likewise
  `Connect` of a paranoid worker). A refusal that would be over before the new
  connection sends is not distinguished from no refusal.
* `ZMQ_LINGER` 0 (`simple-pirate-client.cpp`, `lazy-pirate.cpp`): closing a
  socket discards what is unsent and unread (`ReplaceSocket`).
* A REQ socket discards waiting replies when it sends. A REP socket answers the
  connection a request came from; `LazyPirate` numbers connections (`conn`).
* An identity that libzmq generated has five bytes; the brokers read four
  (`Truncated`).
* `ParanoidSockets` bounds the pipes between broker and worker by `HWM`, because
  heartbeats to a sleeping worker have no other bound: a full ROUTER pipe drops,
  a full DEALER pipe blocks. The other pipes are bounded by the protocols.
* `Link` in `PeerBrokers` is the moment a connecting ROUTER learns the name of
  the peer; before it, messages to that peer are dropped.

Data is abstracted: a request is its client and number, an envelope is the
sequence of addresses it holds, texts, buffers and the empty delimiter frames are
left out. Identities, `WORKER_READY` (123) and `HEARTBEAT` (111) share one type
in the code; the models assume that nobody uses the two reserved values as an
identity (`IdAssumption`, `HeartbeatAssumption`), which the programs do not check.

### Choices specific to a module

* `SimpleWorker`, `ParanoidWorker`: crash and overload are chosen freely instead
  of by a random number; an overload is a delay and needs no action.
* `ParanoidBroker`: time is counted in units of the longest poll and passes only
  in the poll; an age beyond `EXPIRATION` is not distinguished from a larger one.
  The `std::set` is ordered by `operator<` of the conversion to `int`, so by
  identity, and not by the timestamps `operator>` compares: `Purged` and `Back`
  follow that order.
* `ParanoidWorker`: the lengths of the timeouts are left open, and with them the
  difference between the seconds of `POLL_INTERVAL` and the milliseconds
  `zmq_poll` takes (`:95`): what is shown holds for either.
* `LoadBalancer`: the loop is the simple broker's, line for line, with a bound
  equal to the number of clients; the end of the process stops every thread.
* `LazyPirate`: the server is started and restarted by hand, so never forced to.
* `PeerBrokers` extends `PeerHandshake`: a broker starts its clients and workers,
  shakes hands, and then enters its loop, while its peers are wherever they are.
  `Link`, the connection of a cloud backend, needs both brokers to be started and
  nothing else, so it may come long after the handshake. `lost` records what a
  cloud backend dropped before its `Link`.
* `AsyncServer`: the hundred polls between two requests bound nothing, so a client
  may send at any time. The worker's identity buffer keeps the last request's
  identity, as in the code, and a reply names the worker for the properties only.
  `MainReturns` stops all threads wherever they are.
* `Broadcast`: PUSH deals messages out in turn to the connections it has at that
  moment, which `Link` adds in any order. One port may belong to another program.
* `FileTransfer`: the file's i-th byte is i, so that what is written tells where it
  came from. `size_t` and `int` differ: `AsInt` is the low bytes of a size sent
  with the size of an int, `ToInt` the conversion to a signed int. A loop whose
  count is negative ends only by an overflow, which C++ leaves undefined: it may
  also not end (`Rounds`, `MaxRounds`). A short read leaves the buffer's old bytes.
* `PubSub`: one module for the two publishers behind a broker and the one that is
  connected to directly; `direct` chooses, once. A full pipe drops whole messages,
  which is what libzmq promises; a frame is its kind and its process. Publishers
  filter by what the broker last told them (`known`).
* `EncryptedHello`: libsodium is a record of who made a message with whose keys; it
  opens for the end that has the matching ones and the right nonce. `tmpbuffer`
  keeps sizes, because the programs decrypt as many bytes as the last `Encrypt`
  left in it. The server serves any client that is connected, as a REP does.

## 3. Runs

Every passing run terminates with its whole state space explored.
`CHECK_DEADLOCK FALSE` is set in all of them but `pub_sub`, because these systems
may stop: brokers exit after their requests or on an interrupted poll, clients give
up or reach the model's last request, workers wait for a broker that has gone, a
broadcast or a transfer comes to its end, the encrypted server throws. That nobody
stops too early is what the liveness properties say.

| run | instance | states | properties |
|---|---|---|---|
| `simple_pirate` | 2 clients, 2 workers, 2 attempts, 3 replies | 62,695 | `TypeOK` `OneTurnPerWorker` `FrontIsIdle` `CopiesBounded` `NoSilentLoss` `RequestsAreRead` `ClientsMoveOn` |
| `lazy_pirate` | 2 clients, 3 attempts, 2 requests each | 66,285 | `AnswersMatch` `OneRequestPerConnection` `RequestsAreRead` `ImplementsAtLeastOnce` |
| `paranoid_pirate` | 1 client, 2 workers, 1 attempt | 128,848 | `PopIsSafe` `NoneExpiredAfterPurge` `GoneWorkersForgotten` `RequestsAreRead` `HeardWorkersListed` |
| `paranoid_pirate_reconnect` | 1 client, 3 attempts, 1 worker that reconnects twice | 94,596 | `LiveWorkersComeBack` `RequestsAreTaken` |
| `load_balancer` | 3 clients, 2 workers | 10,703 | `AllServedAtExit` `Terminates` `ImplementsAtLeastOnce` |
| `peer_brokers` | 2 brokers with 2 clients and 1 worker each, from the start of the first | 224,829 | `HandshakeIsMutual` `OneTurnPerWorker` `EnvelopesLeadHome` `OneCopyPerRequest` `EveryRequestAnswered` |
| `async_server` | 2 clients, 3 requests, 2 workers, up to 2 replies | 176,876 | `OneToFiveReplies` `SameWorkerInOrder` `EveryRequestServed` |
| `broadcast` | 3 threads, all ports free or one taken | 257,783 | `EveryoneBinds` `BroadcastWhenDone` `FinishesIfConnected` |
| `file_transfer` | files and chunks of up to 12 bytes, ints of 3 bits | 5,315 | `WrittenIsPrefix` `AckedIsHeld` `TransferCompletes` |
| `pub_sub` | 2 publishers, 2 subscribers (one of each kind), with and without a broker | 52,296 | `InStep` `KeepsPrinting` |
| `encrypted_hello` | 3 clients, a server | 380 | `BothAgree` `FailsOnlyIfCrowded` `KeepsGreeting` |

One more run, `simple_pirate_stale_reply`, checks a sentence of the repository
that the code does not keep, and ends with a counterexample: a reply with another
sequence number is an `ERROR: MALFORMED REPLY RECEIVED`
(`simple-pirate-client.cpp:60`), yet it ends the wait and the client goes on to the
next request (`:62-65`). After one retry, every answer may be the previous
request's.

Some properties exempt a failure that the code has. What they say holds otherwise; the
failure itself is in the model, and the properties do not rule it out:

* `OneCopyPerRequest` and `EveryRequestAnswered` say "or lost": a request passed on
  before the cloud backend is connected is dropped and its client waits for ever. "To
  make sure all peers are available to exchange messages an handshaking process takes
  pace" (`peering.cpp:20`), but that handshake goes over sockets of its own (`:180`,
  `:186`).
* `EveryRequestServed` says "or main has returned": "waits for the server to finish"
  (`asyncsrv.cpp:131`), but main returns as soon as it has started the threads (`:141`),
  and the process ends with requests unserved.
* `InStep` says "behind a broker": `pubsub/sub.cpp` reads a process id and a text, but
  `pubsub/pub.cpp` has the first `zmq_send` under `#if 0` (`:48`), so every second
  text is read as an id.
* `FinishesIfConnected` says "connected before they sent": a thread that pushes
  while only one peer is connected gives that peer everything, and the program
  hangs in the fixed order of its reads (`ipcbcast.cpp:62`).
* `FailsOnlyIfCrowded` says "one client": with a second one the server may take its
  nonce for the first one's key, and ends with an exception. `KeepsGreeting`, too,
  ends with the server.
* `WrittenIsPrefix` and `TransferCompletes` say "the chunk's size fits": a larger one
  reaches the receiver as another number.

Other sentences the code does not keep were met on the way and have no run:

* "use with *lazy* pirate client" (`simple-pirate-broker.cpp:5`): that client sets
  no identity, the broker keeps four of the five bytes it is given (`:86`,
  `Truncated`), and every reply is dropped.
* "remove all workers that have not been active for a time > expiration interval"
  (`paranoid-pirate-broker.cpp:134`): workers with a larger identity than an
  expired one go too, however fresh; their next READY brings them back.
* "add worker to list of available workers" (`:151`): a READY that crosses a
  request lists a worker that is about to be busy.
* The header of `paranoid-pirate-broker.cpp` says the workers are sorted by
  timestamp (`:11`), and a comment that workers answer heartbeats with READY
  (`:195`; they do only when a poll times out).
* The header of `peering.cpp` says requests go to peers when all local workers are
  busy (`:13`; a quarter of them go there, and only while one is idle).

### The bounds, and why they are enough

* Two clients and two workers show the interferences between them: queue order, two
  requests at once, one worker crashing while the other works, a reply to the
  wrong client. The safety properties are proved for any number of them, in every
  one of the systems. The paranoid runs have one client, as what the broker does
  with its workers does not depend on who asks.
* `MAX_RETRIES` is 5 in the source. It is 2 in `simple_pirate`, for one retry and
  so two copies, and 3 in `lazy_pirate`, for messages of two closed connections
  beside that of the open one; further retries repeat the same steps. It is 3 in
  `paranoid_pirate_reconnect`, where the copies of a request are the second and third
  requests that a busy worker may get, and 1 in `paranoid_pirate`, for its size.
* `MaxSeq` bounds the requests of a client, which the source does not. With 1, a
  client that was answered stays to receive late copies; with 2 (`lazy_pirate`)
  it waits for the next request meanwhile. The stale reply needs 2.
* `MAX_REQUESTS` is smaller than the source's, so that the broker's exit happens
  while there are clients and copies; `load_balancer` uses the source's value.
* `HWM` 1 in `paranoid_pirate` fills the pipe with the first heartbeat, so that
  dropping and blocking both happen; in `paranoid_pirate_reconnect` it is 2, so that a
  second request or a heartbeat can wait behind a request. libzmq's default is 1000.
* `EXPIRATION` is 1: a worker expires after two silent polls. `MAX_LIVENESS` 2
  lets a worker say READY once before it reconnects; a larger value repeats the same
  steps. `WORKER_RETRIES` is 3 in `paranoid_pirate_reconnect`, with one worker: it
  reconnects twice before it gives up, so that a connection that was refused is
  followed by one that is not. In `paranoid_pirate` it is 1 and there is one request,
  so no worker reconnects and none gets a second request: that run is about purges,
  heartbeats, and the loss of workers and of requests among two workers. Two workers
  that reconnect even once, and a client that retries, have 2.5 million states, too
  many for TLC to check liveness on. A worker that reconnects meets only its own old
  connection, and a second request only the first one's worker, so one worker shows
  both. `PopIsSafe` and `NoneExpiredAfterPurge` are proved for all values.
* Two brokers are enough for routing, since a request is passed on at most once;
  with both phases in one system three are too many for TLC. With two, each broker
  counts a single notification; that the count comes out right for more of them, and
  the invariants of the routing, are proved for any number of brokers.
* `PeerBrokers.MaxRequests` is 1 in the passing run: with the workers of both
  brokers shared by four clients, requests still queue behind each other.
* `FileTransfer`: `UINT` 8 stands for 2^32, so that files of up to 12 bytes meet
  every case: chunks that fit an int, that lose their high bits, that become zero;
  numbers of chunks that fit, turn negative, or wrap; files that are a multiple of
  the chunk or not. The two invariants are proved for any `UINT`.
  `MaxRounds` 12 is no less than the number of reads after which
  the sender has nothing left, and only stops a loop that never ends.
* `Broadcast.N` is 3, the smallest number with which one reader can get another's
  message; the program has 4. The two invariants are proved for any number.
* `AsyncServer`: two replies instead of five, and three requests, so that one client
  has two requests on the same worker and on different ones. `EveryRequestServed`
  does not bound the replies. The two invariants are proved for any bounds.
* `PubSub.HWM` 1 makes every pipe full with one message; libzmq's default is
  1000. Publishers send for ever; no counter has to be bounded.
* `EncryptedHello`: three clients, the smallest number with which nonce, key and
  secret can come from different ones. Nothing is bounded.

### Fairness

* Weak fairness of each client, each worker and the broker's loop: threads that
  never stop, and `zmq_poll` with a timeout in the clients and in the paranoid
  pirate. A crash, an exit, an interruption or a restart is never forced.
* Weak fairness of the network steps: libzmq sends what it can.
* Strong fairness of reading each connection (`Frontend(c)`, `Backend(w)`, the
  lazy server's `ServerReceive(c)`): a ROUTER or REP socket fair-queues its
  connections, so one that always has a message each time the socket is read is
  not passed over for ever.
* Strong fairness of `TimePasses` in the paranoid pirate: time goes on even if
  every single poll returns early.
* `PeerBrokers` has weak fairness of its start-up, of its loops, clients and workers
  and of libzmq's delivery of notifications; nobody has to start a broker, or to connect the cloud backends. Its clients
  make boundedly many requests, so the starvation the loop allows in principle (peers'
  replies wait while local workers send, clients wait while peers ask) cannot last.
  The program's clients sleep a second between requests, but nothing in it excludes
  the starvation; this is not shown.
* `AsyncServer`: weak fairness of each thread and of both directions of `zmq_proxy`,
  whose rounds read both sockets; no fairness of sending. Main's next step is to
  return, but whether before or after the threads get to run is the system's choice, so
  its return is left open too. Three requests cannot starve anybody.
* `Broadcast`: weak fairness of threads and connections. `FileTransfer`: of each
  program once started. `PubSub`: of publishers, of both directions of the proxy
  and of subscribers that run; starting and stopping is free. `EncryptedHello`:
  weak fairness of started clients and of the server's answer, strong fairness of
  serving each client, as a REP socket fair-queues.

## 4. Proofs

Every safety property that a passing run checks is stated by a theorem, and so is
each refinement of `AtLeastOnce`. The proofs hold for any sets of clients, workers,
brokers, threads, publishers and subscribers, and any bounds that satisfy the named
assumptions; those TLC evaluates in the runs. Beside the ranges of numbers and that
values are distinct, they say that there are finitely many brokers, as each counts
its peers (`BrokersAssumption`); and that the balancer has finitely many clients,
which all set an identity, and counts as many replies as there are clients
(`BalancerAssumption`, `load-balancer.cpp:38`, `:119`, `:132`). Every inductive
invariant was checked by TLC on a small instance before it was proved. `*_proof`
modules have one lemma per action, or per action and part of the invariant; the
theorems of a component come last.

| theorem | states | needs |
|---|---|---|
| `SimplePirate_proof`: `TypeCorrect` `WorkersTakeTurns` `DispatchIsSafe` | `TypeOK` `OneTurnPerWorker` `FrontIsIdle` | |
| `RetriesAreBounded` `NothingLostSilently` | `CopiesBounded` `NoSilentLoss` | `Anonymous = {}` |
| `LazyPirate_proof`: `TypeCorrect` `OnlyRightAnswers` `OneRequestAtATime` `KeepsPromise` | `TypeOK` `AnswersMatch` `OneRequestPerConnection` `ImplementsAtLeastOnce` | |
| `ParanoidPirate_proof`: `PopsFromNonEmpty` `PurgeIsComplete` | `PopIsSafe` `NoneExpiredAfterPurge` | |
| `PeerBrokers_proof`: `HandshakeTypeCorrect` `NobodyIsMissed` | `HandshakeTypeOK` `HandshakeIsMutual`, of the start-up alone | |
| `RoutesAfterGreeting` `WorkersTakeTurns` `MessagesLeadHome` `RequestsAreNotDoubled` | `HandshakeIsMutual` `OneTurnPerWorker` `EnvelopesLeadHome` `OneCopyPerRequest` | |
| `Completion_proof`, files: `TypeCorrect` `FileIsNotGarbled` `NothingAcknowledgedIsMissing` | `TypeOK` `WrittenIsPrefix` `AckedIsHeld` | |
| the load balancer: `BalancerServesAll` `BalancerKeepsPromise` | `AllServedAtExit` `ImplementsAtLeastOnce` | |
| `Rendezvous_proof`, encryption: `GreetersAgree` `AloneNobodyFails` | `BothAgree` `FailsOnlyIfCrowded` | |
| the broadcast: `NobodyIsLeftOut` `EndIsABroadcast` | `EveryoneBinds` `BroadcastWhenDone` | |
| `Proxies_proof`, publishers: `SubscribersStayInStep` | `InStep` | |
| the asynchronous server: `EachGetsItsReplies` `NothingOvertakes` | `OneToFiveReplies` `SameWorkerInOrder` | |

**`SimplePirate_proof`**: the first three theorems are proved from one inductive
invariant, `IInv`. `OneTurnPerWorker` carries it: a waiting worker has one turn, in
its message to the broker, in the queue, or in the request to it. It is inductive
only with `PollInv`, that what a poll found still holds when the frontend is read
(reading the backend in between only lengthens the queue), and `AttachedInv`, that
the backend knows every running worker, as otherwise a dispatched request could
vanish and take the turn with it. `RetryInv` keeps the retry counter from passing
zero. That the front is idle follows: a queued worker has its turn in the queue, so
it waits.

The other two count. `CopiesBounded` is about one set, gathered from all the places
a copy can be at; the proof gives each place its own finite set (`Held`), shows that
the size of the whole (`Size`) changes by what one place loses and another one gets
(`FlatChange`), and that every step moves one copy between two places, makes one (a
client's attempt, which also uses up a retry) or discards some. `NotLost` restates
`NoSilentLoss` with `Size`, and is inductive only with `LastInv`: the request at
hand is the last one in a client's pipe, so that nothing is taken for it. Both
theorems are about clients that set an identity (`Anonymous = {}`), as
`simple-pirate-client.cpp` does (`:37`, `:76`): the replies to other clients are
dropped by design of the broker's four-byte buffer, and of those nothing is claimed.

**`LazyPirate_proof`**: `KeepsPromise` says that the lazy pirate implements
`AtLeastOnce!Spec`. The client compares nothing, so the argument is about
connections: `OneAttempt` says that the current connection carries the request at
hand at one place, or its reply, or nothing; `AllGenuine` that whatever came over it
earlier had the same number and that no message is ahead of its client; `Answered`
that all numbers before the current one were handled. Replacing the socket makes the
connection number fresh, which is what `AllGenuine` bounds. Each step then is a step
of `AtLeastOnce` or changes nothing it sees.

**`ParanoidPirate_proof`**: `PopIsSafe` needs, with the types, that what the poll
found still holds at the pop (`PollInv`): between the two the broker may read a
worker's message, which never shrinks the set, and a purge comes only at the start
of a round. `RetryInv` bounds the counters of clients and workers. `PurgeIsComplete`
is about a step: the purge erases from the first expired worker to the end, so
whoever stays comes before it and has not expired, whatever the order of the set.

**`PeerBrokers_proof`**: the start-up code counts notifications and never looks at
their senders; `HandshakeInv` ties the counter to the number of peers still to be
answered (`Counted`), which needs that an answered notification is not sent again
(`Early`). Every step of the whole system is a step of the start-up or leaves
`handshakeVars` alone (`StepGreets`), so the invariant carries over. Three more
parts are inductive beside it. `Types` says of each queue what it may hold: an
envelope in a broker's queues ends at one of its own clients or goes back through
the peer it came from (`QueuesLeadHome`). `Turns` is the simple broker's argument
for every broker at once. `OneCopy` counts the copies of a request at each place
(`Held`) and says that all but one of the counts are zero; every step moves one
message from one place to another (`Moves`) or drops it and records that in `lost`.

**`Completion_proof`, file transfer**: neither program compares what it counts with
the other's count, so the invariant says how far they are apart. `WireInv` is the
lock step of REQ and REP; `SizesInv` says which sizes have arrived and with which
values, and that a receiver has crashed only on a chunk that does not fit an int;
`RoundsInv` what the numbers of rounds are. If the chunk arrived as it was sent and
neither loop is endless (`Sane`), `CountInv` relates the two loops' counters, and
`BytesInv` says that the bytes that were written, are held and are on the way are
those read from the file, in order. For the last piece it takes that as many chunks
are expected as are sent and that they cover no more than the file, also when their
number was cut to an int (`Numbers`). `AckedIsHeld` follows because sizes that fit
are `Sane`.

**`Completion_proof`, load balancer**: the loop counts the replies it has sent and
never looks at whom they are for, so `AllServedAtExit` needs that no client is
counted twice. `PlaceInv` says that the one request of a client is in one place:
with the client, read by the frontend, with one worker, or back as a reply. A worker
has at most one (`InHand`), because it has one turn (`ShapeInv`, the simple broker's
argument with what is queued, waits to be read or is at work told apart, which
`OneTurnPerWorker` does not need). A reply that is forwarded thus makes one more
client `Served`, and `ServedInv` says that the count is their number: when it is
that of the clients, everybody is served. A worker's request is known to the
frontend (`c \in routes`), so the reply is not dropped. `BalancerKeepsPromise` has
one lemma per action; with `HandledInv`, that replies are to requests a worker
handled, each step is one of `AtLeastOnce` or changes nothing that it sees.

**`Rendezvous_proof`, encrypted hello world**: the invariant says for each phase of
a client what it has sent (`RequestInv`), what a reply to it tells of the server
(`ReplyInv`), and what the server has taken from it (`ClientInv`); and for each
phase of the server whom it has read from (`ServerInv`). They hold only together:
that a greeting client agrees with the server needs that no second client gets
further than to have its nonce taken for the first one's key. That nothing is the
absence of a message is assumed (`NoneAssumption`).

**`Rendezvous_proof`, broadcast**: that everybody finds a port is the pigeonhole
principle. A thread without a port has seen each port it passed taken, and ports
stay taken (`TriedInv`); each has one owner (`OwnerInv`); so a thread that failed
would leave N owners among N - 1 threads. That the end is a broadcast is a count:
what a thread has sent is unread, or was read by a thread that names it once
(`CountInv`, with `PortRead` the port of a thread's k-th read). When all are done
all of the others have read from it, which accounts for the N - 1 messages that it
sent.

**`Proxies_proof`, publish-subscribe**: behind the broker each subscriber by frame
is `Uncut`, with whole messages only in its pipe, or `Cut`, with the rest of the
message whose process id it has at hand in front and whole messages after. It is
inductive because the broker passes on and drops whole messages, whoever starts,
stops, joins or leaves.

**`Proxies_proof`, asynchronous server**: `OneToFiveReplies` counts a request's
places and the replies to it over all queues. It is inductive (`StandsInv`) with two
facts beside it: that a worker which owes replies has a request in hand, and the
proxy's turn is a worker's (`TurnInv`); and that each total is of finitely many
messages, although there may be infinitely many clients and workers (`FiniteInv`).
Each action moves one message from a queue to another, so it changes one cell of a
total. `NothingOvertakes` rests on that invariant: with `OrderInv`, each queue has
one client's messages in line (`LineInv`), a queue of replies has those of one
worker (`SignedInv`), and what is under way has lower numbers than what the proxy
has still to deal out (`BehindInv`), so that what a worker is given comes after all
that it has.

**`SequenceFacts`**: what joins and leaves a queue with `Append` and `Tail`, and by
how much this changes the number of elements of a kind; and the totals of functions
(`Cells`): what a step that changes one value does to the sum.

Only model-checked: every liveness property, as liveness under fairness and
`ENABLED` are out of the prover's reach. They are `RequestsAreRead`,
`ClientsMoveOn`, `GoneWorkersForgotten`, `HeardWorkersListed`, `LiveWorkersComeBack`,
`RequestsAreTaken`, `Terminates`, `EveryRequestAnswered`,
`EveryRequestServed`, `FinishesIfConnected`, `TransferCompletes`, `KeepsPrinting` and
`KeepsGreeting`. `simple_pirate_stale_reply` ends with a counterexample, so
there is nothing to prove.

## 5. Not modelled

* The parts marked so in `PROJECT.json`, each with its reason.
* Frames: the reserved identities 123 and 111 used by a client, the delimiter
  frames, and the pairing of the paranoid broker with the simple pirate's worker
  that its header names (`paranoid-pirate-broker.cpp:5`), whose REQ socket gets
  one-frame heartbeats.
* Two processes with the same identities (two worker processes on one broker).
* A restart of the encrypted server or of one of its clients: neither program
  recovers, and the handshake has no second run.
* The end of an interrupted peer broker, which waits for threads that never end.
* Errors of `zmq_send` and `zmq_recv`, which the programs mostly ignore, and
  asserts that contain calls, which vanish under `NDEBUG`.

## 6. Plan

The reliable patterns and the brokers came first, since they hold the repository's
hard concurrency; then the peer brokers' two phases as one system, and the other
concurrent programs. What is left to model is straight-line code, or, in
`router-envelope/`, the question that `Link` and `lost` of `PeerBrokers` answer for
the same pair of sockets. No invariant is left to prove. What is left, with its open
question, is frames: the reserved identities, and the REQ worker under heartbeats
(section 5).
