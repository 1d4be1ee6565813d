--------------------------- MODULE LazyPirate_proof ---------------------------
(***************************************************************************)
(* Proofs about LazyPirate, for any number of clients, retries and         *)
(* requests: type correctness, that a client only gets the answer to its   *)
(* own request, and that the system implements the safety part of          *)
(* AtLeastOnce.                                                            *)
(***************************************************************************)
EXTENDS LazyPirate, SequenceFacts, TLAPS

\* No two messages came over the same connection.
ConnDistinct(s) == \A i, j \in 1 .. Len(s) : s[i].conn = s[j].conn => i = j

\* The server can read, or is working on, a request the client sent over the
\* connection it has now.
AtServer(c)  == \E m \in Elements(requests[c]) : m.conn = conn[c]
InService(c) == spc = "busy" /\ job.client = c /\ job.conn = conn[c]

\* The client's current connection carries nothing, or the request at hand, or
\* its reply, at one place.
OneAttempt(c) ==
    /\ outbox[c]  \in {<< >>, <<sequence[c]>>}
    /\ replies[c] \in {<< >>, <<sequence[c]>>}
    /\ outbox[c] # << >> => /\ cpc[c] = "poll" /\ replies[c] = << >>
                            /\ ~AtServer(c) /\ ~InService(c)
    /\ AtServer(c)  => cpc[c] = "poll" /\ replies[c] = << >> /\ ~InService(c)
    /\ InService(c) => cpc[c] = "poll" /\ replies[c] = << >>
    /\ replies[c] # << >> => /\ cpc[c] = "poll"
                             /\ [client |-> c, seq |-> sequence[c]] \in handled

\* A message was sent by the client for a request it has got to.
Genuine(c, m) ==
    /\ m.client = c
    /\ m.conn <= conn[c]
    /\ m.seq <= sequence[c]
    /\ cpc[c] = "send" => m.seq < sequence[c]
    /\ m.conn = conn[c] => m.seq = sequence[c]

AllGenuine(c) ==
    /\ \A m \in Elements(requests[c]) : Genuine(c, m)
    /\ spc = "busy" /\ job.client = c => Genuine(c, job)
    /\ ConnDistinct(requests[c])

\* What is answered was handled.
Answered(c) == \A n \in Nat : n < sequence[c] => [client |-> c, seq |-> n] \in handled

ClientInv(c) == OneAttempt(c) /\ AllGenuine(c) /\ Answered(c)

\* A client that waits has an attempt left, the one it waits for.
RetryInv == \A c \in Clients : cpc[c] = "poll" => retries[c] > 0

LInv == TypeOK /\ RetryInv /\ \A c \in Clients : ClientInv(c)

-----------------------------------------------------------------------------
(* Queues of messages. *)

LEMMA AppendMessage ==
    ASSUME NEW s \in Seq(Message), NEW e \in Message
    PROVE  /\ Append(s, e) \in Seq(Message)
           /\ Elements(Append(s, e)) = Elements(s) \cup {e}
           /\ ConnDistinct(s) /\ (\A m \in Elements(s) : m.conn # e.conn)
                => ConnDistinct(Append(s, e))
<1>1. /\ Len(Append(s, e)) = Len(s) + 1
      /\ Len(s) \in Nat
      /\ \A i \in 1 .. Len(s) : Append(s, e)[i] = s[i]
      /\ Append(s, e)[Len(s) + 1] = e
  OBVIOUS
<1>2. ASSUME ConnDistinct(s), \A m \in Elements(s) : m.conn # e.conn
      PROVE  ConnDistinct(Append(s, e))
  BY <1>1, <1>2 DEF Elements, ConnDistinct
<1>. QED BY <1>2, AppendFacts

LEMMA TailMessage ==
    ASSUME NEW s \in Seq(Message), s # << >>
    PROVE  /\ Head(s) \in Message
           /\ Head(s) \in Elements(s)
           /\ Tail(s) \in Seq(Message)
           /\ Elements(Tail(s)) \subseteq Elements(s)
           /\ ConnDistinct(s) => /\ ConnDistinct(Tail(s))
                                 /\ \A m \in Elements(Tail(s)) : m.conn # Head(s).conn
<1>1. /\ Head(s) \in Message
      /\ Tail(s) \in Seq(Message)
      /\ Len(Tail(s)) = Len(s) - 1
      /\ Len(s) \in Nat \ {0}
      /\ Head(s) = s[1]
      /\ \A i \in 1 .. Len(s) - 1 : Tail(s)[i] = s[i + 1]
  OBVIOUS
<1>2. Head(s) \in Elements(s)
  BY TailFacts
<1>3. ASSUME NEW m \in Elements(Tail(s))
      PROVE  \E i \in 2 .. Len(s) : m = s[i]
  <2>1. PICK i \in 1 .. Len(s) - 1 : m = s[i + 1]
    BY <1>1, <1>3 DEF Elements
  <2>2. i + 1 \in 2 .. Len(s)
    BY <1>1
  <2>. QED BY <2>1, <2>2
<1>4. Elements(Tail(s)) \subseteq Elements(s)
  <2>1. 2 .. Len(s) \subseteq 1 .. Len(s)
    BY <1>1
  <2>. QED BY <1>3, <2>1 DEF Elements
<1>5. ASSUME ConnDistinct(s)
      PROVE  ConnDistinct(Tail(s))
  BY <1>1, <1>5 DEF ConnDistinct
<1>6. ASSUME ConnDistinct(s), NEW m \in Elements(Tail(s))
      PROVE  m.conn # Head(s).conn
  <2>1. PICK i \in 2 .. Len(s) : m = s[i]
    BY <1>3
  <2>2. i \in 1 .. Len(s) /\ 1 \in 1 .. Len(s) /\ i # 1
    BY <1>1
  <2>. QED BY <1>1, <1>6, <2>1, <2>2 DEF ConnDistinct
<1>. QED BY <1>1, <1>2, <1>4, <1>5, <1>6

-----------------------------------------------------------------------------
(* Type correctness. *)

LEMMA InitType == Init => TypeOK
<1>. SUFFICES ASSUME Init PROVE TypeOK
  OBVIOUS
<1>1. handled \subseteq [client : Clients, seq : Nat] /\ spc = "down"
  BY DEF Init
<1>. QED BY <1>1, RetriesAssumption DEF Init, TypeOK

LEMMA RetryStep == ASSUME TypeOK, RetryInv, Next PROVE RetryInv'
<1>. USE DEF RetryInv, clientVars, socketVars, serverVars
<1>0. /\ cpc \in [Clients -> {"send", "poll", "exited"}]
      /\ retries \in [Clients -> 0 .. MAX_RETRIES]
  BY DEF TypeOK
<1>1. ASSUME NEW c \in Clients, ClientSend(c)
      PROVE  RetryInv'
  BY <1>0, <1>1 DEF ClientSend
<1>2. ASSUME NEW c \in Clients, ClientReceive(c)
      PROVE  RetryInv'
  BY <1>0, <1>2, RetriesAssumption DEF ClientReceive
<1>3. ASSUME NEW c \in Clients, ClientTimeout(c)
      PROVE  RetryInv'
  <2>1. retries[c] \in Nat \ {0} /\ AttemptsLeft(c) = retries[c] - 1
    BY <1>0, <1>3 DEF ClientTimeout, AttemptsLeft
  <2>2. LastAttempt(c) \/ AttemptsLeft(c) > 0
    BY <2>1 DEF LastAttempt
  <2>. QED BY <1>0, <1>3, <2>2 DEF ClientTimeout
<1>4. ASSUME \/ \E c \in Clients : Transmit(c) \/ ServerReceive(c)
             \/ ServerStart \/ ServerReply \/ ServerCrash
      PROVE  RetryInv'
  BY <1>4 DEF Transmit, ServerReceive, ServerStart, ServerReply, ServerCrash
<1>. QED BY <1>1, <1>2, <1>3, <1>4 DEF Next, Client

LEMMA TypeStep == ASSUME TypeOK, RetryInv, Next PROVE TypeOK'
<1>. USE DEF clientVars, socketVars, serverVars
<1>1. ASSUME NEW c \in Clients, ClientSend(c)
      PROVE  TypeOK'
  BY <1>1 DEF ClientSend, TypeOK
<1>2. ASSUME NEW c \in Clients, ClientReceive(c)
      PROVE  TypeOK'
  BY <1>2, RetriesAssumption DEF ClientReceive, TypeOK
<1>3. ASSUME NEW c \in Clients, ClientTimeout(c)
      PROVE  TypeOK'
  <2>1. /\ AttemptsLeft(c) \in 0 .. MAX_RETRIES
        /\ <<sequence[c]>> \in Seq(Nat) /\ << >> \in Seq(Nat)
        /\ conn[c] + 1 \in Nat
    BY <1>3, RetriesAssumption DEF ClientTimeout, AttemptsLeft, RetryInv, TypeOK
  <2>2. PICK unsent \in Seq(Nat) : outbox' = [outbox EXCEPT ![c] = unsent]
    BY <1>3, <2>1 DEF ClientTimeout, ReplaceSocket
  <2>3. cpc' \in [Clients -> {"send", "poll", "exited"}]
    BY <1>3 DEF ClientTimeout, TypeOK
  <2>4. conn' = [conn EXCEPT ![c] = conn[c] + 1]
    BY <1>3 DEF ClientTimeout, ReplaceSocket
  <2>5. /\ retries' = [retries EXCEPT ![c] = AttemptsLeft(c)]
        /\ UNCHANGED <<sequence, requests, replies, spc, job, handled>>
    BY <1>3 DEF ClientTimeout
  <2>6. /\ outbox' \in [Clients -> Seq(Nat)] /\ conn' \in [Clients -> Nat]
        /\ retries' \in [Clients -> 0 .. MAX_RETRIES]
    BY <2>1, <2>2, <2>4, <2>5 DEF TypeOK
  <2>. QED BY <2>3, <2>5, <2>6 DEF TypeOK
<1>4. ASSUME NEW c \in Clients, Transmit(c)
      PROVE  TypeOK'
  <2>1. /\ Head(outbox[c]) \in Nat /\ Tail(outbox[c]) \in Seq(Nat)
        /\ requests[c] \in Seq(Message)
    BY <1>4 DEF Transmit, TypeOK
  <2>2. [client |-> c, conn |-> conn[c], seq |-> Head(outbox[c])] \in Message
    BY <1>4, <2>1 DEF TypeOK, Message
  <2>3. requests' \in [Clients -> Seq(Message)]
    BY <1>4, <2>1, <2>2, AppendMessage DEF Transmit, TypeOK
  <2>4. outbox' \in [Clients -> Seq(Nat)]
    BY <1>4, <2>1 DEF Transmit, TypeOK
  <2>. QED BY <1>4, <2>3, <2>4 DEF Transmit, TypeOK
<1>5. CASE ServerStart
  BY <1>5 DEF ServerStart, TypeOK
<1>6. ASSUME NEW c \in Clients, ServerReceive(c)
      PROVE  TypeOK'
  <2>1. /\ Head(requests[c]) \in Message
        /\ Tail(requests[c]) \in Seq(Message)
    BY <1>6, TailMessage DEF ServerReceive, TypeOK
  <2>. QED BY <1>6, <2>1 DEF ServerReceive, TypeOK
<1>7. CASE ServerReply
  <2>1. job.client \in Clients /\ job.seq \in Nat
    BY <1>7 DEF ServerReply, ReplyDue, TypeOK, Message
  <2>2. replies' \in [Clients -> Seq(Nat)]
    BY <1>7, <2>1, AppendFacts DEF ServerReply, TypeOK
  <2>3. handled' \subseteq [client : Clients, seq : Nat]
    BY <1>7, <2>1 DEF ServerReply, TypeOK
  <2>. QED BY <1>7, <2>2, <2>3 DEF ServerReply, TypeOK
<1>8. CASE ServerCrash
  BY <1>8 DEF ServerCrash, TypeOK
<1>. QED BY <1>1, <1>2, <1>3, <1>4, <1>5, <1>6, <1>7, <1>8 DEF Next, Client

-----------------------------------------------------------------------------
(* The invariant of one client. *)

\* What a step must leave alone for client d not to notice it.
Untouched(d) ==
    /\ cpc'[d] = cpc[d] /\ sequence'[d] = sequence[d] /\ conn'[d] = conn[d]
    /\ outbox'[d] = outbox[d] /\ requests'[d] = requests[d] /\ replies'[d] = replies[d]
    /\ handled \subseteq handled'
    /\ spc' = "busy" /\ job'.client = d => spc = "busy" /\ job' = job

LEMMA Frame ==
    ASSUME NEW d \in Clients, ClientInv(d), Untouched(d)
    PROVE  ClientInv(d)'
<1>. USE DEF Untouched, ClientInv
<1>1. /\ AtServer(d)' => AtServer(d)
      /\ InService(d)' => InService(d)
  BY DEF AtServer, InService, Elements
<1>2. OneAttempt(d)'
  BY <1>1 DEF OneAttempt
<1>3. AllGenuine(d)'
  <2>1. \A m : Genuine(d, m) => Genuine(d, m)'
    BY DEF Genuine
  <2>2. Elements(requests[d])' = Elements(requests[d])
    BY DEF Elements
  <2>. QED BY <2>1, <2>2 DEF AllGenuine, ConnDistinct
<1>4. Answered(d)'
  BY DEF Answered
<1>. QED BY <1>2, <1>3, <1>4

LEMMA InitClients == Init => \A c \in Clients : ClientInv(c)
<1>. SUFFICES ASSUME Init, NEW c \in Clients PROVE ClientInv(c)
  OBVIOUS
<1>1. /\ outbox[c] = << >> /\ replies[c] = << >> /\ requests[c] = << >>
      /\ sequence[c] = 0 /\ spc = "down"
  BY DEF Init
<1>2. Elements(requests[c]) = {}
  BY <1>1 DEF Elements
<1>3. OneAttempt(c)
  BY <1>1, <1>2 DEF OneAttempt, AtServer, InService
<1>4. AllGenuine(c)
  BY <1>1, <1>2 DEF AllGenuine, ConnDistinct
<1>5. Answered(c)
  BY <1>1 DEF Answered
<1>. QED BY <1>3, <1>4, <1>5 DEF ClientInv

LEMMA ClientsStep ==
    ASSUME LInv, Next, NEW d \in Clients
    PROVE  ClientInv(d)'
<1>. USE DEF clientVars, socketVars, serverVars
<1>0. /\ TypeOK /\ ClientInv(d) /\ \A c \in Clients : ClientInv(c)
      /\ OneAttempt(d) /\ AllGenuine(d) /\ Answered(d)
  BY DEF LInv, ClientInv
<1>t. /\ cpc \in [Clients -> {"send", "poll", "exited"}]
      /\ sequence \in [Clients -> Nat] /\ conn \in [Clients -> Nat]
      /\ outbox \in [Clients -> Seq(Nat)] /\ replies \in [Clients -> Seq(Nat)]
      /\ requests \in [Clients -> Seq(Message)]
      /\ sequence[d] \in Nat /\ conn[d] \in Nat /\ requests[d] \in Seq(Message)
      /\ spc = "busy" => job \in Message
  BY <1>0 DEF TypeOK
<1>m. \A m \in Elements(requests[d]) : m \in Message
  BY <1>t DEF Elements
<1>1. ASSUME ClientSend(d)
      PROVE  ClientInv(d)'
  <2>1. /\ cpc[d] = "send" /\ outbox[d] = << >> /\ ~AtServer(d) /\ ~InService(d)
        /\ cpc'[d] = "poll" /\ outbox'[d] = Append(outbox[d], sequence[d])
        /\ replies'[d] = << >> /\ UNCHANGED <<sequence, conn, requests, spc, job, handled>>
    BY <1>0, <1>1, <1>t DEF ClientSend, OneAttempt
  <2>2. outbox'[d] = <<sequence[d]>>
    <3>1. Append(<< >>, sequence[d]) = <<sequence[d]>>
      OBVIOUS
    <3>. QED BY <2>1, <3>1
  <2>3. ~AtServer(d)' /\ ~InService(d)'
    BY <2>1 DEF AtServer, InService, Elements
  <2>4. OneAttempt(d)'
    BY <2>1, <2>2, <2>3 DEF OneAttempt
  <2>5. AllGenuine(d)'
    <3>1. \A m : Genuine(d, m) => Genuine(d, m)'
      BY <2>1 DEF Genuine
    <3>. QED BY <1>0, <2>1, <3>1 DEF AllGenuine, ConnDistinct, Elements
  <2>6. Answered(d)'
    BY <1>0, <2>1 DEF Answered
  <2>. QED BY <2>4, <2>5, <2>6 DEF ClientInv
<1>2. ASSUME ClientReceive(d)
      PROVE  ClientInv(d)'
  <2>1. /\ replies[d] = <<sequence[d]>> /\ outbox[d] = << >> /\ ~AtServer(d) /\ ~InService(d)
        /\ [client |-> d, seq |-> sequence[d]] \in handled
        /\ cpc'[d] = "send" /\ sequence'[d] = sequence[d] + 1
        /\ replies'[d] = Tail(replies[d])
        /\ UNCHANGED <<conn, outbox, requests, spc, job, handled>>
    BY <1>0, <1>2, <1>t DEF ClientReceive, OneAttempt
  <2>2. replies'[d] = << >>
    <3>1. Tail(<<sequence[d]>>) = << >>
      OBVIOUS
    <3>. QED BY <2>1, <3>1
  <2>3. ~AtServer(d)' /\ ~InService(d)'
    BY <2>1 DEF AtServer, InService, Elements
  <2>4. OneAttempt(d)'
    BY <2>1, <2>2, <2>3 DEF OneAttempt
  <2>5. AllGenuine(d)'
    <3>1. ASSUME NEW m \in Message, Genuine(d, m), m.conn # conn[d]
          PROVE  Genuine(d, m)'
      BY <1>t, <2>1, <3>1 DEF Genuine, Message
    <3>2. \A m \in Elements(requests[d]) : m.conn # conn[d]
      BY <2>1 DEF AtServer
    <3>3. spc = "busy" /\ job.client = d => job.conn # conn[d]
      BY <2>1 DEF InService
    <3>4. requests'[d] = requests[d] /\ ConnDistinct(requests'[d])
      BY <1>0, <2>1 DEF AllGenuine
    <3>5. \A m \in Elements(requests'[d]) : Genuine(d, m)'
      BY <1>0, <1>m, <3>1, <3>2, <3>4 DEF AllGenuine
    <3>6. spc' = "busy" /\ job'.client = d => Genuine(d, job)'
      <4>. SUFFICES ASSUME spc' = "busy", job'.client = d PROVE Genuine(d, job)'
        OBVIOUS
      <4>1. job \in Message /\ Genuine(d, job) /\ job.conn # conn[d] /\ job' = job
        BY <1>0, <1>t, <2>1, <3>3 DEF AllGenuine
      <4>. QED BY <1>t, <2>1, <4>1 DEF Genuine, Message
    <3>. QED BY <3>4, <3>5, <3>6 DEF AllGenuine
  <2>6. Answered(d)'
    BY <1>0, <1>t, <2>1 DEF Answered
  <2>. QED BY <2>4, <2>5, <2>6 DEF ClientInv
<1>3. ASSUME ClientTimeout(d)
      PROVE  ClientInv(d)'
  <2>1. /\ cpc[d] = "poll" /\ replies[d] = << >> /\ conn'[d] = conn[d] + 1
        /\ \/ outbox'[d] = <<sequence[d]>> /\ cpc'[d] = "poll"
           \/ outbox'[d] = << >> /\ cpc'[d] = "exited"
        /\ UNCHANGED <<sequence, requests, replies, spc, job, handled>>
    BY <1>3, <1>t DEF ClientTimeout, ReplaceSocket
  <2>2. ASSUME NEW m \in Message, Genuine(d, m)
        PROVE  m.conn # conn'[d] /\ Genuine(d, m)'
    <3>1. m.conn \in Nat /\ conn[d] \in Nat /\ m.conn <= conn[d]
      BY <1>t, <2>2 DEF Genuine, Message
    <3>2. m.conn # conn[d] + 1 /\ m.conn <= conn[d] + 1
      BY <3>1
    <3>. QED BY <2>1, <2>2, <3>2 DEF Genuine
  <2>3. ~AtServer(d)' /\ ~InService(d)'
    BY <1>0, <1>m, <1>t, <2>1, <2>2 DEF AtServer, InService, AllGenuine, Elements
  <2>4. OneAttempt(d)'
    BY <2>1, <2>3 DEF OneAttempt
  <2>5. AllGenuine(d)'
    BY <1>0, <1>m, <1>t, <2>1, <2>2 DEF AllGenuine, ConnDistinct, Elements
  <2>6. Answered(d)'
    BY <1>0, <2>1 DEF Answered
  <2>. QED BY <2>4, <2>5, <2>6 DEF ClientInv
<1>4. ASSUME Transmit(d)
      PROVE  ClientInv(d)'
  <2>. DEFINE e == [client |-> d, conn |-> conn[d], seq |-> sequence[d]]
  <2>1. /\ outbox[d] = <<sequence[d]>> /\ cpc[d] = "poll" /\ replies[d] = << >>
        /\ ~AtServer(d) /\ ~InService(d)
        /\ outbox'[d] = Tail(outbox[d])
        /\ requests'[d] = Append(requests[d], [client |-> d, conn |-> conn[d], seq |-> Head(outbox[d])])
        /\ UNCHANGED <<cpc, sequence, conn, replies, spc, job, handled>>
    BY <1>0, <1>4, <1>t DEF Transmit, OneAttempt
  <2>2. outbox'[d] = << >> /\ requests'[d] = Append(requests[d], e)
    <3>1. Tail(<<sequence[d]>>) = << >> /\ Head(<<sequence[d]>>) = sequence[d]
      OBVIOUS
    <3>. QED BY <2>1, <3>1
  <2>3. e \in Message /\ e.conn = conn[d] /\ e.client = d /\ e.seq = sequence[d]
    BY <1>t DEF Message
  <2>. HIDE DEF e
  <2>4. Elements(requests'[d]) = Elements(requests[d]) \cup {e}
    BY <1>t, <2>2, <2>3, AppendMessage
  <2>5. ConnDistinct(requests'[d])
    <3>1. requests[d] \in Seq(Message) /\ e \in Message
      BY <1>t, <2>3
    <3>2. ConnDistinct(requests[d]) /\ \A m \in Elements(requests[d]) : m.conn # e.conn
      BY <1>0, <2>1, <2>3 DEF AllGenuine, AtServer
    <3>3. ConnDistinct(Append(requests[d], e))
      BY <3>1, <3>2, AppendMessage
    <3>. QED BY <2>2, <3>3
  <2>6. ~InService(d)'
    BY <2>1 DEF InService
  <2>7. OneAttempt(d)'
    BY <2>1, <2>2, <2>6 DEF OneAttempt
  <2>8. AllGenuine(d)'
    <3>1. \A m : Genuine(d, m) => Genuine(d, m)'
      BY <2>1 DEF Genuine
    <3>2. Genuine(d, e)
      BY <1>t, <2>1, <2>3 DEF Genuine
    <3>3. /\ \A m \in Elements(requests'[d]) : Genuine(d, m)'
          /\ spc' = "busy" /\ job'.client = d => Genuine(d, job)'
      BY <1>0, <2>1, <2>4, <3>1, <3>2 DEF AllGenuine
    <3>. QED BY <2>5, <3>3 DEF AllGenuine
  <2>9. Answered(d)'
    BY <1>0, <2>1 DEF Answered
  <2>. QED BY <2>7, <2>8, <2>9 DEF ClientInv
<1>5. ASSUME ServerReceive(d)
      PROVE  ClientInv(d)'
  <2>. DEFINE h == Head(requests[d])
  <2>1. /\ requests[d] # << >> /\ spc = "recv" /\ spc' = "busy" /\ job' = h
        /\ requests'[d] = Tail(requests[d])
        /\ UNCHANGED <<cpc, sequence, conn, outbox, replies, handled>>
    BY <1>5, <1>t DEF ServerReceive
  <2>2. /\ h \in Elements(requests[d]) /\ h \in Message
        /\ Elements(requests'[d]) \subseteq Elements(requests[d])
        /\ ConnDistinct(requests'[d])
        /\ \A m \in Elements(requests'[d]) : m.conn # h.conn
    BY <1>0, <1>t, <2>1, TailMessage DEF AllGenuine
  <2>. HIDE DEF h
  <2>3. /\ AtServer(d)' => AtServer(d) /\ ~InService(d)'
        /\ InService(d)' => AtServer(d)
    BY <2>1, <2>2 DEF AtServer, InService
  <2>4. OneAttempt(d)'
    BY <1>0, <2>1, <2>3 DEF OneAttempt
  <2>5. AllGenuine(d)'
    <3>1. \A m : Genuine(d, m) => Genuine(d, m)'
      BY <2>1 DEF Genuine
    <3>2. \A m \in Elements(requests'[d]) : Genuine(d, m)'
      BY <1>0, <2>2, <3>1 DEF AllGenuine
    <3>3. Genuine(d, job)'
      BY <1>0, <2>1, <2>2 DEF AllGenuine, Genuine
    <3>. QED BY <2>2, <3>2, <3>3 DEF AllGenuine
  <2>6. Answered(d)'
    BY <1>0, <2>1 DEF Answered
  <2>. QED BY <2>4, <2>5, <2>6 DEF ClientInv
<1>6. ASSUME NEW c \in Clients, c # d, Client(c) \/ Transmit(c) \/ ServerReceive(c)
      PROVE  Untouched(d)
  <2>1. CASE ClientSend(c)
    BY <1>6, <1>t, <2>1 DEF ClientSend, Untouched
  <2>2. CASE ClientReceive(c)
    BY <1>6, <1>t, <2>2 DEF ClientReceive, Untouched
  <2>3. CASE ClientTimeout(c)
    BY <1>6, <1>t, <2>3 DEF ClientTimeout, ReplaceSocket, Untouched
  <2>4. CASE Transmit(c)
    BY <1>6, <1>t, <2>4 DEF Transmit, Untouched
  <2>5. CASE ServerReceive(c)
    <3>1. Head(requests[c]).client = c
      <4>1. requests[c] \in Seq(Message) /\ requests[c] # << >> /\ AllGenuine(c)
        BY <1>0, <1>6, <1>t, <2>5 DEF ServerReceive, ClientInv
      <4>. QED BY <4>1, TailMessage DEF AllGenuine, Genuine
    <3>. QED BY <1>6, <1>t, <2>5, <3>1 DEF ServerReceive, Untouched
  <2>. QED BY <1>6, <2>1, <2>2, <2>3, <2>4, <2>5 DEF Client
<1>7. CASE ServerStart
  <2>1. Untouched(d)
    BY <1>7 DEF ServerStart, Untouched
  <2>. QED BY <1>0, <2>1, Frame
<1>8. CASE ServerReply
  <2>1. /\ spc = "busy" /\ spc' = "recv"
        /\ UNCHANGED <<cpc, sequence, conn, outbox, requests>>
        /\ handled' = handled \cup {[client |-> job.client, seq |-> job.seq]}
        /\ replies'[d] = IF InService(d) THEN Append(replies[d], job.seq) ELSE replies[d]
    BY <1>8 DEF ServerReply, ReplyDue, InService
  <2>2. CASE ~InService(d)
    <3>1. Untouched(d)
      BY <2>1, <2>2 DEF Untouched
    <3>. QED BY <1>0, <3>1, Frame
  <2>3. CASE InService(d)
    <3>1. /\ job.client = d /\ job.conn = conn[d] /\ job.seq = sequence[d]
          /\ cpc[d] = "poll" /\ replies[d] = << >> /\ outbox[d] = << >> /\ ~AtServer(d)
      BY <1>0, <2>1, <2>3 DEF InService, OneAttempt, AllGenuine, Genuine
    <3>2. replies'[d] = <<sequence[d]>>
      <4>1. Append(<< >>, sequence[d]) = <<sequence[d]>>
        OBVIOUS
      <4>. QED BY <2>1, <2>3, <3>1, <4>1
    <3>3. ~InService(d)' /\ ~AtServer(d)'
      BY <2>1, <3>1 DEF InService, AtServer, Elements
    <3>4. [client |-> d, seq |-> sequence[d]] \in handled'
      BY <2>1, <3>1
    <3>5. OneAttempt(d)'
      BY <2>1, <3>1, <3>2, <3>3, <3>4 DEF OneAttempt
    <3>6. AllGenuine(d)'
      BY <1>0, <2>1 DEF AllGenuine, Genuine, ConnDistinct, Elements
    <3>7. Answered(d)'
      BY <1>0, <2>1 DEF Answered
    <3>. QED BY <3>5, <3>6, <3>7 DEF ClientInv
  <2>. QED BY <2>2, <2>3
<1>9. CASE ServerCrash
  <2>1. /\ spc' = "down" /\ requests'[d] = << >>
        /\ UNCHANGED <<cpc, sequence, conn, outbox, replies, handled>>
    BY <1>9 DEF ServerCrash
  <2>2. Elements(requests'[d]) = {}
    BY <2>1 DEF Elements
  <2>3. OneAttempt(d)'
    BY <1>0, <2>1, <2>2 DEF OneAttempt, AtServer, InService
  <2>4. AllGenuine(d)'
    BY <2>1, <2>2 DEF AllGenuine, ConnDistinct
  <2>5. Answered(d)'
    BY <1>0, <2>1 DEF Answered
  <2>. QED BY <2>3, <2>4, <2>5 DEF ClientInv
<1>. QED BY <1>0, <1>1, <1>2, <1>3, <1>4, <1>5, <1>6, <1>7, <1>8, <1>9, Frame DEF Next, Client

-----------------------------------------------------------------------------
(* The theorems. *)

LEMMA Inductive == Spec => []LInv
<1>1. Init => LInv
  <2>1. Init => RetryInv
    BY DEF Init, RetryInv
  <2>. QED BY <2>1, InitType, InitClients DEF LInv
<1>2. LInv /\ [Next]_vars => LInv'
  <2>. SUFFICES ASSUME LInv, [Next]_vars PROVE LInv'
    OBVIOUS
  <2>1. CASE Next
    <3>1. TypeOK' /\ RetryInv'
      BY <2>1, TypeStep, RetryStep DEF LInv
    <3>2. \A d \in Clients : ClientInv(d)'
      BY <2>1, ClientsStep
    <3>. QED BY <3>1, <3>2 DEF LInv
  <2>2. CASE UNCHANGED vars
    <3>. USE <2>2 DEF vars, clientVars, socketVars, serverVars
    <3>1. TypeOK' /\ RetryInv'
      BY DEF LInv, TypeOK, RetryInv
    <3>2. ASSUME NEW d \in Clients PROVE ClientInv(d)'
      <4>1. ClientInv(d) /\ Untouched(d)
        BY DEF LInv, Untouched
      <4>. QED BY <4>1, Frame
    <3>. QED BY <3>1, <3>2 DEF LInv
  <2>. QED BY <2>1, <2>2
<1>. QED BY <1>1, <1>2, PTL DEF Spec

\* Type correctness.
THEOREM TypeCorrect == Spec => []TypeOK
BY Inductive, PTL DEF LInv

\* A client only ever gets the answer to the request it waits for, and the server
\* has handled that request; and the types hold.
THEOREM OnlyRightAnswers == Spec => []AnswersMatch
<1>1. LInv => AnswersMatch
  BY DEF LInv, ClientInv, OneAttempt, AnswersMatch
<1>. QED BY Inductive, <1>1, PTL

\* A connection never carries two requests at a time.
THEOREM OneRequestAtATime == Spec => []OneRequestPerConnection
<1>1. LInv => OneRequestPerConnection
  <2>. SUFFICES ASSUME LInv, NEW c \in Clients
                PROVE  Len(outbox[c]) <= 1 /\ ConnDistinct(requests[c])
    BY DEF OneRequestPerConnection, ConnDistinct
  <2>1. outbox[c] \in {<< >>, <<sequence[c]>>} /\ ConnDistinct(requests[c])
    BY DEF LInv, ClientInv, OneAttempt, AllGenuine
  <2>2. CASE outbox[c] = << >>
    BY <2>1, <2>2
  <2>3. CASE outbox[c] = <<sequence[c]>>
    <3>1. Len(<<sequence[c]>>) = 1
      OBVIOUS
    <3>. QED BY <2>1, <2>3, <3>1
  <2>. QED BY <2>1, <2>2, <2>3
<1>. QED BY Inductive, <1>1, PTL

-----------------------------------------------------------------------------
(* The refinement. *)

Phase == [c \in Clients |-> CASE cpc[c] = "send" -> "idle"
                              [] cpc[c] = "poll" -> "waiting"
                              [] OTHER           -> "stopped"]

LEMMA PhaseFacts ==
    ASSUME TypeOK, NEW c \in Clients
    PROVE  /\ Phase[c] = "idle"    <=> cpc[c] = "send"
           /\ Phase[c] = "waiting" <=> cpc[c] = "poll"
           /\ Phase[c] = "stopped" <=> cpc[c] = "exited"
<1>1. cpc[c] \in {"send", "poll", "exited"}
  BY DEF TypeOK
<1>. QED BY <1>1 DEF Phase

\* A change of one program counter changes one phase.
LEMMA PhaseStep ==
    ASSUME TypeOK, NEW c \in Clients, NEW p \in {"send", "poll", "exited"},
           cpc' = [cpc EXCEPT ![c] = p]
    PROVE  Phase' = [Phase EXCEPT ![c] = CASE p = "send" -> "idle"
                                           [] p = "poll" -> "waiting"
                                           [] OTHER      -> "stopped"]
BY DEF Phase, TypeOK

\* A step of the system is a step of the promise, or none.
LEMMA StepSimulation ==
    ASSUME LInv, Next
    PROVE  \/ \E c \in Clients : \/ Promise!Submit(c) \/ Promise!Handle(c)
                                 \/ Promise!Complete(c) \/ Promise!GiveUp(c)
           \/ UNCHANGED <<Phase, sequence, handled>>
<1>. USE DEF clientVars, socketVars, serverVars
<1>0. TypeOK /\ \A c \in Clients : OneAttempt(c) /\ AllGenuine(c) /\ Answered(c)
  BY DEF LInv, ClientInv
<1>1. ASSUME NEW c \in Clients, ClientSend(c)
      PROVE  Promise!Submit(c)
  <2>1. Phase' = [Phase EXCEPT ![c] = "waiting"] /\ Phase[c] = "idle"
    BY <1>0, <1>1, PhaseFacts, PhaseStep DEF ClientSend
  <2>. QED BY <1>1, <2>1 DEF ClientSend, Promise!Submit, Phase
<1>2. ASSUME NEW c \in Clients, ClientReceive(c)
      PROVE  Promise!Complete(c)
  <2>1. Phase' = [Phase EXCEPT ![c] = "idle"] /\ Phase[c] = "waiting"
    BY <1>0, <1>2, PhaseFacts, PhaseStep DEF ClientReceive
  <2>2. [client |-> c, seq |-> sequence[c]] \in handled
    BY <1>0, <1>2 DEF ClientReceive, OneAttempt
  <2>. QED BY <1>2, <2>1, <2>2 DEF ClientReceive, Promise!Complete, Promise!Request, Phase
<1>3. ASSUME NEW c \in Clients, ClientTimeout(c)
      PROVE  Promise!GiveUp(c) \/ UNCHANGED <<Phase, sequence, handled>>
  <2>1. CASE UNCHANGED cpc
    BY <1>3, <2>1 DEF ClientTimeout, Phase
  <2>2. CASE cpc' = [cpc EXCEPT ![c] = "exited"]
    <3>1. Phase' = [Phase EXCEPT ![c] = "stopped"] /\ Phase[c] = "waiting"
      BY <1>0, <1>3, <2>2, PhaseFacts, PhaseStep DEF ClientTimeout
    <3>. QED BY <1>3, <3>1 DEF ClientTimeout, Promise!GiveUp, Phase
  <2>. QED BY <1>3, <2>1, <2>2 DEF ClientTimeout
<1>4. ASSUME \/ \E c \in Clients : Transmit(c) \/ ServerReceive(c)
             \/ ServerStart \/ ServerCrash
      PROVE  UNCHANGED <<Phase, sequence, handled>>
  BY <1>4 DEF Transmit, ServerReceive, ServerStart, ServerCrash, Phase
<1>5. CASE ServerReply
  <2>. DEFINE c == job.client
  <2>1. c \in Clients /\ job.seq \in Nat /\ sequence[c] \in Nat /\ Genuine(c, job) /\ Answered(c)
    BY <1>0, <1>5 DEF ServerReply, ReplyDue, TypeOK, Message, AllGenuine
  <2>2. handled' = handled \cup {[client |-> c, seq |-> job.seq]} /\ UNCHANGED clientVars
    BY <1>5 DEF ServerReply
  <2>. HIDE DEF c
  <2>3. CASE job.seq = sequence[c]
    <3>1. cpc[c] # "send"
      BY <2>1, <2>3 DEF Genuine
    <3>2. Phase[c] # "idle" /\ Phase' = Phase
      BY <1>0, <2>1, <2>2, <3>1, PhaseFacts DEF Phase
    <3>3. Promise!Handle(c)
      BY <2>2, <2>3, <3>2 DEF Promise!Handle, Promise!Request, Phase
    <3>. QED BY <2>1, <3>3
  <2>4. CASE job.seq # sequence[c]
    <3>1. job.seq < sequence[c]
      BY <2>1, <2>4 DEF Genuine
    <3>2. handled' = handled
      BY <2>1, <2>2, <3>1 DEF Answered
    <3>. QED BY <2>2, <3>2 DEF Phase
  <2>. QED BY <2>3, <2>4
<1>. QED BY <1>1, <1>2, <1>3, <1>4, <1>5 DEF Next, Client

\* The lazy pirate keeps the safety part of the promise: requests are answered in
\* order, each only after the server handled it, and a client that gave up stays so.
THEOREM KeepsPromise == Spec => ImplementsAtLeastOnce
<1>1. Init => Promise!Init
  BY DEF Init, Promise!Init
<1>2. LInv /\ [Next]_vars => [Promise!Next]_(Promise!vars)
  <2>. SUFFICES ASSUME LInv, [Next]_vars PROVE [Promise!Next]_(Promise!vars)
    OBVIOUS
  <2>1. CASE Next
    BY <2>1, StepSimulation DEF Promise!Next, Promise!vars, Phase
  <2>2. CASE UNCHANGED vars
    BY <2>2 DEF vars, clientVars, socketVars, serverVars, Promise!vars
  <2>. QED BY <2>1, <2>2
<1>. QED BY Inductive, <1>1, <1>2, PTL DEF Spec, ImplementsAtLeastOnce, Promise!Spec
=============================================================================
