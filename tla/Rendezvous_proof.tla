--------------------------- MODULE Rendezvous_proof ---------------------------
(***************************************************************************)
(* Proofs about the two programs whose parties have to find each other     *)
(* before they talk: the handshake of EncryptedHello and the race for the  *)
(* ports of Broadcast.  They share no state and no constant.               *)
(*                                                                         *)
(* EncryptedHello, for any number of clients: ends which greet have        *)
(* agreed, and nobody fails while one client runs.  Broadcast, for any     *)
(* number of threads: everyone finds a port unless another program has     *)
(* one, and a program that ends was a broadcast.                           *)
(***************************************************************************)
EXTENDS EncryptedHello, Broadcast, SequenceFacts

-----------------------------------------------------------------------------
(* EncryptedHello *)

\* How far client c has come in the one handshake that the server knows of.
NonceTaken(c) == nonce = NonceOf(c)
KeyTaken(c)   == NonceTaken(c) /\ publicKey = KeyOf(c)
Agreed(c)     == KeyTaken(c) /\ secret = Secret(c, Server)

\* What a client has sent and nobody has read is what it sends in this phase, and
\* the server has not taken it yet.
RequestInv ==
    \A c \in Clients : request[c] # None =>
        \/ cpc[c] = "nonce" /\ request[c] = NonceOf(c) /\ nonce # NonceOf(c) /\ publicKey # NonceOf(c)
        \/ cpc[c] = "key" /\ request[c] = KeyOf(c) /\ publicKey # KeyOf(c)
        \/ cpc[c] = "box" /\ request[c] = Secret(c, Server) /\ secret = None
        \/ cpc[c] = "text" /\ request[c] = Text(c, c)

\* A reply answers what the client asked, and says how far the server has come.
ReplyInv ==
    \A c \in Clients : reply[c] # None =>
        \/ cpc[c] = "nonce"
        \/ cpc[c] = "key" /\ reply[c] = KeyOf(Server) /\ KeyTaken(c) /\ secret = None
        \/ cpc[c] = "box" /\ Agreed(c)
        \/ cpc[c] = "text" /\ reply[c] = Text(Server, c)

\* Whom the server has read, and what of: a second client gets no further than to
\* have its nonce taken for the key of the first.
ClientInv ==
    \A c \in Clients :
        /\ cpc[c] \notin {"start", "nonce"} \/ reply[c] # None
              => NonceTaken(c) \/ publicKey = NonceOf(c)
        /\ cpc[c] = "start" => nonce # NonceOf(c) /\ publicKey # NonceOf(c)
        /\ cpc[c] \in {"start", "nonce"} => publicKey # KeyOf(c)
        /\ cpc[c] = "box" => KeyTaken(c)
        /\ cpc[c] = "text" => Agreed(c) /\ tmpbuffer[c] = cipherlen(Letters(c))
        /\ cpc[c] # "failed"

\* What the server has read when it reads on.
ServerInv ==
    /\ spc = "nonce" => nonce = None
    /\ spc \in {"nonce", "key"} => publicKey = None
    /\ spc \in {"nonce", "key", "box"} => secret = None
    /\ spc \in {"key", "box"} => \E c \in Clients : NonceTaken(c)
    /\ spc = "box" =>
          \E c \in Clients : \/ KeyTaken(c)
                             \/ \E d \in Clients \ {c} : NonceTaken(d) /\ publicKey = NonceOf(c)
    /\ spc \in {"text", "work"} => \E c \in Clients : Agreed(c)
    /\ spc = "work" => peer \in Clients /\ cpc[peer] = "text" /\ request[peer] = None /\ reply[peer] = None

\* The server fails only when two clients have been started.
Crowded == \E c, d \in Clients : c # d /\ cpc[c] # "start" /\ cpc[d] # "start"

IInv == /\ TypeOK /\ RequestInv /\ ReplyInv /\ ClientInv /\ ServerInv
        /\ spc = "failed" => Crowded

-----------------------------------------------------------------------------
(* What tells messages apart. *)

LEMMA MessageFacts ==
    ASSUME NEW c \in Clients, NEW d \in Clients
    PROVE  /\ {NonceOf(c), KeyOf(c), KeyOf(Server), Secret(c, Server), Secret(c, None),
               Text(c, c), Text(Server, c), Ack} \subseteq Message
           /\ NonceOf(c) = NonceOf(d) => c = d
           /\ KeyOf(c) = KeyOf(d) => c = d
           /\ Secret(c, Server) = Secret(d, Server) => c = d
           /\ NonceOf(c) # KeyOf(d)
           /\ Secret(c, Server).of = c
<1>1. c \in Ends /\ d \in Ends /\ Server \in Ends /\ None \in Ends \cup {None}
  BY DEF Ends
<1>. QED BY <1>1 DEF Message, NonceOf, KeyOf, Secret, Text, Ack

\* What the server opens, and what it does not.
LEMMA OpensFacts ==
    ASSUME NEW c \in Clients, NEW d \in Clients
    PROVE  /\ KeyTaken(c) => Opens(Secret(c, Server))
           /\ ~Opens(NonceOf(c)) /\ ~Opens(KeyOf(c)) /\ ~Opens(Text(c, c))
BY DEF Opens, Secret, NonceOf, KeyOf, Text, KeyTaken, NonceTaken

LEMMA DecryptsFacts ==
    ASSUME TypeOK, NEW c \in Clients
    PROVE  /\ Agreed(c) => Decrypts(Text(c, c))
           /\ ~Decrypts(NonceOf(c)) /\ ~Decrypts(KeyOf(c)) /\ ~Decrypts(Secret(c, Server))
<1>1. cipherlen(Letters(c)) <= tmpbuffer[Server]
  BY DEF TypeOK, cipherlen, Letters, MACBYTES, Ends
<1>2. Text(c, c).kind = "text" /\ Text(c, c).with = c /\ Text(c, c).of = c
  BY DEF Text
<1>3. Agreed(c) => Decrypts(Text(c, c))
  BY <1>1, <1>2, MessageFacts DEF Agreed, KeyTaken, NonceTaken, Decrypts
<1>. QED BY <1>3 DEF Decrypts, NonceOf, KeyOf, Secret

-----------------------------------------------------------------------------
LEMMA InitHolds == Init => IInv
<1>. SUFFICES ASSUME Init PROVE IInv
  OBVIOUS
<1>1. \A c \in Clients : NonceOf(c) # None /\ KeyOf(c) # None
  BY MessageFacts, NoneAssumption
<1>2. TypeOK
  BY DEF Init, TypeOK
<1>3. RequestInv /\ ReplyInv /\ ClientInv /\ ServerInv
  BY <1>1, MessageFacts DEF Init, RequestInv, ReplyInv, ClientInv, ServerInv
<1>. QED BY <1>2, <1>3 DEF IInv, Init

\* A step of a client: the server is where it was.
LEMMA ClientKeeps ==
    ASSUME IInv, NEW c \in Clients, SendNonce(c) \/ Continue(c)
    PROVE  IInv'
<1>. USE DEF IInv
<1>1. \A d \in Clients : NonceOf(d) # None /\ KeyOf(d) # None /\ NonceOf(c) # KeyOf(d)
  BY MessageFacts, NoneAssumption
<1>2. CASE SendNonce(c)
  <2>. USE <1>2 DEF SendNonce, Ask, serverVars
  <2>1. TypeOK'
    BY MessageFacts DEF TypeOK, RequestInv, ReplyInv
  <2>2. RequestInv' /\ ReplyInv' /\ ClientInv'
    BY DEF RequestInv, ReplyInv, ClientInv, TypeOK, NonceTaken, KeyTaken, Agreed
  <2>3. ServerInv' /\ (spc = "failed" => Crowded)'
    BY DEF ServerInv, TypeOK, NonceTaken, KeyTaken, Agreed, Crowded
  <2>. QED BY <2>1, <2>2, <2>3
<1>3. CASE SendKey(c)
  <2>. USE <1>3 DEF SendKey, Receive, Ask, serverVars
  <2>1. TypeOK'
    BY MessageFacts DEF TypeOK, RequestInv, ReplyInv
  <2>2. publicKey # KeyOf(c)
    BY DEF ClientInv
  <2>3. RequestInv' /\ ReplyInv' /\ ClientInv'
    BY <2>2 DEF RequestInv, ReplyInv, ClientInv, TypeOK, NonceTaken, KeyTaken, Agreed
  <2>4. ServerInv' /\ (spc = "failed" => Crowded)'
    BY DEF ServerInv, TypeOK, NonceTaken, KeyTaken, Agreed, Crowded
  <2>. QED BY <2>1, <2>3, <2>4
<1>4. CASE SendSecret(c)
  <2>. USE <1>4 DEF SendSecret, Receive, Ask, serverVars
  <2>1. reply[c] = KeyOf(Server) /\ KeyTaken(c)
    BY DEF ReplyInv
  <2>2. TypeOK'
    BY <2>1, MessageFacts DEF TypeOK, RequestInv, ReplyInv
  <2>3. secret = None
    BY DEF ReplyInv
  <2>4. RequestInv' /\ ReplyInv' /\ ClientInv'
    BY <2>1, <2>3 DEF RequestInv, ReplyInv, ClientInv, TypeOK, NonceTaken, KeyTaken, Agreed
  <2>5. ServerInv' /\ (spc = "failed" => Crowded)'
    BY DEF ServerInv, TypeOK, NonceTaken, KeyTaken, Agreed, Crowded
  <2>. QED BY <2>2, <2>4, <2>5
<1>5. CASE FirstHello(c)
  <2>. USE <1>5 DEF FirstHello, SendHello, Receive, Ask, serverVars
  <2>1. Agreed(c)
    BY DEF ReplyInv
  <2>2. TypeOK'
    BY MessageFacts DEF TypeOK, RequestInv, ReplyInv, Letters
  <2>3. RequestInv' /\ ReplyInv' /\ ClientInv'
    BY <2>1 DEF RequestInv, ReplyInv, ClientInv, TypeOK, Ends, NonceTaken, KeyTaken, Agreed
  <2>4. ServerInv' /\ (spc = "failed" => Crowded)'
    BY DEF ServerInv, TypeOK, NonceTaken, KeyTaken, Agreed, Crowded
  <2>. QED BY <2>2, <2>3, <2>4
<1>6. CASE ReadWorld(c)
  <2>. USE <1>6 DEF ReadWorld, SendHello, Receive, Ask, serverVars
  <2>1. Understood(c)
    BY DEF ReplyInv, ClientInv, Understood, DecryptedSize, Letters
  <2>2. TypeOK'
    <3>1. ASSUME NEW f \in [Clients -> BOOLEAN], NEW b \in BOOLEAN
          PROVE  [f EXCEPT ![c] = b] \in [Clients -> BOOLEAN]
      BY <3>1, Zenon
    <3>2. greeted \in [Clients -> BOOLEAN]
      BY DEF TypeOK
    <3>3. (~greeted[c]) \in BOOLEAN
      OBVIOUS
    <3>4. [greeted EXCEPT ![c] = ~greeted[c]] \in [Clients -> BOOLEAN]
      BY <3>1, <3>2, <3>3
    <3>5. greeted' \in [Clients -> BOOLEAN]
      BY <2>1, <3>4
    <3>. QED BY <2>1, <3>5, MessageFacts DEF TypeOK, RequestInv, ReplyInv, Letters, Ends
  <2>3. RequestInv' /\ ReplyInv' /\ ClientInv'
    BY <2>1 DEF RequestInv, ReplyInv, ClientInv, TypeOK, Ends, NonceTaken, KeyTaken, Agreed
  <2>4. ServerInv' /\ (spc = "failed" => Crowded)'
    BY <2>1 DEF ServerInv, TypeOK, NonceTaken, KeyTaken, Agreed, Crowded
  <2>. QED BY <2>2, <2>3, <2>4
<1>. QED BY <1>2, <1>3, <1>4, <1>5, <1>6 DEF Continue

\* A step of the server.
LEMMA ServerKeeps ==
    ASSUME IInv, NEW c \in Clients, ServeAny(c)
    PROVE  IInv'
<1>. USE DEF IInv
<1>1. \A d \in Clients : NonceOf(d) # None /\ KeyOf(d) # None /\ Secret(d, Server) # None
  BY MessageFacts, NoneAssumption
<1>2. CASE ReceiveNonce(c)
  <2>. USE <1>2 DEF ReceiveNonce, Serve, Read, Answer
  <2>1. cpc[c] = "nonce" /\ request[c] = NonceOf(c) /\ Ack \in Message
    BY <1>1, MessageFacts DEF RequestInv, ClientInv, ServerInv, NonceTaken, KeyTaken, Agreed
  <2>2. TypeOK'
    BY <2>1 DEF TypeOK
  <2>3. RequestInv' /\ ReplyInv' /\ ClientInv'
    BY <1>1, <2>1, MessageFacts
    DEF RequestInv, ReplyInv, ClientInv, ServerInv, TypeOK, NonceTaken, KeyTaken, Agreed
  <2>4. ServerInv' /\ (spc = "failed" => Crowded)'
    BY <2>1 DEF ServerInv, NonceTaken
  <2>. QED BY <2>2, <2>3, <2>4
<1>3. CASE ReceiveKey(c)
  <2>. USE <1>3 DEF ReceiveKey, Serve, Read, Answer
  <2>1. \/ cpc[c] = "nonce" /\ request[c] = NonceOf(c) /\ nonce # NonceOf(c)
        \/ cpc[c] = "key" /\ request[c] = KeyOf(c) /\ NonceTaken(c)
    BY <1>1 DEF RequestInv, ClientInv, ServerInv, NonceTaken, KeyTaken, Agreed
  <2>2. request[c] \in Message /\ KeyOf(Server) \in Message
    BY <2>1, MessageFacts
  <2>3. TypeOK'
    BY <2>2 DEF TypeOK
  <2>4. RequestInv' /\ ReplyInv'
    BY <1>1, <2>1, MessageFacts
    DEF RequestInv, ReplyInv, ClientInv, ServerInv, TypeOK, NonceTaken, KeyTaken, Agreed
  <2>5. ClientInv'
    BY <1>1, <2>1, MessageFacts
    DEF RequestInv, ReplyInv, ClientInv, ServerInv, TypeOK, NonceTaken, KeyTaken, Agreed
  <2>6. ServerInv' /\ (spc = "failed" => Crowded)'
    BY <2>1 DEF ServerInv, NonceTaken, KeyTaken
  <2>. QED BY <2>3, <2>4, <2>5, <2>6
<1>4. CASE ReceiveSecret(c)
  <2>. USE <1>4 DEF ReceiveSecret, Serve, Read, Answer
  <2>1. cpc[c] = "box" /\ request[c] = Secret(c, Server) /\ KeyTaken(c)
    BY OpensFacts DEF RequestInv, ClientInv
  <2>2. request[c] \in Message /\ Ack \in Message
    BY <2>1, MessageFacts
  <2>3. TypeOK'
    BY <2>2 DEF TypeOK
  <2>4. RequestInv' /\ ReplyInv' /\ ClientInv'
    BY <1>1, <2>1, MessageFacts
    DEF RequestInv, ReplyInv, ClientInv, ServerInv, TypeOK, NonceTaken, KeyTaken, Agreed
  <2>5. ServerInv' /\ (spc = "failed" => Crowded)'
    BY <2>1 DEF ServerInv, Agreed, NonceTaken, KeyTaken
  <2>. QED BY <2>3, <2>4, <2>5
<1>5. CASE ReceiveHello(c)
  <2>. USE <1>5 DEF ReceiveHello, Serve, Read, clientVars
  <2>1. cpc[c] = "text" /\ request[c] = Text(c, c)
    BY DecryptsFacts DEF RequestInv
  <2>2. TypeOK'
    BY <2>1 DEF TypeOK
  <2>3. RequestInv' /\ ReplyInv' /\ ClientInv'
    BY DEF RequestInv, ReplyInv, ClientInv, TypeOK, NonceTaken, KeyTaken, Agreed
  <2>4. ServerInv' /\ (spc = "failed" => Crowded)'
    BY <2>1 DEF ServerInv, ClientInv, TypeOK, Agreed, NonceTaken, KeyTaken
  <2>. QED BY <2>2, <2>3, <2>4
<1>6. CASE ServerFails(c)
  <2>. USE <1>6 DEF ServerFails, Serve, Read, clientVars
  <2>1. TypeOK'
    BY DEF TypeOK
  <2>2. RequestInv' /\ ReplyInv' /\ ClientInv'
    BY DEF RequestInv, ReplyInv, ClientInv, TypeOK, NonceTaken, KeyTaken, Agreed
  <2>3. ServerInv'
    BY DEF ServerInv
  <2>4. Crowded'
    <3>1. cpc[c] # "start"
      BY DEF RequestInv
    <3>2. ASSUME NEW d \in Clients, d # c, NonceTaken(d) \/ publicKey = NonceOf(d)
          PROVE  Crowded'
      BY <3>1, <3>2 DEF ClientInv, NonceTaken, Crowded
    <3>3. CASE spc = "box"
      <4>1. CASE KeyTaken(c)
        BY <3>3, <4>1, OpensFacts, DecryptsFacts, <1>1, MessageFacts
        DEF RequestInv, ServerInv, KeyTaken, NonceTaken, ClientInv, Agreed
      <4>2. CASE ~KeyTaken(c)
        BY <3>2, <3>3, <4>2 DEF ServerInv, KeyTaken
      <4>. QED BY <4>1, <4>2
    <3>4. CASE spc = "text"
      <4>1. ~Agreed(c)
        BY <3>4, DecryptsFacts, <1>1 DEF RequestInv, Agreed, KeyTaken, NonceTaken
      <4>. QED BY <3>2, <3>4, <4>1 DEF ServerInv, Agreed, KeyTaken
    <3>. QED BY <3>3, <3>4
  <2>. QED BY <2>1, <2>2, <2>3, <2>4
<1>. QED BY <1>2, <1>3, <1>4, <1>5, <1>6 DEF ServeAny

\* What Encrypt leaves in the server's buffer.
LEMMA WorldKeeps == ASSUME IInv, SendWorld PROVE IInv'
<1>. USE DEF IInv, SendWorld, Answer
<1>1. /\ peer \in Clients /\ cpc[peer] = "text" /\ Agreed(peer)
      /\ request[peer] = None /\ reply[peer] = None
  BY DEF ServerInv, ClientInv
<1>2. Text(Server, secret.of) = Text(Server, peer) /\ Text(Server, peer) \in Message
  BY <1>1, MessageFacts DEF Agreed
<1>3. TypeOK'
  BY <1>1, <1>2 DEF TypeOK, Letters, Ends
<1>4. tmpbuffer' \in [Ends -> {cipherlen(5), cipherlen(256)}] /\ \A c \in Clients : tmpbuffer'[c] = tmpbuffer[c]
  BY <1>3, EndsAssumption DEF TypeOK, Ends
<1>5. RequestInv' /\ ReplyInv' /\ ClientInv'
  BY <1>1, <1>2, <1>4 DEF RequestInv, ReplyInv, ClientInv, TypeOK, NonceTaken, KeyTaken, Agreed
<1>6. ServerInv' /\ (spc = "failed" => Crowded)'
  BY <1>1 DEF ServerInv, NonceTaken, KeyTaken, Agreed
<1>. QED BY <1>3, <1>5, <1>6

LEMMA Inductive == Spec => []IInv
<1>1. IInv /\ [Next]_vars => IInv'
  <2>1. ASSUME IInv, Next PROVE IInv'
    BY <2>1, ClientKeeps, ServerKeeps, WorldKeeps DEF Next
  <2>2. ASSUME IInv, UNCHANGED vars PROVE IInv'
    BY <2>2 DEF IInv, vars, clientVars, serverVars, TypeOK, RequestInv, ReplyInv, ClientInv,
                ServerInv, NonceTaken, KeyTaken, Agreed, Crowded
  <2>. QED BY <2>1, <2>2
<1>. QED BY InitHolds, <1>1, PTL DEF Spec

-----------------------------------------------------------------------------
\* However many clients send to the server during its one handshake, the ends that
\* greet have the same nonce, keys and secret (sodium-util.h:48-128).
THEOREM GreetersAgree == Spec => []BothAgree
<1>1. IInv => BothAgree
  BY DEF IInv, BothAgree, ClientInv, ServerInv, Agreed, KeyTaken, NonceTaken
<1>. QED BY Inductive, <1>1, PTL

\* No client ever fails, and the server does only when a second client was started
\* (crypto-client.cpp:39, sodium-util.h:116-157).
THEOREM AloneNobodyFails == Spec => []FailsOnlyIfCrowded
<1>1. IInv => FailsOnlyIfCrowded
  BY DEF IInv, FailsOnlyIfCrowded, ClientInv, Crowded
<1>. QED BY Inductive, <1>1, PTL

-----------------------------------------------------------------------------
(* Broadcast *)

Bound == {"send", "recv", "done"}

\* A thread past BindURI has the port it names, and a port has no other owner.
OwnerInv ==
    /\ \A t \in Threads : pc[t] \in Bound => s[t] \in Ports /\ owner[s[t]] = t
    /\ \A q \in Ports : owner[q] \in Threads => pc[owner[q]] \in Bound /\ s[owner[q]] = q

\* The ports a thread has tried are taken, and stay so.
TriedInv ==
    \A t \in Threads : pc[t] \notin Bound =>
        /\ \A q \in Ports : q < s[t] => owner[q] # Nobody
        /\ pc[t] = "failed" => s[t] = N + 1

\* The port that the k-th read of u is from.
PortRead(u, k) == IF k < s[u] THEN k ELSE k + 1

\* The threads that have read from t, and what is left to be read of it.
Readers(t) == {u \in Threads : \E k \in 1 .. heard[u] : owner[PortRead(u, k)] = t}
Unread(t)  == Cells(Threads, pipe[t])

HeardInv ==
    \A u \in Threads :
        /\ pc[u] \in {"bind", "failed", "send"} => heard[u] = 0
        /\ pc[u] \in {"recv", "done"} => sent[u] = N - 1
        /\ pc[u] = "done" => heard[u] = N - 1
        /\ \A k \in 1 .. heard[u] : PortRead(u, k) \in Ports /\ owner[PortRead(u, k)] \in Threads

\* Whatever t sent is unread, or was the one message that its reader reads of t.
CountInv ==
    \A t \in Threads :
        /\ IsFiniteSet(Unread(t))
        /\ Cardinality(Unread(t)) + Cardinality(Readers(t)) = sent[t]

BroadcastInv == BroadcastTypeOK /\ OwnerInv /\ TriedInv /\ HeardInv /\ CountInv

-----------------------------------------------------------------------------
LEMMA ThreadFacts ==
    /\ N \in Nat /\ N >= 2
    /\ \A t \in Threads : t # Nobody /\ t # Other /\ t \in Int
    /\ IsFiniteSet(Threads) /\ Cardinality(Threads) = N
    /\ IsFiniteSet(Ports) /\ Cardinality(Ports) = N
<1>1. N \in Nat /\ N >= 2
  BY BroadcastAssumption
<1>2. \A t \in Threads : t # Nobody /\ t # Other /\ t \in Int
  BY <1>1 DEF Threads, Nobody, Other
<1>3. IsFiniteSet(Threads) /\ Cardinality(Threads) = IF 0 > N - 1 THEN 0 ELSE (N - 1) - 0 + 1
  BY <1>1, FS_Interval DEF Threads
<1>4. IsFiniteSet(Ports) /\ Cardinality(Ports) = IF 1 > N THEN 0 ELSE N - 1 + 1
  BY <1>1, FS_Interval DEF Ports
<1>. QED BY <1>1, <1>2, <1>3, <1>4

LEMMA ReadersFinite ==
    ASSUME NEW t PROVE IsFiniteSet(Readers(t)) /\ Cardinality(Readers(t)) \in Nat
<1>1. Readers(t) \subseteq Threads
  BY DEF Readers
<1>. QED BY <1>1, ThreadFacts, FS_Subset, FS_CardinalityType

LEMMA InitBroadcast == BroadcastInit => BroadcastInv
<1>. SUFFICES ASSUME BroadcastInit PROVE BroadcastInv
  OBVIOUS
<1>1. PICK q \in Ports \cup {Nobody} : owner = [p \in Ports |-> IF p = q THEN Other ELSE Nobody]
  BY DEF BroadcastInit
<1>2. BroadcastTypeOK
  <2>1. owner \in [Ports -> Threads \cup {Nobody, Other}]
    BY <1>1
  <2>2. 0 \in 0 .. N - 1 /\ 1 \in 1 .. N + 1
    BY ThreadFacts
  <2>. QED BY <2>1, <2>2 DEF BroadcastInit, BroadcastTypeOK
<1>3. OwnerInv
  BY <1>1, ThreadFacts DEF BroadcastInit, OwnerInv, Bound
<1>4. TriedInv
  <2>1. \A p \in Ports : ~(p < 1)
    BY ThreadFacts DEF Ports
  <2>. QED BY <2>1 DEF BroadcastInit, TriedInv
<1>5. HeardInv
  BY DEF BroadcastInit, HeardInv
<1>6. CountInv
  <2> SUFFICES ASSUME NEW t \in Threads
               PROVE  IsFiniteSet(Unread(t)) /\ Cardinality(Unread(t)) + Cardinality(Readers(t)) = sent[t]
    BY DEF CountInv
  <2>1. pipe[t] = [u \in Threads |-> 0] /\ sent[t] = 0
    BY DEF BroadcastInit
  <2>2. Cells(Threads, pipe[t]) = {}
    BY <2>1, CellsNone
  <2>3. Readers(t) = {}
    BY DEF BroadcastInit, Readers
  <2>. QED BY <2>1, <2>2, <2>3, FS_EmptySet DEF Unread
<1>. QED BY <1>2, <1>3, <1>4, <1>5, <1>6 DEF BroadcastInv

-----------------------------------------------------------------------------
\* A port once taken keeps its owner, and a thread its port and what it has read,
\* while nobody reads: then the readers stay the same.
LEMMA ReadersKept ==
    ASSUME HeardInv, UNCHANGED heard,
           \A u \in Threads : pc[u] # "bind" => s'[u] = s[u],
           \A p \in Ports : owner[p] # Nobody => owner'[p] = owner[p]
    PROVE  /\ \A t \in Threads : Readers(t)' = Readers(t)
           /\ \A u \in Threads : \A k \in 1 .. heard'[u] :
                 PortRead(u, k)' \in Ports /\ owner'[PortRead(u, k)'] \in Threads
<1>1. ASSUME NEW u \in Threads, NEW k \in 1 .. heard[u]
      PROVE  /\ PortRead(u, k)' = PortRead(u, k) /\ PortRead(u, k) \in Ports
             /\ owner'[PortRead(u, k)] = owner[PortRead(u, k)]
             /\ owner[PortRead(u, k)] \in Threads
  <2>1. PortRead(u, k) \in Ports /\ owner[PortRead(u, k)] \in Threads
    BY <1>1 DEF HeardInv
  <2>2. s'[u] = s[u]
    <3>1. pc[u] = "bind" => heard[u] = 0
      BY DEF HeardInv
    <3> QED BY <3>1
  <2>. QED BY <2>1, <2>2, ThreadFacts DEF PortRead
<1>. QED BY <1>1 DEF Readers

\* What a step that neither sends nor reads has to show.
LEMMA NoTraffic ==
    ASSUME BroadcastInv, UNCHANGED <<sent, pipe, heard>>,
           \A u \in Threads : pc[u] # "bind" => s'[u] = s[u],
           \A p \in Ports : owner[p] # Nobody => owner'[p] = owner[p],
           \A u \in Threads : pc'[u] # pc[u] =>
               \/ pc[u] = "bind" /\ pc'[u] \in {"send", "failed"}
               \/ pc[u] = "send" /\ pc'[u] = "recv" /\ sent[u] = N - 1
               \/ pc[u] = "recv" /\ pc'[u] = "done" /\ heard[u] = N - 1
    PROVE  HeardInv' /\ CountInv'
<1>0. HeardInv /\ CountInv
  BY DEF BroadcastInv
<1>1. /\ \A t \in Threads : Readers(t)' = Readers(t)
      /\ \A u \in Threads : \A k \in 1 .. heard'[u] :
            PortRead(u, k)' \in Ports /\ owner'[PortRead(u, k)'] \in Threads
  BY <1>0, ReadersKept
<1>2. \A t \in Threads : Unread(t)' = Unread(t)
  BY DEF Unread, Cells
<1>3. CountInv'
  BY <1>0, <1>1, <1>2 DEF CountInv
<1>4. ASSUME NEW u \in Threads
      PROVE  /\ pc'[u] \in {"bind", "failed", "send"} => heard'[u] = 0
             /\ pc'[u] \in {"recv", "done"} => sent'[u] = N - 1
             /\ pc'[u] = "done" => heard'[u] = N - 1
  BY <1>0 DEF HeardInv
<1>. QED BY <1>1, <1>3, <1>4 DEF HeardInv

LEMMA BindStep ==
    ASSUME BroadcastInv, NEW t \in Threads, Bind(t)
    PROVE  BroadcastInv'
<1>. USE DEF BroadcastInv
<1>0. /\ pc[t] = "bind" /\ s[t] \in Ports /\ s[t] \in Nat
      /\ N \in Nat /\ N >= 2
  BY ThreadFacts DEF Bind, Tries, BroadcastTypeOK, Ports
<1>1. CASE owner[s[t]] = Nobody
  <2>1. /\ owner' = [owner EXCEPT ![s[t]] = t]
        /\ pc' = [pc EXCEPT ![t] = "send"]
        /\ s' = s
        /\ UNCHANGED <<socketVars, sent, heard, early>>
    BY <1>1 DEF Bind
  <2>2. BroadcastTypeOK'
    BY <1>0, <2>1 DEF BroadcastTypeOK, socketVars
  <2>3. OwnerInv'
    <3>1. \A u \in Threads : pc'[u] \in Bound => s'[u] \in Ports /\ owner'[s'[u]] = u
      <4> TAKE u \in Threads
      <4>1. CASE u = t
        BY <1>0, <2>1, <4>1 DEF BroadcastTypeOK
      <4>2. CASE u # t
        <5>1. pc[u] \in Bound => s[u] \in Ports /\ owner[s[u]] = u /\ s[u] # s[t]
          BY <1>1, ThreadFacts DEF OwnerInv
        <5> QED BY <1>0, <2>1, <4>2, <5>1 DEF BroadcastTypeOK
      <4> QED BY <4>1, <4>2
    <3>2. \A q \in Ports : owner'[q] \in Threads => pc'[owner'[q]] \in Bound /\ s'[owner'[q]] = q
      <4> TAKE q \in Ports
      <4>1. CASE q = s[t]
        BY <1>0, <2>1, <4>1 DEF BroadcastTypeOK, Bound
      <4>2. CASE q # s[t]
        BY <1>0, <2>1, <4>2 DEF BroadcastTypeOK, OwnerInv, Bound
      <4> QED BY <4>1, <4>2
    <3> QED BY <3>1, <3>2 DEF OwnerInv
  <2>4. TriedInv'
    BY <1>0, <2>1, ThreadFacts DEF TriedInv, BroadcastTypeOK, Bound
  <2>5. HeardInv' /\ CountInv'
    BY <1>0, <1>1, <2>1, NoTraffic DEF BroadcastTypeOK, socketVars
  <2> QED BY <2>2, <2>3, <2>4, <2>5
<1>2. CASE owner[s[t]] # Nobody
  <2>1. /\ s' = [s EXCEPT ![t] = @ + 1]
        /\ UNCHANGED <<owner, pc, socketVars, sent, heard, early>>
    BY <1>2 DEF Bind
  <2>2. s' \in [Threads -> 1 .. N + 1]
    <3>1. s[t] + 1 \in 1 .. N + 1
      BY <1>0 DEF Ports
    <3> QED BY <2>1, <3>1 DEF BroadcastTypeOK
  <2>3. BroadcastTypeOK'
    BY <2>1, <2>2 DEF BroadcastTypeOK, socketVars
  <2>4. OwnerInv'
    BY <1>0, <2>1 DEF OwnerInv, BroadcastTypeOK, Bound
  <2>5. TriedInv'
    <3> SUFFICES ASSUME NEW u \in Threads, pc[u] \notin Bound
                 PROVE  /\ \A q \in Ports : q < s'[u] => owner[q] # Nobody
                        /\ pc[u] = "failed" => s'[u] = N + 1
      BY <2>1 DEF TriedInv
    <3>1. CASE u = t
      <4>1. s'[u] = s[t] + 1
        BY <2>1, <3>1 DEF BroadcastTypeOK
      <4>2. \A q \in Ports : q < s[t] + 1 => q < s[t] \/ q = s[t]
        BY <1>0 DEF Ports
      <4> QED BY <1>0, <1>2, <3>1, <4>1, <4>2 DEF TriedInv
    <3>2. CASE u # t
      BY <2>1, <3>2 DEF TriedInv, BroadcastTypeOK
    <3> QED BY <3>1, <3>2
  <2>6. HeardInv' /\ CountInv'
    BY <1>0, <2>1, NoTraffic DEF BroadcastTypeOK, socketVars
  <2> QED BY <2>3, <2>4, <2>5, <2>6
<1>. QED BY <1>1, <1>2

LEMMA StageStep ==
    ASSUME BroadcastInv, NEW t \in Threads, Fail(t) \/ Sent(t) \/ Finish(t)
    PROVE  BroadcastInv'
<1>. USE DEF BroadcastInv
<1>1. UNCHANGED <<owner, s, socketVars, sent, heard, early>>
  BY DEF Fail, Sent, Finish
<1>2. \/ pc[t] = "bind" /\ pc' = [pc EXCEPT ![t] = "failed"] /\ s[t] > N
      \/ pc[t] = "send" /\ pc' = [pc EXCEPT ![t] = "recv"] /\ sent[t] = N - 1
      \/ pc[t] = "recv" /\ pc' = [pc EXCEPT ![t] = "done"] /\ heard[t] = N - 1
  BY DEF Fail, Sent, Finish, Tries, AllHeard
<1>3. BroadcastTypeOK'
  BY <1>1, <1>2 DEF BroadcastTypeOK, socketVars
<1>4. OwnerInv'
  <2>1. \A u \in Threads : pc'[u] \in Bound <=> pc[u] \in Bound
    BY <1>2 DEF BroadcastTypeOK, Bound
  <2> QED BY <1>1, <2>1 DEF OwnerInv
<1>5. TriedInv'
  <2>1. s[t] > N => s[t] = N + 1
    BY ThreadFacts DEF BroadcastTypeOK
  <2> QED BY <1>1, <1>2, <2>1 DEF TriedInv, BroadcastTypeOK, Bound
<1>6. HeardInv' /\ CountInv'
  BY <1>1, <1>2, NoTraffic DEF BroadcastTypeOK, socketVars
<1>. QED BY <1>3, <1>4, <1>5, <1>6

LEMMA LinkStep ==
    ASSUME BroadcastInv, NEW t \in Threads, NEW u \in Threads, Link(t, u)
    PROVE  BroadcastInv'
<1>. USE DEF BroadcastInv
<1>1. /\ links' = [links EXCEPT ![u] = Append(@, t)]
      /\ UNCHANGED <<owner, pc, s, turn, sent, pipe, heard, early>>
  BY DEF Link
<1>2. BroadcastTypeOK'
  <2>1. /\ links[u] \in Seq(Threads)
        /\ Append(links[u], t) \in Seq(Threads)
        /\ Len(Append(links[u], t)) = Len(links[u]) + 1
    BY AppendFacts DEF BroadcastTypeOK
  <2>2. links' \in [Threads -> Seq(Threads)]
    BY <1>1, <2>1 DEF BroadcastTypeOK
  <2>3. \A v \in Threads : turn'[v] \in 1 .. Len(links'[v]) \/ turn'[v] = 1
    <3> TAKE v \in Threads
    <3>1. CASE v = u
      <4>1. Len(links'[v]) = Len(links[u]) + 1 /\ Len(links[u]) \in Nat
        BY <1>1, <2>1, <3>1 DEF BroadcastTypeOK
      <4>2. turn[v] \in 1 .. Len(links[u]) \/ turn[v] = 1
        BY <3>1 DEF BroadcastTypeOK
      <4> QED BY <1>1, <4>1, <4>2
    <3>2. CASE v # u
      BY <1>1, <3>2 DEF BroadcastTypeOK
    <3> QED BY <3>1, <3>2
  <2> QED BY <1>1, <2>2, <2>3 DEF BroadcastTypeOK
<1>3. OwnerInv' /\ TriedInv'
  BY <1>1 DEF OwnerInv, TriedInv
<1>4. HeardInv' /\ CountInv'
  BY <1>1, NoTraffic
<1>. QED BY <1>2, <1>3, <1>4

LEMMA SendStep ==
    ASSUME BroadcastInv, NEW t \in Threads, Send(t)
    PROVE  BroadcastInv'
<1>. USE DEF BroadcastInv
<1> DEFINE r == links[t][turn[t]]
<1>1. /\ pc[t] = "send" /\ sent[t] < N - 1 /\ links[t] # << >>
      /\ pipe' = [pipe EXCEPT ![t][r] = @ + 1]
      /\ turn' = [turn EXCEPT ![t] = (turn[t] % Len(links[t])) + 1]
      /\ sent' = [sent EXCEPT ![t] = @ + 1]
      /\ early' \in {early, early \cup {t}}
      /\ UNCHANGED <<owner, pc, s, links, heard>>
  BY DEF Send, NextReader
<1>2. /\ N \in Nat /\ N >= 2
      /\ sent[t] \in 0 .. N - 1
      /\ pipe[t] \in [Threads -> 0 .. N - 1] /\ pipe[t] \in [Threads -> Nat]
  BY ThreadFacts DEF BroadcastTypeOK
<1>3. Len(links[t]) \in Nat \ {0} /\ turn[t] \in 1 .. Len(links[t])
  <2>1. links[t] \in Seq(Threads)
    BY DEF BroadcastTypeOK
  <2>2. Len(links[t]) \in Nat \ {0}
    BY <1>1, <2>1
  <2>3. turn[t] \in 1 .. Len(links[t]) \/ turn[t] = 1
    BY DEF BroadcastTypeOK
  <2> QED BY <2>2, <2>3
<1>4. r \in Threads
  <2>1. links[t] \in Seq(Threads)
    BY DEF BroadcastTypeOK
  <2> QED BY <1>3, <2>1
<1> HIDE DEF r
<1>5. pipe'[t] = [pipe[t] EXCEPT ![r] = @ + 1] /\ \A u \in Threads \ {t} : pipe'[u] = pipe[u]
  BY <1>1, <1>4 DEF BroadcastTypeOK
<1>6. /\ IsFiniteSet(Unread(t)')
      /\ Cardinality(Unread(t)') = Cardinality(Unread(t)) + 1
      /\ Cardinality(Unread(t)) \in Nat
  <2>1. \A x \in Threads : pipe'[t][x] = IF x = r THEN pipe[t][x] + 1 ELSE pipe[t][x]
    BY <1>2, <1>4, <1>5
  <2>2. IsFiniteSet(Cells(Threads, pipe[t]))
    BY DEF CountInv, Unread
  <2>3. /\ IsFiniteSet(Cells(Threads, pipe'[t]))
        /\ Cardinality(Cells(Threads, pipe'[t])) = Cardinality(Cells(Threads, pipe[t])) + 1
    BY <1>2, <1>4, <2>1, <2>2, CellsUp
  <2>4. Cardinality(Cells(Threads, pipe[t])) \in Nat
    BY <2>2, FS_CardinalityType
  <2>5. Unread(t)' = Cells(Threads, pipe'[t])
    BY DEF Unread, Cells
  <2> QED BY <2>3, <2>4, <2>5 DEF Unread
<1>7. pipe[t][r] < N - 1
  <2>1. pipe[t][r] <= Cardinality(Unread(t))
    BY <1>2, <1>4, CellsBound DEF CountInv, Unread
  <2>2. Cardinality(Readers(t)) \in Nat
    BY ReadersFinite
  <2>3. Cardinality(Unread(t)) + Cardinality(Readers(t)) = sent[t]
    BY DEF CountInv
  <2>4. pipe[t][r] \in Nat
    BY <1>2, <1>4
  <2> QED BY <1>1, <1>2, <1>6, <2>1, <2>2, <2>3, <2>4
<1>8. BroadcastTypeOK'
  <2>1. pipe'[t] \in [Threads -> 0 .. N - 1]
    <3>1. pipe[t][r] + 1 \in 0 .. N - 1
      BY <1>2, <1>4, <1>7
    <3> QED BY <1>2, <1>4, <1>5, <3>1
  <2>2. pipe' \in [Threads -> [Threads -> 0 .. N - 1]]
    <3>1. pipe' = [pipe EXCEPT ![t] = pipe'[t]]
      BY <1>1, <1>4 DEF BroadcastTypeOK
    <3> QED BY <2>1, <3>1 DEF BroadcastTypeOK
  <2>3. sent' \in [Threads -> 0 .. N - 1]
    <3>1. sent[t] + 1 \in 0 .. N - 1
      BY <1>1, <1>2
    <3> QED BY <1>1, <3>1 DEF BroadcastTypeOK
  <2>4. \A v \in Threads : turn'[v] \in 1 .. Len(links[v]) \/ turn'[v] = 1
    <3> TAKE v \in Threads
    <3> DEFINE l == Len(links[t])
               k == turn[t] % l
    <3>1. l \in Nat \ {0} /\ turn[t] \in Nat
      BY <1>3
    <3>2. k \in 0 .. l - 1
      <4> HIDE DEF l
      <4> QED BY <3>1
    <3>3. k + 1 \in 1 .. l
      <4> HIDE DEF l, k
      <4> QED BY <3>1, <3>2
    <3>4. turn' = [turn EXCEPT ![t] = k + 1]
      BY <1>1
    <3>5. CASE v = t
      <4>1. turn'[t] = k + 1 \/ turn'[t] = turn[t]
        <5> HIDE DEF k
        <5> QED BY <3>4
      <4>2. turn[t] \in 1 .. l
        BY <1>3
      <4> HIDE DEF k
      <4> QED BY <3>3, <3>5, <4>1, <4>2
    <3>6. CASE v # t
      BY <1>1, <3>6 DEF BroadcastTypeOK
    <3> QED BY <3>5, <3>6
  <2> QED BY <1>1, <2>2, <2>3, <2>4 DEF BroadcastTypeOK
<1>9. OwnerInv' /\ TriedInv'
  BY <1>1 DEF OwnerInv, TriedInv
<1>10. /\ \A u \in Threads : Readers(u)' = Readers(u)
       /\ \A u \in Threads : \A k \in 1 .. heard'[u] :
             PortRead(u, k)' \in Ports /\ owner'[PortRead(u, k)'] \in Threads
  BY <1>1, ReadersKept
<1>11. HeardInv'
  <2>1. \A u \in Threads : pc[u] \in {"recv", "done"} => sent'[u] = N - 1
    BY <1>1 DEF HeardInv, BroadcastTypeOK
  <2> QED BY <1>1, <1>10, <2>1 DEF HeardInv
<1>12. CountInv'
  <2> SUFFICES ASSUME NEW u \in Threads
               PROVE  /\ IsFiniteSet(Unread(u)')
                      /\ Cardinality(Unread(u)') + Cardinality(Readers(u)') = sent'[u]
    BY DEF CountInv
  <2>1. CASE u = t
    <3>1. sent'[t] = sent[t] + 1
      BY <1>1 DEF BroadcastTypeOK
    <3>2. Cardinality(Unread(t)) + Cardinality(Readers(t)) = sent[t]
      BY DEF CountInv
    <3>3. Cardinality(Readers(t)) \in Nat
      BY ReadersFinite
    <3> QED BY <1>6, <1>10, <2>1, <3>1, <3>2, <3>3
  <2>2. CASE u # t
    <3>1. pipe'[u] = pipe[u] /\ sent'[u] = sent[u]
      BY <1>1, <1>5, <2>2 DEF BroadcastTypeOK
    <3>2. Unread(u)' = Unread(u)
      BY <3>1 DEF Unread, Cells
    <3> QED BY <1>10, <3>1, <3>2 DEF CountInv
  <2> QED BY <2>1, <2>2
<1>. QED BY <1>8, <1>9, <1>11, <1>12

\* The message that t reads of u was unread, and is the one that t reads of u.
LEMMA ReceiveStep ==
    ASSUME BroadcastInv, NEW t \in Threads, ReceiveNext(t)
    PROVE  BroadcastInv'
<1>. USE DEF BroadcastInv
<1>1. PICK p, u :
      /\ p = NextPort(t) /\ u = owner[p]
      /\ pc[t] = "recv" /\ heard[t] # N - 1
      /\ u \in Threads /\ pipe[u][t] > 0
      /\ pipe' = [pipe EXCEPT ![u][t] = @ - 1]
      /\ heard' = [heard EXCEPT ![t] = @ + 1]
      /\ UNCHANGED <<owner, pc, s, links, turn, sent, early>>
  BY DEF ReceiveNext, AllHeard
<1>2. /\ N \in Nat /\ N >= 2
      /\ heard[t] \in 0 .. N - 1 /\ heard[t] + 1 \in 1 .. N - 1
      /\ s[t] \in Nat
  <2>1. N \in Nat /\ N >= 2 /\ heard[t] \in 0 .. N - 1 /\ heard[t] # N - 1 /\ s[t] \in 1 .. N + 1
    BY <1>1, ThreadFacts DEF BroadcastTypeOK
  <2> QED BY <2>1
<1>3. /\ p = PortRead(t, heard[t] + 1) /\ p \in Ports
      /\ \A k \in 1 .. heard[t] : PortRead(t, k) # p
  <2>1. p = PortRead(t, heard[t] + 1)
    BY <1>1, <1>2 DEF NextPort, PortRead
  <2>2. p \in Ports
    BY <1>1, <1>2 DEF NextPort, Ports
  <2>3. ASSUME NEW k \in 1 .. heard[t]
        PROVE  PortRead(t, k) # PortRead(t, heard[t] + 1)
    BY <1>2 DEF PortRead
  <2> QED BY <2>1, <2>2, <2>3
<1>4. t \notin Readers(u)
  <2> SUFFICES ASSUME NEW k \in 1 .. heard[t], owner[PortRead(t, k)] = u
               PROVE  FALSE
    BY DEF Readers
  <2>1. PortRead(t, k) \in Ports
    BY DEF HeardInv
  <2>2. s[u] = PortRead(t, k) /\ s[u] = p
    BY <1>1, <1>3, <2>1 DEF OwnerInv
  <2> QED BY <1>3, <2>2
<1>5. \A v \in Threads : Readers(v)' = IF v = u THEN Readers(v) \cup {t} ELSE Readers(v)
  <2>1. \A x \in Threads, k \in Nat : PortRead(x, k)' = PortRead(x, k)
    BY <1>1 DEF PortRead
  <2>2. heard'[t] = heard[t] + 1 /\ \A x \in Threads \ {t} : heard'[x] = heard[x]
    BY <1>1 DEF BroadcastTypeOK
  <2>3. 1 .. heard'[t] = (1 .. heard[t]) \cup {heard[t] + 1}
    BY <1>2, <2>2
  <2>4. ASSUME NEW v \in Threads, NEW x \in Threads
        PROVE  x \in Readers(v)' <=> x \in Readers(v) \/ (v = u /\ x = t)
    <3>1. x \in Readers(v)' <=> \E k \in 1 .. heard'[x] : owner[PortRead(x, k)] = v
      <4>1. heard'[x] \in Nat
        <5>1. heard[t] + 1 \in Nat /\ heard[x] \in 0 .. N - 1
          BY <1>2 DEF BroadcastTypeOK
        <5>2. heard'[x] = heard[t] + 1 \/ heard'[x] = heard[x]
          BY <2>2
        <5> QED BY <5>1, <5>2
      <4>2. \A k \in 1 .. heard'[x] : PortRead(x, k)' = PortRead(x, k)
        BY <2>1, <4>1
      <4> QED BY <1>1, <4>2 DEF Readers
    <3>2. CASE x = t
      <4>1. owner[PortRead(t, heard[t] + 1)] = u
        BY <1>1, <1>3
      <4> QED BY <2>3, <3>1, <3>2, <4>1 DEF Readers
    <3>3. CASE x # t
      BY <2>2, <3>1, <3>3 DEF Readers
    <3> QED BY <3>2, <3>3
  <2>5. \A v \in Threads : Readers(v) \subseteq Threads /\ Readers(v)' \subseteq Threads
    BY DEF Readers
  <2> QED BY <2>4, <2>5
<1>6. pipe'[u] = [pipe[u] EXCEPT ![t] = @ - 1] /\ \A v \in Threads \ {u} : pipe'[v] = pipe[v]
  BY <1>1 DEF BroadcastTypeOK
<1>7. /\ pipe[u] \in [Threads -> 0 .. N - 1] /\ pipe[u] \in [Threads -> Nat]
      /\ pipe'[u] \in [Threads -> 0 .. N - 1] /\ pipe'[u] \in [Threads -> Nat]
  <2>1. pipe[u] \in [Threads -> 0 .. N - 1]
    BY <1>1 DEF BroadcastTypeOK
  <2>2. pipe[u][t] - 1 \in 0 .. N - 1
    BY <1>1, <1>2, <2>1
  <2>3. pipe'[u] \in [Threads -> 0 .. N - 1]
    BY <1>6, <2>1, <2>2
  <2> QED BY <1>2, <2>1, <2>3
<1>8. /\ IsFiniteSet(Unread(u)')
      /\ Cardinality(Unread(u)') = Cardinality(Unread(u)) - 1
      /\ Cardinality(Unread(u)) \in Nat
  <2>1. \A x \in Threads : pipe'[u][x] = IF x = t THEN pipe[u][x] - 1 ELSE pipe[u][x]
    BY <1>6, <1>7
  <2>2. IsFiniteSet(Cells(Threads, pipe[u]))
    BY <1>1 DEF CountInv, Unread
  <2>3. /\ IsFiniteSet(Cells(Threads, pipe'[u]))
        /\ Cardinality(Cells(Threads, pipe'[u])) = Cardinality(Cells(Threads, pipe[u])) - 1
    BY <1>7, <2>1, <2>2, CellsDown
  <2>4. Cardinality(Cells(Threads, pipe[u])) \in Nat
    BY <2>2, FS_CardinalityType
  <2> QED BY <2>3, <2>4 DEF Unread, Cells
<1>9. BroadcastTypeOK'
  <2>1. pipe' \in [Threads -> [Threads -> 0 .. N - 1]]
    <3>1. pipe' = [pipe EXCEPT ![u] = pipe'[u]]
      BY <1>1 DEF BroadcastTypeOK
    <3> QED BY <1>1, <1>7, <3>1 DEF BroadcastTypeOK
  <2>2. heard' \in [Threads -> 0 .. N - 1]
    <3>1. heard[t] + 1 \in 0 .. N - 1
      BY <1>2
    <3> QED BY <1>1, <3>1 DEF BroadcastTypeOK
  <2> QED BY <1>1, <2>1, <2>2 DEF BroadcastTypeOK
<1>10. OwnerInv' /\ TriedInv'
  BY <1>1 DEF OwnerInv, TriedInv
<1>11. HeardInv'
  <2>1. ASSUME NEW v \in Threads
        PROVE  /\ pc'[v] \in {"bind", "failed", "send"} => heard'[v] = 0
               /\ pc'[v] = "done" => heard'[v] = N - 1
    BY <1>1 DEF HeardInv, BroadcastTypeOK
  <2>2. ASSUME NEW v \in Threads, NEW k \in 1 .. heard'[v]
        PROVE  PortRead(v, k) \in Ports /\ owner[PortRead(v, k)] \in Threads
    <3>1. CASE v = t
      <4>1. k \in 1 .. heard[t] \/ k = heard[t] + 1
        BY <1>1, <1>2, <3>1, <2>2 DEF BroadcastTypeOK
      <4>2. PortRead(t, heard[t] + 1) \in Ports /\ owner[PortRead(t, heard[t] + 1)] \in Threads
        BY <1>1, <1>3
      <4> QED BY <3>1, <4>1, <4>2 DEF HeardInv
    <3>2. CASE v # t
      BY <1>1, <2>2, <3>2 DEF HeardInv, BroadcastTypeOK
    <3> QED BY <3>1, <3>2
  <2>3. \A v \in Threads : \A k \in 1 .. heard'[v] : PortRead(v, k)' = PortRead(v, k)
    BY <1>1 DEF PortRead
  <2>4. \A v \in Threads : pc'[v] \in {"recv", "done"} => sent'[v] = N - 1
    BY <1>1 DEF HeardInv
  <2> QED BY <1>1, <2>1, <2>2, <2>3, <2>4 DEF HeardInv
<1>12. CountInv'
  <2> SUFFICES ASSUME NEW v \in Threads
               PROVE  /\ IsFiniteSet(Unread(v)')
                      /\ Cardinality(Unread(v)') + Cardinality(Readers(v)') = sent'[v]
    BY DEF CountInv
  <2>0. /\ IsFiniteSet(Unread(v)) /\ Cardinality(Unread(v)) + Cardinality(Readers(v)) = sent[v]
        /\ sent'[v] = sent[v]
    BY <1>1 DEF CountInv
  <2>1. CASE v = u
    <3>1. Readers(v)' = Readers(v) \cup {t} /\ t \notin Readers(v)
      BY <1>4, <1>5, <2>1
    <3>2. Cardinality(Readers(v)') = Cardinality(Readers(v)) + 1 /\ Cardinality(Readers(v)) \in Nat
      BY <3>1, ReadersFinite, FS_AddElement
    <3>3. /\ IsFiniteSet(Unread(v)')
          /\ Cardinality(Unread(v)') = Cardinality(Unread(v)) - 1
          /\ Cardinality(Unread(v)) \in Nat
      BY <1>8, <2>1
    <3> QED BY <2>0, <3>2, <3>3
  <2>2. CASE v # u
    <3>1. pipe'[v] = pipe[v] /\ Readers(v)' = Readers(v)
      BY <1>5, <1>6, <2>2
    <3>2. Unread(v)' = Unread(v)
      BY <3>1 DEF Unread, Cells
    <3> QED BY <2>0, <3>1, <3>2
  <2> QED BY <2>1, <2>2
<1>. QED BY <1>9, <1>10, <1>11, <1>12

-----------------------------------------------------------------------------
LEMMA BroadcastInductive == BroadcastSpec => []BroadcastInv
<1>1. BroadcastInit => BroadcastInv
  BY InitBroadcast
<1>2. BroadcastInv /\ [BroadcastNext]_broadcastVars => BroadcastInv'
  <2> SUFFICES ASSUME BroadcastInv, [BroadcastNext]_broadcastVars
               PROVE  BroadcastInv'
    OBVIOUS
  <2>1. ASSUME NEW t \in Threads, Thread(t)
        PROVE  BroadcastInv'
    BY <2>1, BindStep, StageStep, SendStep, ReceiveStep DEF Thread
  <2>2. ASSUME NEW t \in Threads, NEW u \in Threads, Link(t, u)
        PROVE  BroadcastInv'
    BY <2>2, LinkStep
  <2>3. CASE UNCHANGED broadcastVars
    <3>1. BroadcastTypeOK' /\ OwnerInv' /\ TriedInv'
      BY <2>3 DEF broadcastVars, socketVars, BroadcastInv, BroadcastTypeOK, OwnerInv, TriedInv
    <3>2. HeardInv' /\ CountInv'
      BY <2>3, NoTraffic DEF broadcastVars, socketVars
    <3> QED BY <3>1, <3>2 DEF BroadcastInv
  <2> QED BY <2>1, <2>2, <2>3 DEF BroadcastNext
<1>. QED BY <1>1, <1>2, PTL DEF BroadcastSpec

\* A thread that has failed saw every port taken; if no other program has one, the
\* N ports would belong to the N - 1 other threads.
LEMMA NobodyFails ==
    ASSUME BroadcastInv, Foreign = {}, NEW t \in Threads
    PROVE  pc[t] # "failed"
<1>. USE DEF BroadcastInv
<1> SUFFICES ASSUME pc[t] = "failed" PROVE FALSE
  OBVIOUS
<1>1. \A q \in Ports : owner[q] \in Threads \ {t}
  <2> TAKE q \in Ports
  <2>1. s[t] = N + 1 /\ q < N + 1
    BY ThreadFacts DEF TriedInv, Bound, Ports
  <2>2. owner[q] # Nobody
    BY <2>1 DEF TriedInv, Bound
  <2>3. owner[q] # Other
    BY DEF Foreign
  <2>4. owner[q] \in Threads
    BY <2>2, <2>3 DEF BroadcastTypeOK
  <2> QED BY <2>4 DEF OwnerInv, Bound
<1>2. owner \in [Ports -> Threads \ {t}]
  BY <1>1 DEF BroadcastTypeOK
<1>3. IsFiniteSet(Threads \ {t}) /\ Cardinality(Threads \ {t}) = N - 1
  BY ThreadFacts, FS_RemoveElement
<1>4. PICK x, y \in Ports : x # y /\ owner[x] = owner[y]
  <2>1. Cardinality(Threads \ {t}) < Cardinality(Ports)
    BY <1>3, ThreadFacts
  <2> QED BY <1>2, <1>3, <2>1, ThreadFacts, FS_PigeonHole
<1>. QED BY <1>1, <1>4 DEF OwnerInv

\* The types hold, and with no port taken from outside no thread fails to bind.
THEOREM NobodyIsLeftOut == BroadcastSpec => []EveryoneBinds
<1>1. BroadcastInv => EveryoneBinds
  BY NobodyFails DEF EveryoneBinds, BroadcastInv
<1>. QED BY <1>1, BroadcastInductive, PTL

\* When all are done, each thread has been read by every other one, which accounts
\* for all that it sent: nothing is unread, so nobody got two of its messages.
LEMMA NothingUnread ==
    ASSUME BroadcastInv, AllDone, NEW t \in Threads
    PROVE  \A u \in Threads : pipe[t][u] = 0
<1>. USE DEF BroadcastInv
<1>0. N \in Nat /\ N >= 2
  BY ThreadFacts
<1>1. Threads \ {t} \subseteq Readers(t)
  <2> SUFFICES ASSUME NEW u \in Threads, u # t
               PROVE  u \in Readers(t)
    OBVIOUS
  <2>1. /\ s[t] \in Ports /\ owner[s[t]] = t
        /\ s[u] \in Ports /\ owner[s[u]] = u
        /\ heard[u] = N - 1
    BY DEF AllDone, OwnerInv, Bound, HeardInv
  <2>2. s[t] # s[u]
    BY <2>1
  <2>3. CASE s[t] < s[u]
    <3>1. s[t] \in 1 .. heard[u] /\ PortRead(u, s[t]) = s[t]
      BY <1>0, <2>1, <2>3 DEF Ports, PortRead
    <3> QED BY <2>1, <3>1 DEF Readers
  <2>4. CASE s[u] < s[t]
    <3>1. s[t] - 1 \in 1 .. heard[u] /\ PortRead(u, s[t] - 1) = s[t]
      BY <1>0, <2>1, <2>4 DEF Ports, PortRead
    <3> QED BY <2>1, <3>1 DEF Readers
  <2>5. s[t] < s[u] \/ s[u] < s[t]
    BY <1>0, <2>1, <2>2 DEF Ports
  <2> QED BY <2>3, <2>4, <2>5
<1>2. Cardinality(Threads \ {t}) = N - 1
  BY ThreadFacts, FS_RemoveElement
<1>3. Cardinality(Threads \ {t}) <= Cardinality(Readers(t))
  BY <1>1, ReadersFinite, FS_Subset
<1>4. /\ IsFiniteSet(Unread(t))
      /\ Cardinality(Unread(t)) + Cardinality(Readers(t)) = sent[t]
      /\ sent[t] = N - 1
  BY DEF CountInv, HeardInv, AllDone
<1>5. Cardinality(Unread(t)) \in Nat /\ Cardinality(Readers(t)) \in Nat
  BY <1>4, FS_CardinalityType, ReadersFinite
<1>6. Cardinality(Unread(t)) = 0
  BY <1>0, <1>2, <1>3, <1>4, <1>5
<1>7. pipe[t] \in [Threads -> Nat]
  BY <1>0 DEF BroadcastTypeOK
<1>. QED BY <1>4, <1>6, <1>7, CellsNone DEF Unread

\* A broadcast is complete when the programs end: everybody has read one message from
\* each of the others, and nothing is left unread in a pipe.
THEOREM EndIsABroadcast == BroadcastSpec => []BroadcastWhenDone
<1>1. BroadcastInv => BroadcastWhenDone
  BY NothingUnread DEF BroadcastWhenDone
<1>. QED BY <1>1, BroadcastInductive, PTL
===============================================================================
