---------------------------- MODULE EncryptedHello ----------------------------
(***************************************************************************)
(* The encrypted hello world of encryption/: a REP server that shakes      *)
(* hands with one client and then answers its greetings, and REQ clients,  *)
(* started by hand.  The server takes each request for what it expects     *)
(* next, whoever sent it.                                                  *)
(*                                                                         *)
(* What is encrypted is a record of who made it with whose keys; it opens  *)
(* for the end that holds the matching ones.                               *)
(***************************************************************************)
EXTENDS Integers

CONSTANTS Clients, Server, None

ASSUME EndsAssumption == Server \notin Clients /\ None \notin Clients \cup {Server}

VARIABLES cpc,        \* client -> "start", what it waits for the answer to, or "failed"
          tmpbuffer,  \* client -> size of its buffer; Server -> size of the server's
          request,    \* client -> its request, while the server has not read it
          reply,      \* client -> the reply it has not read
          spc,        \* what the server reads next, "work" or "failed"
          nonce,      \* the message the server took for a nonce,
          publicKey,  \* for a public key,
          secret,     \* for a secret,
          peer,       \* and the client it owes a reply
          greeted     \* client -> flips with every answer it printed

clientVars == <<cpc, reply, greeted>>
serverVars == <<spc, nonce, publicKey, secret, peer>>
vars == <<clientVars, serverVars, tmpbuffer, request>>

\* cipherlen: a text and its authentication.
MACBYTES == 16
cipherlen(n) == n + MACBYTES

\* The length of "Hello" or "World".
Letters(e) == 5

NonceOf(c)   == [kind |-> "nonce", of |-> c, with |-> None]
KeyOf(e)     == [kind |-> "key", of |-> e, with |-> None]
Secret(c, k) == [kind |-> "box", of |-> c, with |-> k]
Text(e, c)   == [kind |-> "text", of |-> e, with |-> c]
Ack          == [kind |-> "ack", of |-> Server, with |-> None]

Ends    == Clients \cup {Server}
Message == [kind : {"nonce", "key", "box", "text", "ack"}, of : Ends, with : Ends \cup {None}]

\* None is not a message: it says that there is none.
ASSUME NoneAssumption == None \notin Message

TypeOK ==
    /\ cpc \in [Clients -> {"start", "nonce", "key", "box", "text", "failed"}]
    /\ tmpbuffer \in [Ends -> {cipherlen(5), cipherlen(256)}]
    /\ request \in [Clients -> Message \cup {None}]
    /\ reply \in [Clients -> Message \cup {None}]
    /\ \A c \in Clients : request[c] = None \/ reply[c] = None
    /\ spc \in {"nonce", "key", "box", "text", "work", "failed"}
    /\ nonce \in Message \cup {None} /\ publicKey \in Message \cup {None}
    /\ secret \in Message \cup {None}
    /\ peer \in Clients \cup {None}
    /\ greeted \in [Clients -> BOOLEAN]

Init ==
    /\ cpc = [c \in Clients |-> "start"]
    /\ tmpbuffer = [e \in Ends |-> cipherlen(256)]
    /\ request = [c \in Clients |-> None]
    /\ reply = [c \in Clients |-> None]
    /\ spc = "nonce"
    /\ nonce = None /\ publicKey = None /\ secret = None
    /\ peer = None
    /\ greeted = [c \in Clients |-> FALSE]

-----------------------------------------------------------------------------
(* The client: HandShake with initiate set, then the loop.  It sends its next *)
(* request when it has read the reply to the last one.                       *)

Ask(c, m, phase) ==
    /\ request' = [request EXCEPT ![c] = m]
    /\ cpc' = [cpc EXCEPT ![c] = phase]

SendNonce(c) ==
    /\ cpc[c] = "start"
    /\ Ask(c, NonceOf(c), "nonce")
    /\ UNCHANGED <<reply, greeted, tmpbuffer, serverVars>>

Receive(c, phase) ==
    /\ cpc[c] = phase
    /\ reply[c] # None
    /\ reply' = [reply EXCEPT ![c] = None]

\* What acknowledges the nonce is read into nothing.
SendKey(c) ==
    /\ Receive(c, "nonce")
    /\ Ask(c, KeyOf(c), "key")
    /\ UNCHANGED <<greeted, tmpbuffer, serverVars>>

\* Anything is taken for the server's key.
SendSecret(c) ==
    /\ Receive(c, "key")
    /\ Ask(c, Secret(c, IF reply[c] = KeyOf(Server) THEN Server ELSE None), "box")
    /\ UNCHANGED <<greeted, tmpbuffer, serverVars>>

\* Encrypt gives the buffer the size of the encrypted text.
SendHello(c) ==
    /\ Ask(c, Text(c, c), "text")
    /\ tmpbuffer' = [tmpbuffer EXCEPT ![c] = cipherlen(Letters(c))]

FirstHello(c) ==
    /\ Receive(c, "box")
    /\ SendHello(c)
    /\ UNCHANGED <<greeted, serverVars>>

\* Mutant: decrypted is the buffer that was there at first.
WholeBuffer(c) == cipherlen(256)
\* Not what was received, but the buffer that Encrypt left is decrypted.
DecryptedSize(c) == tmpbuffer[c]

Understood(c) ==
    /\ reply[c] = Text(Server, c)
    /\ DecryptedSize(c) = cipherlen(Letters(Server))

\* Decrypt throws what it does not understand, and nobody catches it.
ReadWorld(c) ==
    /\ Receive(c, "text")
    /\ IF Understood(c)
       THEN SendHello(c) /\ greeted' = [greeted EXCEPT ![c] = ~@]
       ELSE /\ cpc' = [cpc EXCEPT ![c] = "failed"]
            /\ UNCHANGED <<request, tmpbuffer, greeted>>
    /\ UNCHANGED serverVars

-----------------------------------------------------------------------------
(* The server: HandShake without initiate, then the loop.  A REP socket reads *)
(* a request of any client and replies to that client.                       *)

Read(c) == [request EXCEPT ![c] = None]

Serve(c, phase) ==
    /\ spc = phase
    /\ request[c] # None
    /\ request' = Read(c)

Answer(c, m, next) ==
    /\ reply' = [reply EXCEPT ![c] = m]
    /\ spc' = next

ReceiveNonce(c) ==
    /\ Serve(c, "nonce")
    /\ nonce' = request[c]
    /\ Answer(c, Ack, "key")
    /\ UNCHANGED <<cpc, greeted, tmpbuffer, publicKey, secret, peer>>

ReceiveKey(c) ==
    /\ Serve(c, "key")
    /\ publicKey' = request[c]
    /\ Answer(c, KeyOf(Server), "box")
    /\ UNCHANGED <<cpc, greeted, tmpbuffer, nonce, secret, peer>>

\* crypto_box_open_easy succeeds with the nonce and the keys the box was made with.
Opens(m) ==
    /\ m.kind = "box" /\ m.with = Server
    /\ nonce = NonceOf(m.of) /\ publicKey = KeyOf(m.of)

ReceiveSecret(c) ==
    /\ Serve(c, "box")
    /\ Opens(request[c])
    /\ secret' = request[c]
    /\ Answer(c, Ack, "text")
    /\ UNCHANGED <<cpc, greeted, tmpbuffer, nonce, publicKey, peer>>

\* Mutant: the result of crypto_box_open_easy_afternm is ignored.
Anything(m) == TRUE
\* Decrypt succeeds with the secret and the nonce of the handshake, if the message
\* fits the buffer that the last Encrypt left.
Decrypts(m) ==
    /\ m.kind = "text"
    /\ secret.of = m.with /\ nonce = NonceOf(m.with)
    /\ cipherlen(Letters(m.of)) <= tmpbuffer[Server]

ReceiveHello(c) ==
    /\ Serve(c, "text")
    /\ Decrypts(request[c])
    /\ peer' = c
    /\ spc' = "work"
    /\ UNCHANGED <<clientVars, tmpbuffer, nonce, publicKey, secret>>

SendWorld ==
    /\ spc = "work"
    /\ Answer(peer, Text(Server, secret.of), "text")
    /\ peer' = None
    /\ tmpbuffer' = [tmpbuffer EXCEPT ![Server] = cipherlen(Letters(Server))]
    /\ UNCHANGED <<cpc, greeted, request, nonce, publicKey, secret>>

\* HandShake or Decrypt throws, and nobody catches it.
ServerFails(c) ==
    /\ \/ Serve(c, "box") /\ ~Opens(request[c])
       \/ Serve(c, "text") /\ ~Decrypts(request[c])
    /\ spc' = "failed"
    /\ UNCHANGED <<clientVars, tmpbuffer, nonce, publicKey, secret, peer>>

-----------------------------------------------------------------------------
Continue(c) == SendKey(c) \/ SendSecret(c) \/ FirstHello(c) \/ ReadWorld(c)
ServeAny(c) == \/ ReceiveNonce(c) \/ ReceiveKey(c) \/ ReceiveSecret(c)
               \/ ReceiveHello(c) \/ ServerFails(c)

Next == \/ \E c \in Clients : SendNonce(c) \/ Continue(c) \/ ServeAny(c)
        \/ SendWorld

\* The server and the clients that were started keep running, and the REP socket
\* reads its connections in turn.
Fairness ==
    /\ WF_vars(SendWorld)
    /\ \A c \in Clients : WF_vars(Continue(c)) /\ SF_vars(ServeAny(c))

Spec == Init /\ [][Next]_vars /\ Fairness

-----------------------------------------------------------------------------
\* An end that greets has agreed with the other end on nonce and secret, although
\* neither looks at what it is sent during the handshake until the secret is opened
\* (sodium-util.h:84,102-110); and the types hold.
BothAgree == TypeOK /\
    \A c \in Clients :
        cpc[c] = "text" \/ (spc = "work" /\ peer = c) =>
            nonce = NonceOf(c) /\ publicKey = KeyOf(c) /\ secret = Secret(c, Server)

\* No program fails while a single client runs: each side reads what the other
\* sent for what it was, whatever sizes Encrypt left the buffers with
\* (crypto-client.cpp:39).  With a second client the server may fail, and a client
\* never does.
FailsOnlyIfCrowded ==
    /\ \A c \in Clients : cpc[c] # "failed"
    /\ spc = "failed" => \E c, d \in Clients : c # d /\ cpc[c] # "start" /\ cpc[d] # "start"

\* A client that was started is greeted again and again, unless the server has
\* failed.
KeepsGreeting ==
    \A c \in Clients :
        /\ []<>(greeted[c] \/ cpc[c] = "start" \/ spc = "failed")
        /\ []<>(~greeted[c] \/ cpc[c] = "start" \/ spc = "failed")
=============================================================================
