----------------------------- MODULE AtLeastOnce -----------------------------
(***************************************************************************)
(* What the pirate patterns of reliable-req-rep/ promise a client: it goes *)
(* through its requests in order, it takes a request for answered only if  *)
(* some server handled that very request, and it never waits for ever: it  *)
(* gets an answer or gives up.                                             *)
(***************************************************************************)
EXTENDS Integers

CONSTANTS Clients, MaxSeq

VARIABLES phase,     \* client -> "idle", "waiting" or "stopped"
          current,   \* client -> number of its current request
          handled    \* the requests a server has replied to

vars == <<phase, current, handled>>

Request(c) == [client |-> c, seq |-> current[c]]

Init ==
    /\ phase   = [c \in Clients |-> "idle"]
    /\ current = [c \in Clients |-> 0]
    /\ handled = {}

Submit(c) ==
    /\ phase[c] = "idle"
    /\ current[c] < MaxSeq
    /\ phase' = [phase EXCEPT ![c] = "waiting"]
    /\ UNCHANGED <<current, handled>>

\* A server may still handle the last request of a client that gave up.
Handle(c) ==
    /\ phase[c] # "idle"
    /\ handled' = handled \cup {Request(c)}
    /\ UNCHANGED <<phase, current>>

Complete(c) ==
    /\ phase[c] = "waiting"
    /\ Request(c) \in handled
    /\ phase'   = [phase EXCEPT ![c] = "idle"]
    /\ current' = [current EXCEPT ![c] = @ + 1]
    /\ UNCHANGED handled

GiveUp(c) ==
    /\ phase[c] = "waiting"
    /\ phase' = [phase EXCEPT ![c] = "stopped"]
    /\ UNCHANGED <<current, handled>>

Next == \E c \in Clients : Submit(c) \/ Handle(c) \/ Complete(c) \/ GiveUp(c)

Spec == Init /\ [][Next]_vars

\* The liveness half of the promise.
EveryRequestResolved ==
    \A c \in Clients : phase[c] = "waiting" ~> phase[c] # "waiting"
=============================================================================
