-------------------------------- MODULE PubSub --------------------------------
(***************************************************************************)
(* The publishers and subscribers of multi-part/ and pubsub/.  Several     *)
(* publishers connect to the broker of multi-part/broker.cpp, which passes *)
(* their messages on; or the one of pubsub/pub.cpp is connected to by the  *)
(* subscribers themselves, who subscribe to everything or to one process.  *)
(*                                                                         *)
(* A message is the sequence of its frames; a frame is a process id or a   *)
(* text, of some publisher.                                                *)
(***************************************************************************)
EXTENDS Integers, Sequences

CONSTANTS Publishers, Subscribers,
          Whole,   \* the subscribers that run sub2.cpp, the others run sub.cpp
          All,     \* the empty subscription
          HWM      \* messages a pipe holds

ASSUME PubSubAssumption == Whole \subseteq Subscribers /\ All \notin Publishers /\ HWM \in Nat \ {0}

VARIABLES direct,   \* the publisher that pubsub/pub.cpp runs, or All: a broker
          filter,   \* subscriber -> All or the publisher on its command line
          up,       \* the subscribers that run
          joined,   \* those whose subscription has arrived
          known,    \* publisher -> the subscriptions the broker passed on to it
          out,      \* publisher -> messages the broker can read
          pipe,     \* subscriber -> messages it can read, less the frames it has
          next,     \* subscriber -> what it takes the next frame for
          p,        \* subscriber -> the frame it printed as process id
          printed   \* subscriber -> flips with every text it prints

pubVars == <<known, out>>
subVars == <<pipe, next, p, printed>>
vars == <<direct, filter, up, joined, pubVars, subVars>>

Pid(q)  == [what |-> "pid", of |-> q]
Text(q) == [what |-> "text", of |-> q]
Frame   == [what : {"pid", "text"}, of : Publishers]
NoFrame == [what |-> "none", of |-> All]

TypeOK ==
    /\ direct \in Publishers \cup {All}
    /\ filter \in [Subscribers -> Publishers \cup {All}]
    /\ joined \subseteq up /\ up \subseteq Subscribers
    /\ known \in [Publishers -> SUBSET (Publishers \cup {All})]
    /\ out \in [Publishers -> Seq(Seq(Frame))]
    /\ pipe \in [Subscribers -> Seq(Seq(Frame))]
    /\ \A s \in Subscribers : Len(pipe[s]) <= HWM /\ \A k \in 1 .. Len(pipe[s]) : pipe[s][k] # << >>
    /\ next \in [Subscribers -> {"pid", "text"}]
    /\ p \in [Subscribers -> Frame \cup {NoFrame}]
    /\ printed \in [Subscribers -> BOOLEAN]

Init ==
    /\ direct \in Publishers \cup {All}
    /\ filter \in [Subscribers -> Publishers \cup {All}]
    /\ up = {} /\ joined = {}
    /\ known = [q \in Publishers |-> {}]
    /\ out = [q \in Publishers |-> << >>]
    /\ pipe = [s \in Subscribers |-> << >>]
    /\ next = [s \in Subscribers |-> "pid"]
    /\ p = [s \in Subscribers |-> NoFrame]
    /\ printed = [s \in Subscribers |-> FALSE]

-----------------------------------------------------------------------------
Brokered == direct = All

\* Mutant: the option is set to the process id, 0 when there is none.
PidOf(f, m) == m[1] = Pid(f)
\* ZMQ_SUBSCRIBE compares the beginning of a message's first frame.
Matches(f, m) == f = All \/ m[1] = Pid(f)

Wanting(m) == {s \in joined : Matches(filter[s], m)}

HasRoom(s) == Len(pipe[s]) < HWM

\* A message for a subscriber whose pipe is full is dropped, as a whole.
Distribute(m) ==
    pipe' = [s \in Subscribers |-> IF s \in Wanting(m) /\ HasRoom(s)
                                   THEN Append(pipe[s], m) ELSE pipe[s]]

\* Mutant: without the text.
PidOnly(q) == <<Pid(q)>>
PidAndText(q) == <<Pid(q), Text(q)>>

\* multi-part/pub.cpp and pub2.cpp.  A PUB socket drops what nobody subscribed to
\* and what does not fit.
Publish(q) ==
    /\ Brokered
    /\ \E f \in known[q] : Matches(f, PidAndText(q))
    /\ Len(out[q]) < HWM
    /\ out' = [out EXCEPT ![q] = Append(@, PidAndText(q))]
    /\ UNCHANGED <<direct, filter, up, joined, known, subVars>>

\* pubsub/pub.cpp, whose first zmq_send is compiled out.
TextOnly(q) == <<Text(q)>>

PublishText ==
    /\ ~Brokered
    /\ Distribute(TextOnly(direct))
    /\ UNCHANGED <<direct, filter, up, joined, pubVars, next, p, printed>>

-----------------------------------------------------------------------------
(* zmq_proxy between the XSUB backend and the XPUB frontend.                 *)

Forward(q) ==
    /\ out[q] # << >>
    /\ Distribute(Head(out[q]))
    /\ out' = [out EXCEPT ![q] = Tail(@)]
    /\ UNCHANGED <<direct, filter, up, joined, known, next, p, printed>>

\* The XPUB socket counts equal subscriptions as one.
Subscriptions == {filter[s] : s \in joined}

ForwardSubscriptions(q) ==
    /\ Brokered
    /\ known[q] # Subscriptions
    /\ known' = [known EXCEPT ![q] = Subscriptions]
    /\ UNCHANGED <<direct, filter, up, joined, out, subVars>>

-----------------------------------------------------------------------------
Start(s) ==
    /\ s \notin up
    /\ up' = up \cup {s}
    /\ UNCHANGED <<direct, filter, joined, pubVars, subVars>>

Join(s) ==
    /\ s \in up \ joined
    /\ joined' = joined \cup {s}
    /\ UNCHANGED <<direct, filter, up, pubVars, subVars>>

\* The process is killed; its connection ends, and its subscription with it.
Stop(s) ==
    /\ s \in up
    /\ up' = up \ {s}
    /\ joined' = joined \ {s}
    /\ pipe' = [pipe EXCEPT ![s] = << >>]
    /\ next' = [next EXCEPT ![s] = "pid"]
    /\ p' = [p EXCEPT ![s] = NoFrame]
    /\ UNCHANGED <<direct, filter, pubVars, printed>>

\* sub.cpp reads a frame whatever message it belongs to: a process id and a text
\* in turn.
ReadFrame(s) ==
    /\ s \notin Whole
    /\ pipe[s] # << >>
    /\ LET m == Head(pipe[s]) IN
          /\ pipe' = [pipe EXCEPT ![s] = IF Len(m) = 1 THEN Tail(@) ELSE <<Tail(m)>> \o Tail(@)]
          /\ \/ /\ next[s] = "pid"
                /\ p' = [p EXCEPT ![s] = Head(m)]
                /\ next' = [next EXCEPT ![s] = "text"]
                /\ UNCHANGED printed
             \/ /\ next[s] = "text"
                /\ printed' = [printed EXCEPT ![s] = ~@]
                /\ next' = [next EXCEPT ![s] = "pid"]
                /\ UNCHANGED p
    /\ UNCHANGED <<direct, filter, up, joined, pubVars>>

\* recv_messages of sub2.cpp reads frames for as long as there are more.
ReadMessage(s) ==
    /\ s \in Whole
    /\ pipe[s] # << >>
    /\ pipe' = [pipe EXCEPT ![s] = Tail(@)]
    /\ printed' = [printed EXCEPT ![s] = ~@]
    /\ UNCHANGED <<direct, filter, up, joined, pubVars, next, p>>

-----------------------------------------------------------------------------
Publisher(q)  == Publish(q) \/ Forward(q) \/ ForwardSubscriptions(q)
Subscriber(s) == Join(s) \/ ReadFrame(s) \/ ReadMessage(s)

Next == \/ \E q \in Publishers : Publisher(q)
        \/ PublishText
        \/ \E s \in Subscribers : Subscriber(s) \/ Start(s) \/ Stop(s)

\* Publishers go on for ever, what runs reads, and connections come about.
Fairness ==
    /\ \A q \in Publishers : /\ WF_vars(Publish(q)) /\ WF_vars(Forward(q))
                             /\ WF_vars(ForwardSubscriptions(q))
    /\ WF_vars(PublishText)
    /\ \A s \in Subscribers : WF_vars(Subscriber(s))

Spec == Init /\ [][Next]_vars /\ Fairness

-----------------------------------------------------------------------------
\* Behind a broker sub.cpp, which reads frames without asking where a message ends
\* (multi-part/sub.cpp:45-51), stays in step: what it prints after a process id is
\* a text of that process, however many messages it missed; and no pipe holds more
\* than it should (TypeOK).
InStep == TypeOK /\
    (Brokered => \A s \in Subscribers \ Whole : next[s] = "text" =>
        p[s].what = "pid" /\ pipe[s] # << >> /\ Head(pipe[s]) = <<Text(p[s].of)>>)

\* A subscriber that keeps running keeps printing, whenever it was started and
\* whoever else comes and goes; only one that names a process at pubsub/pub.cpp,
\* which does not send its process id (:48), may wait for ever.
KeepsPrinting ==
    \A s \in Subscribers :
        Brokered \/ filter[s] = All =>
            (<>[](s \in up) => []<>(printed[s]) /\ []<>(~printed[s]))
=============================================================================
