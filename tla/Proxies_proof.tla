----------------------------- MODULE Proxies_proof -----------------------------
(***************************************************************************)
(* Proofs about the two programs with a proxy between two sides that do    *)
(* not know each other: the broker of PubSub and the ROUTER/DEALER proxy   *)
(* of AsyncServer.  They share no state and no constant.                   *)
(*                                                                         *)
(* PubSub, for any number of publishers and subscribers: why sub.cpp,      *)
(* which does not ask where a message ends, stays in step behind the       *)
(* broker.  What the broker passes on are whole messages, a pipe drops a   *)
(* message as a whole, and the only message that is ever cut is the first  *)
(* one of the pipe, whose process id the subscriber has.  AsyncServer, for *)
(* any number of clients and workers: every request is at one place and    *)
(* gets as many replies as were drawn for it, which is a count over all    *)
(* the queues; and what has the same way stays in order.                   *)
(***************************************************************************)
EXTENDS PubSub, AsyncServer, SequenceFacts

-----------------------------------------------------------------------------
(* PubSub *)

Wholes == {PidAndText(q) : q \in Publishers}
Pieces == Wholes \cup {<<Text(q)>> : q \in Publishers}

Typed ==
    /\ direct \in Publishers \cup {All}
    /\ filter \in [Subscribers -> Publishers \cup {All}]
    /\ joined \subseteq up /\ up \subseteq Subscribers
    /\ known \in [Publishers -> SUBSET (Publishers \cup {All})]
    /\ out \in [Publishers -> Seq(Wholes)]
    /\ pipe \in [Subscribers -> Seq(Pieces)]
    /\ \A s \in Subscribers : Len(pipe[s]) <= HWM
    /\ next \in [Subscribers -> {"pid", "text"}]
    /\ p \in [Subscribers -> Frame \cup {NoFrame}]
    /\ printed \in [Subscribers -> BOOLEAN]

\* Subscriber s has read nothing of the first message of its pipe, or just the
\* process id.
Uncut(s) == next[s] = "pid" /\ \A k \in 1 .. Len(pipe[s]) : pipe[s][k] \in Wholes
Cut(s) == /\ next[s] = "text" /\ s \notin Whole
          /\ p[s].what = "pid" /\ pipe[s] # << >> /\ pipe[s][1] = <<Text(p[s].of)>>
          /\ \A k \in 2 .. Len(pipe[s]) : pipe[s][k] \in Wholes

Stepwise == Brokered => \A s \in Subscribers : Uncut(s) \/ Cut(s)

SubInv == Typed /\ Stepwise

-----------------------------------------------------------------------------
(* Messages and their pieces.                                                 *)

LEMMA WholeFacts ==
    ASSUME NEW m \in Wholes
    PROVE  /\ m \in Pieces /\ m \in Seq(Frame) /\ m # << >> /\ Len(m) = 2
           /\ \E q \in Publishers : m = PidAndText(q) /\ Head(m) = Pid(q) /\ Tail(m) = <<Text(q)>>
<1>1. PICK q \in Publishers : m = <<Pid(q), Text(q)>>
  BY DEF Wholes, PidAndText
<1>2. Pid(q) \in Frame /\ Text(q) \in Frame
  BY DEF Pid, Text, Frame
<1>3. m \in Seq(Frame) /\ m # << >> /\ Len(m) = 2 /\ Head(m) = Pid(q) /\ Tail(m) = <<Text(q)>>
  BY <1>1, <1>2
<1> QED
  BY <1>1, <1>3 DEF Pieces, PidAndText

LEMMA PieceFacts ==
    ASSUME NEW m \in Pieces
    PROVE  /\ m \in Seq(Frame) /\ m # << >> /\ Head(m) \in Frame
           /\ Len(m) # 1 => m \in Wholes /\ Tail(m) \in Pieces
<1>1. CASE m \in Wholes
  <2>1. m \in Seq(Frame) /\ m # << >>
    BY <1>1, WholeFacts
  <2>2. Tail(m) \in Pieces
    BY <1>1, WholeFacts DEF Pieces
  <2> QED BY <1>1, <2>1, <2>2
<1>2. ASSUME NEW q \in Publishers, m = <<Text(q)>> PROVE m \in Seq(Frame) /\ m # << >> /\ Len(m) = 1
  <2>1. Text(q) \in Frame
    BY DEF Text, Frame
  <2> QED BY <1>2, <2>1
<1>3. m \in Seq(Frame) /\ m # << >> /\ (Len(m) # 1 => m \in Wholes /\ Tail(m) \in Pieces)
  BY <1>1, <1>2 DEF Pieces
<1> QED
  BY <1>3

\* A message put in the place of the first one.
LEMMA Recut ==
    ASSUME NEW S, NEW s \in Seq(S), s # << >>, NEW e \in S
    PROVE  LET r == <<e>> \o Tail(s)
           IN  /\ r \in Seq(S) /\ Len(r) = Len(s) /\ r # << >> /\ r[1] = e
               /\ \A k \in 2 .. Len(r) : r[k] = s[k]
  OBVIOUS

\* The pipes hold what they may after a message came.
LEMMA DistributeFacts ==
    ASSUME Typed, NEW m \in Pieces, Distribute(m)
    PROVE  /\ pipe' \in [Subscribers -> Seq(Pieces)]
           /\ \A s \in Subscribers : Len(pipe'[s]) <= HWM
           /\ \A s \in Subscribers :
                 \/ pipe'[s] = pipe[s]
                 \/ /\ Len(pipe'[s]) = Len(pipe[s]) + 1
                    /\ \A k \in 1 .. Len(pipe[s]) : pipe'[s][k] = pipe[s][k]
                    /\ pipe'[s][Len(pipe[s]) + 1] = m
<1>1. ASSUME NEW s \in Subscribers
      PROVE  /\ pipe'[s] \in Seq(Pieces) /\ Len(pipe'[s]) <= HWM
             /\ \/ pipe'[s] = pipe[s]
                \/ /\ Len(pipe'[s]) = Len(pipe[s]) + 1
                   /\ \A k \in 1 .. Len(pipe[s]) : pipe'[s][k] = pipe[s][k]
                   /\ pipe'[s][Len(pipe[s]) + 1] = m
  <2>1. pipe[s] \in Seq(Pieces) /\ Len(pipe[s]) <= HWM
    BY DEF Typed
  <2>2. pipe'[s] = IF s \in Wanting(m) /\ HasRoom(s) THEN Append(pipe[s], m) ELSE pipe[s]
    BY DEF Distribute
  <2>3. CASE s \in Wanting(m) /\ HasRoom(s)
    <3>1. pipe'[s] = Append(pipe[s], m) /\ Len(pipe[s]) < HWM
      BY <2>2, <2>3 DEF HasRoom
    <3> QED BY <2>1, <3>1, PubSubAssumption
  <2>4. CASE ~ (s \in Wanting(m) /\ HasRoom(s))
    BY <2>1, <2>2, <2>4
  <2> QED BY <2>3, <2>4
<1>2. DOMAIN pipe' = Subscribers /\ pipe' = [s \in Subscribers |-> pipe'[s]]
  BY DEF Distribute
<1> QED
  BY <1>1, <1>2

\* A whole message leaves the subscribers in step.
LEMMA WholeKeepsStep ==
    ASSUME Typed, Stepwise, NEW m \in Wholes, Distribute(m),
           UNCHANGED <<direct, next, p>>
    PROVE  Stepwise'
<1> SUFFICES ASSUME Brokered, NEW s \in Subscribers PROVE (Uncut(s) \/ Cut(s))'
  BY DEF Stepwise, Brokered
<1>1. pipe[s] \in Seq(Pieces)
  BY DEF Typed
<1>2. \/ pipe'[s] = pipe[s]
      \/ /\ Len(pipe'[s]) = Len(pipe[s]) + 1
         /\ \A k \in 1 .. Len(pipe[s]) : pipe'[s][k] = pipe[s][k]
         /\ pipe'[s][Len(pipe[s]) + 1] = m
  BY WholeFacts, DistributeFacts
<1> DEFINE n == Len(pipe[s])
<1>3. n \in Nat /\ (pipe[s] # << >> => n >= 1) /\ (pipe'[s] = << >> => Len(pipe'[s]) = 0)
  BY <1>1
<1> HIDE DEF n
<1>4. Uncut(s) \/ Cut(s)
  BY DEF Stepwise
<1>5. CASE pipe'[s] = pipe[s]
  BY <1>4, <1>5 DEF Uncut, Cut
<1>6. CASE /\ Len(pipe'[s]) = n + 1
           /\ \A k \in 1 .. n : pipe'[s][k] = pipe[s][k]
           /\ pipe'[s][n + 1] = m
  <2>1. CASE Uncut(s)
    <3>1. \A k \in 1 .. n : pipe[s][k] \in Wholes
      BY <2>1 DEF Uncut, n
    <3>2. \A k \in 1 .. n + 1 : pipe'[s][k] \in Wholes
      BY <1>3, <1>6, <3>1
    <3> QED BY <1>6, <2>1, <3>2 DEF Uncut
  <2>2. CASE Cut(s)
    <3>1. \A k \in 2 .. n : pipe[s][k] \in Wholes
      BY <2>2 DEF Cut, n
    <3>2. \A k \in 2 .. n + 1 : pipe'[s][k] \in Wholes
      BY <1>3, <1>6, <3>1
    <3>3. pipe'[s] # << >> /\ pipe'[s][1] = pipe[s][1]
      BY <1>3, <1>6, <2>2 DEF Cut
    <3> QED BY <1>6, <2>2, <3>2, <3>3 DEF Cut
  <2> QED BY <1>4, <2>1, <2>2
<1> QED
  BY <1>2, <1>5, <1>6 DEF n

-----------------------------------------------------------------------------
(* The invariant.                                                             *)

LEMMA InitHolds == Init => SubInv
<1> SUFFICES ASSUME Init PROVE SubInv
  OBVIOUS
<1>1. Typed
  <2>1. Len(<< >>) = 0 /\ 0 <= HWM
    BY PubSubAssumption
  <2>2. /\ direct \in Publishers \cup {All}
        /\ filter \in [Subscribers -> Publishers \cup {All}]
        /\ up = {} /\ joined = {}
    BY DEF Init
  <2>3. /\ known = [q \in Publishers |-> {}]
        /\ out = [q \in Publishers |-> << >>]
    BY DEF Init
  <2>4. /\ pipe = [s \in Subscribers |-> << >>]
        /\ next = [s \in Subscribers |-> "pid"]
        /\ p = [s \in Subscribers |-> NoFrame]
        /\ printed = [s \in Subscribers |-> FALSE]
    BY DEF Init
  <2>5. /\ pipe \in [Subscribers -> Seq(Pieces)]
        /\ \A s \in Subscribers : Len(pipe[s]) <= HWM
    BY <2>1, <2>4
  <2> QED BY <2>2, <2>3, <2>4, <2>5 DEF Typed
<1>2. Stepwise
  BY DEF Init, Stepwise, Uncut
<1> QED
  BY <1>1, <1>2 DEF SubInv

LEMMA PublisherKeeps ==
    ASSUME SubInv, NEW q \in Publishers, Publisher(q)
    PROVE  SubInv'
<1> USE DEF SubInv
<1>1. CASE Publish(q)
  <2>1. /\ out' = [out EXCEPT ![q] = Append(@, PidAndText(q))]
        /\ UNCHANGED <<direct, filter, up, joined, known, pipe, next, p, printed>>
    BY <1>1 DEF Publish, subVars
  <2>2. PidAndText(q) \in Wholes
    BY DEF Wholes
  <2>3. out' \in [Publishers -> Seq(Wholes)]
    BY <2>1, <2>2 DEF Typed
  <2>4. Typed'
    BY <2>1, <2>3 DEF Typed
  <2> QED BY <2>1, <2>4 DEF Stepwise, Brokered, Uncut, Cut
<1>2. CASE Forward(q)
  <2> DEFINE m == Head(out[q])
  <2>1. /\ out[q] # << >> /\ Distribute(m)
        /\ out' = [out EXCEPT ![q] = Tail(@)]
        /\ UNCHANGED <<direct, filter, up, joined, known, next, p, printed>>
    BY <1>2 DEF Forward
  <2>2. m \in Wholes /\ out' \in [Publishers -> Seq(Wholes)]
    BY <2>1 DEF Typed
  <2> HIDE DEF m
  <2>3. m \in Pieces
    BY <2>2, WholeFacts
  <2>4. /\ pipe' \in [Subscribers -> Seq(Pieces)]
        /\ \A s \in Subscribers : Len(pipe'[s]) <= HWM
    BY <2>1, <2>3, DistributeFacts
  <2>5. Typed'
    BY <2>1, <2>2, <2>4 DEF Typed
  <2>6. Stepwise'
    BY <2>1, <2>2, WholeKeepsStep
  <2> QED BY <2>5, <2>6
<1>3. CASE ForwardSubscriptions(q)
  <2>1. /\ known' = [known EXCEPT ![q] = Subscriptions]
        /\ UNCHANGED <<direct, filter, up, joined, out, pipe, next, p, printed>>
    BY <1>3 DEF ForwardSubscriptions, subVars
  <2>2. Subscriptions \subseteq Publishers \cup {All}
    BY DEF Subscriptions, Typed
  <2>3. Typed'
    BY <2>1, <2>2 DEF Typed
  <2> QED BY <2>1, <2>3 DEF Stepwise, Brokered, Uncut, Cut
<1> QED
  BY <1>1, <1>2, <1>3 DEF Publisher

LEMMA TextKeeps == ASSUME SubInv, PublishText PROVE SubInv'
<1>1. /\ ~ Brokered /\ Distribute(TextOnly(direct))
      /\ UNCHANGED <<direct, filter, up, joined, known, out, next, p, printed>>
  BY DEF PublishText, pubVars
<1>2. TextOnly(direct) \in Pieces
  BY <1>1 DEF TextOnly, Pieces, SubInv, Typed, Brokered
<1>3. /\ pipe' \in [Subscribers -> Seq(Pieces)]
      /\ \A s \in Subscribers : Len(pipe'[s]) <= HWM
  BY <1>1, <1>2, DistributeFacts DEF SubInv
<1>4. Typed'
  BY <1>1, <1>3 DEF SubInv, Typed
<1> QED
  BY <1>1, <1>4 DEF SubInv, Stepwise, Brokered

\* sub.cpp reads the process id of an uncut message, or the text of a cut one.
LEMMA ReadFrameKeeps == ASSUME SubInv, NEW s \in Subscribers, ReadFrame(s) PROVE SubInv'
<1> DEFINE m == Head(pipe[s])
           r == IF Len(m) = 1 THEN Tail(pipe[s]) ELSE <<Tail(m)>> \o Tail(pipe[s])
<1>1. /\ s \notin Whole /\ pipe[s] # << >>
      /\ pipe' = [pipe EXCEPT ![s] = r]
      /\ UNCHANGED <<direct, filter, up, joined, known, out>>
      /\ \/ /\ next[s] = "pid"
            /\ p' = [p EXCEPT ![s] = Head(m)]
            /\ next' = [next EXCEPT ![s] = "text"]
            /\ UNCHANGED printed
         \/ /\ next[s] = "text"
            /\ printed' = [printed EXCEPT ![s] = ~@]
            /\ next' = [next EXCEPT ![s] = "pid"]
            /\ UNCHANGED p
  BY DEF ReadFrame, pubVars
<1>2. Typed
  BY DEF SubInv
<1>3. /\ pipe[s] \in Seq(Pieces) /\ Len(pipe[s]) <= HWM /\ Len(pipe[s]) \in Nat \ {0}
      /\ m \in Pieces /\ m = pipe[s][1]
  BY <1>1, <1>2 DEF Typed
\* What is left in the pipe.
<1>4. /\ r \in Seq(Pieces) /\ Len(r) <= HWM
      /\ Len(m) = 1 => /\ Len(r) = Len(pipe[s]) - 1
                       /\ \A k \in 1 .. Len(r) : r[k] = pipe[s][k + 1]
      /\ Len(m) # 1 => /\ r # << >> /\ r[1] = Tail(m) /\ Len(r) = Len(pipe[s])
                       /\ \A k \in 2 .. Len(r) : r[k] = pipe[s][k]
  <2>1. CASE Len(m) = 1
    <3>1. r = Tail(pipe[s])
      BY <2>1
    <3> HIDE DEF m, r
    <3>2. /\ r \in Seq(Pieces) /\ Len(r) = Len(pipe[s]) - 1
          /\ \A k \in 1 .. Len(r) : r[k] = pipe[s][k + 1]
      BY <1>1, <1>3, <3>1
    <3> QED BY <1>3, <2>1, <3>2, PubSubAssumption
  <2>2. CASE Len(m) # 1
    <3>1. r = <<Tail(m)>> \o Tail(pipe[s])
      BY <2>2
    <3>2. Tail(m) \in Pieces
      BY <1>3, <2>2, PieceFacts
    <3> HIDE DEF m, r
    <3>3. /\ r \in Seq(Pieces) /\ Len(r) = Len(pipe[s]) /\ r # << >> /\ r[1] = Tail(m)
          /\ \A k \in 2 .. Len(r) : r[k] = pipe[s][k]
      BY <1>1, <1>3, <3>1, <3>2, Recut
    <3> QED BY <1>3, <2>2, <3>3
  <2> QED BY <2>1, <2>2
<1> HIDE DEF r
<1>5. Typed'
  <2>1. Head(m) \in Frame
    BY <1>3, PieceFacts
  <2>2. pipe' \in [Subscribers -> Seq(Pieces)]
    BY <1>1, <1>2, <1>4 DEF Typed
  <2>3. \A t \in Subscribers : Len(pipe'[t]) <= HWM
    BY <1>1, <1>2, <1>4 DEF Typed
  <2> HIDE DEF m
  <2>4. /\ next' \in [Subscribers -> {"pid", "text"}]
        /\ p' \in [Subscribers -> Frame \cup {NoFrame}]
        /\ printed' \in [Subscribers -> BOOLEAN]
    BY <1>1, <1>2, <2>1 DEF Typed
  <2> QED BY <1>1, <1>2, <2>2, <2>3, <2>4 DEF Typed
<1>6. Stepwise'
  <2> SUFFICES ASSUME Brokered, NEW t \in Subscribers PROVE (Uncut(t) \/ Cut(t))'
    BY <1>1 DEF Stepwise, Brokered
  <2>1. Uncut(t) \/ Cut(t)
    BY DEF SubInv, Stepwise
  <2>2. CASE t # s
    <3>1. pipe'[t] = pipe[t] /\ next'[t] = next[t] /\ p'[t] = p[t]
      BY <1>1, <1>2, <2>2 DEF Typed
    <3> QED BY <2>1, <3>1 DEF Uncut, Cut
  <2>3. CASE t = s /\ Uncut(s)
    <3>1. m \in Wholes
      BY <1>3, <2>3 DEF Uncut
    <3>2. PICK q \in Publishers : Head(m) = Pid(q) /\ Tail(m) = <<Text(q)>>
      BY <3>1, WholeFacts
    <3>3. Len(m) = 2
      BY <3>1, WholeFacts
    <3> HIDE DEF m
    <3>4. pipe'[s] = r /\ next'[s] = "text" /\ p'[s] = Pid(q)
      BY <1>1, <1>2, <2>3, <3>2 DEF Typed, Uncut
    <3>5. r # << >> /\ r[1] = <<Text(q)>> /\ \A k \in 2 .. Len(r) : r[k] \in Wholes
      <4>1. /\ r # << >> /\ r[1] = Tail(m) /\ Len(r) = Len(pipe[s])
            /\ \A k \in 2 .. Len(r) : r[k] = pipe[s][k]
        BY <1>4, <3>3
      <4>2. \A k \in 1 .. Len(pipe[s]) : pipe[s][k] \in Wholes
        BY <2>3 DEF Uncut
      <4> QED BY <1>3, <3>2, <4>1, <4>2
    <3>6. p'[s].what = "pid" /\ p'[s].of = q
      BY <3>4 DEF Pid
    <3> QED BY <1>1, <2>3, <3>4, <3>5, <3>6 DEF Cut
  <2>4. CASE t = s /\ Cut(s)
    <3> HIDE DEF m
    <3>1. Len(m) = 1
      <4>1. m = <<Text(p[s].of)>>
        BY <1>3, <2>4 DEF Cut
      <4> QED BY <4>1
    <3>2. pipe'[s] = r /\ next'[s] = "pid"
      BY <1>1, <1>2, <2>4 DEF Typed, Cut
    <3>3. \A k \in 1 .. Len(r) : r[k] \in Wholes
      BY <1>3, <1>4, <2>4, <3>1 DEF Cut
    <3> QED BY <2>4, <3>2, <3>3 DEF Uncut
  <2> QED BY <2>1, <2>2, <2>3, <2>4
<1> QED
  BY <1>5, <1>6 DEF SubInv

\* sub2.cpp has read nothing or all of a message.
LEMMA ReadMessageKeeps == ASSUME SubInv, NEW s \in Subscribers, ReadMessage(s) PROVE SubInv'
<1>1. /\ s \in Whole /\ pipe[s] # << >>
      /\ pipe' = [pipe EXCEPT ![s] = Tail(@)]
      /\ printed' = [printed EXCEPT ![s] = ~@]
      /\ UNCHANGED <<direct, filter, up, joined, known, out, next, p>>
  BY DEF ReadMessage, pubVars
<1>2. Typed
  BY DEF SubInv
<1> DEFINE r == Tail(pipe[s])
<1>3. /\ r \in Seq(Pieces) /\ Len(r) <= HWM
      /\ \A k \in 1 .. Len(r) : k + 1 \in 1 .. Len(pipe[s]) /\ r[k] = pipe[s][k + 1]
  <2>1. pipe[s] \in Seq(Pieces) /\ Len(pipe[s]) <= HWM
    BY <1>2 DEF Typed
  <2> QED BY <1>1, <2>1, PubSubAssumption
<1>4. pipe' = [pipe EXCEPT ![s] = r]
  BY <1>1
<1> HIDE DEF r
<1>5. Typed'
  <2>1. /\ pipe' \in [Subscribers -> Seq(Pieces)]
        /\ \A t \in Subscribers : Len(pipe'[t]) <= HWM
    BY <1>2, <1>3, <1>4 DEF Typed
  <2>2. printed' \in [Subscribers -> BOOLEAN]
    BY <1>1, <1>2 DEF Typed
  <2> QED BY <1>1, <1>2, <2>1, <2>2 DEF Typed
<1>6. ASSUME Brokered, NEW t \in Subscribers PROVE (Uncut(t) \/ Cut(t))'
  <2>1. Uncut(t) \/ Cut(t)
    BY <1>6 DEF SubInv, Stepwise
  <2>2. CASE t # s
    <3>1. pipe'[t] = pipe[t]
      BY <1>1, <1>2, <2>2 DEF Typed
    <3> QED BY <1>1, <2>1, <3>1 DEF Uncut, Cut
  <2>3. CASE t = s
    <3>1. Uncut(s) /\ pipe'[s] = r
      BY <1>1, <1>2, <1>4, <2>1, <2>3 DEF Cut, Typed
    <3> QED BY <1>1, <1>3, <2>3, <3>1 DEF Uncut
  <2> QED BY <2>2, <2>3
<1> QED
  BY <1>1, <1>5, <1>6 DEF SubInv, Stepwise, Brokered

LEMMA JoinKeeps == ASSUME SubInv, NEW s \in Subscribers, Join(s) \/ Start(s) PROVE SubInv'
<1>1. UNCHANGED <<direct, filter, known, out, pipe, next, p, printed>>
  BY DEF Join, Start, pubVars, subVars
<1>2. joined' \subseteq up' /\ up' \subseteq Subscribers
  BY DEF Join, Start, SubInv, Typed
<1> QED
  BY <1>1, <1>2 DEF SubInv, Typed, Stepwise, Brokered, Uncut, Cut

LEMMA StopKeeps == ASSUME SubInv, NEW s \in Subscribers, Stop(s) PROVE SubInv'
<1>1. /\ up' = up \ {s} /\ joined' = joined \ {s}
      /\ pipe' = [pipe EXCEPT ![s] = << >>]
      /\ next' = [next EXCEPT ![s] = "pid"]
      /\ p' = [p EXCEPT ![s] = NoFrame]
      /\ UNCHANGED <<direct, filter, known, out, printed>>
  BY DEF Stop, pubVars
<1>2. Typed
  BY DEF SubInv
<1>3. Typed'
  <2>1. Len(<< >>) = 0 /\ 0 <= HWM /\ << >> \in Seq(Pieces)
    BY PubSubAssumption
  <2>2. /\ pipe' \in [Subscribers -> Seq(Pieces)]
        /\ \A t \in Subscribers : Len(pipe'[t]) <= HWM
    BY <1>1, <1>2, <2>1 DEF Typed
  <2>3. /\ next' \in [Subscribers -> {"pid", "text"}]
        /\ p' \in [Subscribers -> Frame \cup {NoFrame}]
        /\ joined' \subseteq up' /\ up' \subseteq Subscribers
    BY <1>1, <1>2 DEF Typed
  <2> QED BY <1>1, <1>2, <2>2, <2>3 DEF Typed
<1>4. ASSUME Brokered, NEW t \in Subscribers PROVE (Uncut(t) \/ Cut(t))'
  <2>1. CASE t # s
    <3>1. pipe'[t] = pipe[t] /\ next'[t] = next[t] /\ p'[t] = p[t]
      BY <1>1, <1>2, <2>1 DEF Typed
    <3> QED BY <1>4, <3>1 DEF SubInv, Stepwise, Uncut, Cut
  <2>2. CASE t = s
    <3>1. pipe'[s] = << >> /\ next'[s] = "pid"
      BY <1>1, <1>2 DEF Typed
    <3> QED BY <2>2, <3>1 DEF Uncut
  <2> QED BY <2>1, <2>2
<1> QED
  BY <1>1, <1>3, <1>4 DEF SubInv, Stepwise, Brokered

LEMMA SubInvKept == SubInv /\ [Next]_vars => SubInv'
<1> SUFFICES ASSUME SubInv, [Next]_vars PROVE SubInv'
  OBVIOUS
<1>1. CASE UNCHANGED vars
  BY <1>1 DEF vars, pubVars, subVars, SubInv, Typed, Stepwise, Brokered, Uncut, Cut
<1>2. CASE Next
  BY <1>2, PublisherKeeps, TextKeeps, JoinKeeps, ReadFrameKeeps, ReadMessageKeeps, StopKeeps
     DEF Next, Subscriber
<1> QED
  BY <1>1, <1>2

LEMMA SubInvGives == SubInv => InStep
<1> SUFFICES ASSUME SubInv PROVE InStep
  OBVIOUS
<1>1. Wholes \subseteq Seq(Frame) /\ Pieces \subseteq Seq(Frame) /\ << >> \notin Pieces
  BY WholeFacts, PieceFacts
<1>2. TypeOK
  <2>1. \A S, T : S \subseteq T => Seq(S) \subseteq Seq(T)
    OBVIOUS
  <2>2. out \in [Publishers -> Seq(Seq(Frame))]
    BY <1>1, <2>1 DEF SubInv, Typed
  <2>3. pipe \in [Subscribers -> Seq(Seq(Frame))]
    BY <1>1, <2>1 DEF SubInv, Typed
  <2>4. \A s \in Subscribers : Len(pipe[s]) <= HWM /\ \A k \in 1 .. Len(pipe[s]) : pipe[s][k] # << >>
    BY <1>1 DEF SubInv, Typed
  <2> QED BY <2>2, <2>3, <2>4 DEF TypeOK, SubInv, Typed
<1>3. ASSUME Brokered, NEW s \in Subscribers, next[s] = "text"
      PROVE  p[s].what = "pid" /\ pipe[s] # << >> /\ Head(pipe[s]) = <<Text(p[s].of)>>
  BY <1>3 DEF SubInv, Typed, Stepwise, Uncut, Cut
<1> QED
  BY <1>2, <1>3 DEF InStep

\* Behind a broker, whatever the numbers of publishers and subscribers and however
\* small the high-water mark, sub.cpp prints after a process id a text of that
\* process (multi-part/sub.cpp:45-51).
THEOREM SubscribersStayInStep == Spec => []InStep
<1>1. Init => SubInv
  BY InitHolds
<1>2. SubInv /\ [Next]_vars => SubInv'
  BY SubInvKept
<1>3. SubInv => InStep
  BY SubInvGives
<1> QED
  BY <1>1, <1>2, <1>3, PTL DEF Spec

-----------------------------------------------------------------------------
(* AsyncServer *)

\* Request n of client c, and the replies to it, before and after the ROUTER has
\* taken the identity off.
Ask(c, n)     == [from |-> c, num |-> n]
Answers(c, n) == [to : {c}, num : {n}, by : Workers]
Numbered(n)   == [to : Clients, num : {n}, by : Workers]

\* There is a turn when there is a worker, and a request that is answered.
TurnInv ==
    /\ IF pool = << >> THEN turn = 1 ELSE turn \in 1 .. Len(pool)
    /\ job \in [Workers -> Request \cup {NoJob}]
    /\ \A w \in Workers : left[w] > 0 => job[w] \in Request

\* The totals are of finitely many: MaxRequests bounds them, whatever the number of
\* clients and workers.
FiniteInv ==
    /\ IsFiniteSet(Cells(Clients, sent))
    /\ \A c \in Clients : \A n \in Number :
          /\ IsFiniteSet(Cells(Workers, EachOf(tasks, {Ask(c, n)})))
          /\ IsFiniteSet(Cells(Workers, EachOf(backend, Answers(c, n))))

\* Request n of client c is yet to be sent, waits, is answered by one worker, or has
\* been answered.
Stands(c, n) ==
    IF n > sent[c]
    THEN Waiting(c, n) = 0 /\ InHand(c, n) = {} /\ RepliesTo(c, n) = 0
    ELSE \/ Waiting(c, n) = 1 /\ InHand(c, n) = {} /\ RepliesTo(c, n) = 0
         \/ /\ Waiting(c, n) = 0
            /\ \E w \in Workers : InHand(c, n) = {w} /\ left[w] <= MAX_REPLIES - RepliesTo(c, n)
         \/ /\ Waiting(c, n) = 0 /\ InHand(c, n) = {}
            /\ RepliesTo(c, n) \in 1 .. MAX_REPLIES
StandsInv == \A c \in Clients : \A n \in Number : Stands(c, n)

AsyncInv == AsyncTypeOK /\ TurnInv /\ FiniteInv /\ StandsInv

-----------------------------------------------------------------------------
\* How many of a kind are in a queue, when one is appended and when one is taken.
LEMMA OccursChanges ==
    ASSUME NEW R, NEW s \in Seq(R), NEW T
    PROVE  /\ Occurs(s, T) \in Nat
           /\ Occurs(<< >>, T) = 0
           /\ \A r \in R : Occurs(Append(s, r), T) = Occurs(s, T) + (IF r \in T THEN 1 ELSE 0)
           /\ s # << >> => Occurs(s, T) = Occurs(Tail(s), T) + (IF Head(s) \in T THEN 1 ELSE 0)
<1>1. \A t : Occurs(t, T) = Cardinality(Places(t, T))
  BY DEF Occurs, Places
<1>2. \A t \in Seq(R) : Cardinality(Places(t, T)) \in Nat
  BY PlacesFinite
<1>3. Occurs(<< >>, T) = 0
  <2>1. << >> \in Seq(R)
    OBVIOUS
  <2>2. Cardinality(Places(<< >>, T)) = 0
    BY <2>1, PlacesFinite
  <2>. QED BY <1>1, <2>2
<1>4. ASSUME NEW r \in R
      PROVE  Occurs(Append(s, r), T) = Occurs(s, T) + (IF r \in T THEN 1 ELSE 0)
  BY <1>1, AppendCounts
<1>5. ASSUME s # << >>
      PROVE  Occurs(s, T) = Occurs(Tail(s), T) + (IF Head(s) \in T THEN 1 ELSE 0)
  <2>1. Occurs(Tail(s), T) = Occurs(s, T) - (IF Head(s) \in T THEN 1 ELSE 0)
    BY <1>1, <1>5, TailCounts
  <2>. QED BY <1>1, <1>2, <2>1
<1>. QED BY <1>1, <1>2, <1>3, <1>4, <1>5

\* What the proxy forwards, in either direction.
Message == Request \cup Reply
Queues  == [Workers -> Seq(Message)]

\* A total is a number when it is of finitely many.
LEMMA TotalIs ==
    ASSUME NEW q \in Queues, NEW T
    PROVE  /\ EachOf(q, T) \in [Workers -> Nat]
           /\ Total(EachOf(q, T)) = Cardinality(Cells(Workers, EachOf(q, T)))
           /\ IsFiniteSet(Cells(Workers, EachOf(q, T))) => Total(EachOf(q, T)) \in Nat
<1>1. EachOf(q, T) \in [Workers -> Nat]
  BY OccursChanges DEF EachOf, Queues
<1>2. DOMAIN EachOf(q, T) = Workers
  BY <1>1
<1>3. Total(EachOf(q, T)) = Cardinality(Cells(Workers, EachOf(q, T)))
  BY <1>2 DEF Total, Cells
<1>. QED BY <1>1, <1>3, FS_CardinalityType

\* One more in one worker's queue.
LEMMA TotalUp ==
    ASSUME NEW q \in Queues, NEW w \in Workers, NEW r \in Message, NEW T,
           IsFiniteSet(Cells(Workers, EachOf(q, T))),
           NEW p2 \in Queues,
           p2[w] = Append(q[w], r), \A v \in Workers \ {w} : p2[v] = q[v]
    PROVE  /\ IsFiniteSet(Cells(Workers, EachOf(p2, T)))
           /\ Total(EachOf(p2, T)) = Total(EachOf(q, T)) + (IF r \in T THEN 1 ELSE 0)
<1> DEFINE f == EachOf(q, T)
           g == EachOf(p2, T)
<1>0. \A v \in Workers : p2[v] = IF v = w THEN Append(q[w], r) ELSE q[v]
  BY DEF Queues
<1>1. ASSUME NEW v \in Workers
      PROVE  g[v] = IF v = w /\ r \in T THEN f[v] + 1 ELSE f[v]
  <2>1. f[v] = Occurs(q[v], T) /\ g[v] = Occurs(p2[v], T) /\ Occurs(q[v], T) \in Nat
    BY OccursChanges DEF EachOf, Queues
  <2>2. Occurs(Append(q[v], r), T) = Occurs(q[v], T) + (IF r \in T THEN 1 ELSE 0)
    BY OccursChanges DEF Queues
  <2>3. p2[v] = IF v = w THEN Append(q[w], r) ELSE q[v]
    BY <1>0
  <2> HIDE DEF f, g
  <2>. QED BY ONLY <2>1, <2>2, <2>3
<1>2. /\ f \in [Workers -> Nat] /\ IsFiniteSet(Cells(Workers, f))
      /\ Total(f) = Cardinality(Cells(Workers, f)) /\ Total(f) \in Nat
      /\ Total(g) = Cardinality(Cells(Workers, g))
  BY TotalIs
<1> HIDE DEF f, g
<1>3. CASE r \in T
  <2>1. \A v \in Workers : g[v] = IF v = w THEN f[v] + 1 ELSE f[v]
    BY <1>1, <1>3
  <2>2. /\ IsFiniteSet(Cells(Workers, g))
        /\ Cardinality(Cells(Workers, g)) = Cardinality(Cells(Workers, f)) + 1
    BY <1>2, <2>1, CellsUp, ZenonT(30)
  <2>. QED BY <1>2, <1>3, <2>2 DEF f, g
<1>4. CASE r \notin T
  <2>1. Cells(Workers, g) = Cells(Workers, f)
    BY <1>1, <1>4, CellsSame
  <2>. QED BY <1>2, <1>4, <2>1 DEF f, g
<1>. QED BY <1>3, <1>4

\* One less in one worker's queue.
LEMMA TotalDown ==
    ASSUME NEW q \in Queues, NEW w \in Workers, q[w] # << >>, NEW T,
           IsFiniteSet(Cells(Workers, EachOf(q, T))),
           NEW p2 \in Queues,
           p2[w] = Tail(q[w]), \A v \in Workers \ {w} : p2[v] = q[v]
    PROVE  /\ IsFiniteSet(Cells(Workers, EachOf(p2, T)))
           /\ Total(EachOf(q, T)) = Total(EachOf(p2, T)) + (IF Head(q[w]) \in T THEN 1 ELSE 0)
           /\ Total(EachOf(p2, T)) \in Nat
<1>0. Tail(q[w]) \in Seq(Message) /\ \A v \in Workers : p2[v] = IF v = w THEN Tail(q[w]) ELSE q[v]
  BY DEF Queues
<1> DEFINE f == EachOf(q, T)
           g == EachOf(p2, T)
<1>1. ASSUME NEW v \in Workers
      PROVE  g[v] = IF v = w /\ Head(q[w]) \in T THEN f[v] - 1 ELSE f[v]
  <2>1. f[v] = Occurs(q[v], T) /\ g[v] = Occurs(p2[v], T) /\ Occurs(p2[v], T) \in Nat
    BY OccursChanges DEF EachOf, Queues
  <2>2. v = w => Occurs(q[v], T) = Occurs(Tail(q[v]), T) + (IF Head(q[v]) \in T THEN 1 ELSE 0)
    BY OccursChanges DEF Queues
  <2>3. p2[v] = IF v = w THEN Tail(q[w]) ELSE q[v]
    BY <1>0
  <2>4. CASE v = w
    <3>1. p2[v] = Tail(q[v])
      BY <2>3, <2>4
    <3> HIDE DEF f, g
    <3>. QED BY ONLY <2>1, <2>2, <2>4, <3>1
  <2>5. CASE v # w
    BY <2>1, <2>3, <2>5
  <2>. QED BY <2>4, <2>5
<1>2. /\ f \in [Workers -> Nat] /\ IsFiniteSet(Cells(Workers, f))
      /\ Total(f) = Cardinality(Cells(Workers, f)) /\ Total(f) \in Nat
      /\ g \in [Workers -> Nat] /\ Total(g) = Cardinality(Cells(Workers, g))
      /\ IsFiniteSet(Cells(Workers, g)) => Total(g) \in Nat
  BY TotalIs
<1> HIDE DEF f, g
<1>3. CASE Head(q[w]) \in T
  <2>1. \A v \in Workers : g[v] = IF v = w THEN f[v] - 1 ELSE f[v]
    BY <1>1, <1>3
  <2>2. /\ IsFiniteSet(Cells(Workers, g))
        /\ Cardinality(Cells(Workers, g)) = Cardinality(Cells(Workers, f)) - 1
    BY <1>2, <2>1, CellsDown, ZenonT(30)
  <2>. QED BY <1>2, <1>3, <2>2 DEF f, g
<1>4. CASE Head(q[w]) \notin T
  <2>1. Cells(Workers, g) = Cells(Workers, f)
    BY <1>1, <1>4, CellsSame
  <2>. QED BY <1>2, <1>4, <2>1 DEF f, g
<1>. QED BY <1>3, <1>4

-----------------------------------------------------------------------------
\* The queues hold what they should, and the counts are numbers.
LEMMA AsyncCounts ==
    ASSUME AsyncTypeOK, FiniteInv, NEW c \in Clients, NEW n \in Number
    PROVE  /\ n \in Nat /\ sent[c] \in Nat /\ got[c][n] \in Nat
           /\ Occurs(frontend[c], {n}) \in Nat /\ Total(EachOf(tasks, {Ask(c, n)})) \in Nat
           /\ Waiting(c, n) = Occurs(frontend[c], {n}) + Total(EachOf(tasks, {Ask(c, n)}))
           /\ Occurs(inbox[c], Numbered(n)) \in Nat /\ Total(EachOf(backend, Answers(c, n))) \in Nat
           /\ RepliesTo(c, n) = got[c][n] + Occurs(inbox[c], Numbered(n))
                                    + Total(EachOf(backend, Answers(c, n)))
           /\ Waiting(c, n) \in Nat /\ RepliesTo(c, n) \in Nat
<1>1. /\ frontend[c] \in Seq(Number) /\ inbox[c] \in Seq(Reply) /\ n \in Nat
      /\ sent[c] \in Nat /\ got[c][n] \in Nat
  BY AsyncAssumption DEF AsyncTypeOK, Number
<1>2. Occurs(frontend[c], {n}) \in Nat /\ Occurs(inbox[c], Numbered(n)) \in Nat
  BY <1>1, OccursChanges
<1>3. tasks \in Queues /\ backend \in Queues
  BY DEF AsyncTypeOK, Message, Queues
<1>4. Total(EachOf(tasks, {Ask(c, n)})) \in Nat /\ Total(EachOf(backend, Answers(c, n))) \in Nat
  BY <1>3, TotalIs DEF FiniteInv
<1>5. Waiting(c, n) = Occurs(frontend[c], {n}) + Total(EachOf(tasks, {Ask(c, n)}))
  BY DEF Waiting, Ask
<1>6. RepliesTo(c, n) = got[c][n] + Occurs(inbox[c], Numbered(n))
                          + Total(EachOf(backend, Answers(c, n)))
  BY DEF RepliesTo, Numbered, Answers
<1>. QED BY <1>1, <1>2, <1>4, <1>5, <1>6

\* A step that leaves the counts of a request, and who answers it, as they were.
LEMMA StandsKept ==
    ASSUME NEW c \in Clients, NEW n \in Number, Stands(c, n),
           (n > sent[c])' <=> n > sent[c],
           Waiting(c, n)' = Waiting(c, n), RepliesTo(c, n)' = RepliesTo(c, n),
           InHand(c, n)' = InHand(c, n), \A w \in InHand(c, n) : left'[w] = left[w]
    PROVE  Stands(c, n)'
  BY DEF Stands

\* The two that are asked about and the two that are answered are the same.
LEMMA AskedIs ==
    ASSUME NEW r \in Request, NEW c, NEW n
    PROVE  r \in {Ask(c, n)} <=> r.from = c /\ r.num = n
  BY DEF Request, Ask

LEMMA AnsweredIs ==
    ASSUME NEW r \in Reply, NEW c, NEW n
    PROVE  /\ r \in Answers(c, n) <=> r.to = c /\ r.num = n
           /\ r \in Numbered(n) <=> r.num = n
           /\ r.to \in Clients /\ r.num \in Number /\ r.by \in Workers
  BY DEF Reply, Answers, Numbered

\* A request that waits is answered by nobody; one that is answered does not wait,
\* and no request gets more replies than it may.
LEMMA StandsWhere ==
    ASSUME AsyncTypeOK, FiniteInv, NEW c \in Clients, NEW n \in Number, Stands(c, n)
    PROVE  /\ Waiting(c, n) > 0 =>
                n <= sent[c] /\ Waiting(c, n) = 1 /\ InHand(c, n) = {} /\ RepliesTo(c, n) = 0
           /\ \A w \in InHand(c, n) :
                /\ n <= sent[c] /\ Waiting(c, n) = 0 /\ InHand(c, n) = {w}
                /\ left[w] <= MAX_REPLIES - RepliesTo(c, n)
           /\ RepliesTo(c, n) <= MAX_REPLIES
<1>1. /\ Waiting(c, n) \in Nat /\ RepliesTo(c, n) \in Nat /\ n \in Nat /\ sent[c] \in Nat
      /\ MAX_REPLIES \in Nat \ {0}
  BY AsyncCounts, AsyncAssumption
<1>2. \A w \in InHand(c, n) : w \in Workers /\ left[w] \in Nat /\ left[w] > 0
  BY AsyncAssumption DEF InHand, AsyncTypeOK
<1>. QED BY <1>1, <1>2 DEF Stands

\* The client's next request starts to wait.
LEMMA ClientSendStands ==
    ASSUME AsyncInv, NEW d \in Clients, ClientSend(d), UNCHANGED running
    PROVE  AsyncTypeOK' /\ TurnInv' /\ FiniteInv' /\ StandsInv'
<1>. USE DEF AsyncInv
<1>1. /\ Total(sent) < MaxRequests
      /\ frontend' = [frontend EXCEPT ![d] = Append(@, sent[d] + 1)]
      /\ sent' = [sent EXCEPT ![d] = @ + 1]
      /\ UNCHANGED <<got, inbox, pool, turn, tasks, backend, job, left>>
  BY DEF ClientSend, jobVars
<1>2. /\ sent \in [Clients -> Nat] /\ Total(sent) = Cardinality(Cells(Clients, sent))
      /\ MaxRequests \in Nat /\ frontend \in [Clients -> Seq(Number)]
  BY AsyncAssumption DEF AsyncTypeOK, Total, Cells
<1>3. sent[d] + 1 \in 0 .. MaxRequests /\ sent[d] + 1 \in Number /\ sent[d] \in Nat
  <2>1. sent[d] <= Total(sent) /\ Total(sent) \in Nat
    BY <1>2, CellsBound DEF FiniteInv
  <2>. QED BY <1>1, <1>2, <2>1 DEF Number
<1>4. AsyncTypeOK'
  <2>1. frontend' \in [Clients -> Seq(Number)]
    BY <1>1, <1>2, <1>3
  <2>2. sent' \in [Clients -> 0 .. MaxRequests]
    BY <1>1, <1>3 DEF AsyncTypeOK
  <2>3. /\ got' \in [Clients -> [Number -> 0 .. MAX_REPLIES]]
        /\ inbox' \in [Clients -> Seq(Reply)]
        /\ pool' \in Seq(Workers) /\ turn' \in Nat \ {0}
        /\ tasks' \in [Workers -> Seq(Request)]
        /\ \A w \in Workers : job'[w] \in Request \/ job'[w] = NoJob
        /\ left' \in [Workers -> 0 .. MAX_REPLIES]
        /\ backend' \in [Workers -> Seq(Reply)]
    BY <1>1 DEF AsyncTypeOK
  <2>. QED BY <1>1, <2>1, <2>2, <2>3 DEF AsyncTypeOK
<1>5. TurnInv'
  BY <1>1 DEF TurnInv
<1>6. FiniteInv'
  <2>1. \A x \in Clients : sent'[x] = IF x = d THEN sent[x] + 1 ELSE sent[x]
    BY <1>1, <1>2
  <2>2. IsFiniteSet(Cells(Clients, sent'))
    BY <1>2, <2>1, CellsUp DEF FiniteInv
  <2>. QED BY <1>1, <2>2 DEF FiniteInv
<1>7. ASSUME NEW c \in Clients, NEW n \in Number
      PROVE  Stands(c, n)'
  <2>1. /\ Waiting(c, n)' = Waiting(c, n) + (IF c = d /\ n = sent[d] + 1 THEN 1 ELSE 0)
        /\ InHand(c, n)' = InHand(c, n) /\ RepliesTo(c, n)' = RepliesTo(c, n)
    <3>1. Occurs(frontend'[c], {n})
              = Occurs(frontend[c], {n}) + (IF c = d /\ n = sent[d] + 1 THEN 1 ELSE 0)
      <4>1. frontend[d] \in Seq(Number) /\ frontend[c] \in Seq(Number)
        BY <1>2
      <4>2. Occurs(Append(frontend[d], sent[d] + 1), {n})
               = Occurs(frontend[d], {n}) + (IF sent[d] + 1 \in {n} THEN 1 ELSE 0)
        BY <1>3, <4>1, OccursChanges
      <4>3. Occurs(frontend[c], {n}) \in Nat
        BY AsyncCounts
      <4>. QED BY <1>1, <1>2, <4>2, <4>3
    <3>2. /\ Waiting(c, n) = Occurs(frontend[c], {n}) + Total(EachOf(tasks, {Ask(c, n)}))
          /\ Occurs(frontend[c], {n}) \in Nat /\ Total(EachOf(tasks, {Ask(c, n)})) \in Nat
      BY AsyncCounts
    <3>3. Waiting(c, n)' = Occurs(frontend'[c], {n}) + Total(EachOf(tasks, {Ask(c, n)}))
      BY <1>1 DEF Waiting, Ask
    <3>4. InHand(c, n)' = InHand(c, n) /\ RepliesTo(c, n)' = RepliesTo(c, n)
      BY <1>1 DEF InHand, RepliesTo
    <3>. QED BY <3>1, <3>2, <3>3, <3>4
  <2>2. Waiting(c, n) \in Nat /\ n \in Nat /\ sent[c] \in Nat
    BY AsyncCounts
  <2>3. Stands(c, n)
    BY DEF StandsInv
  <2>4. CASE c = d /\ n = sent[d] + 1
    <3>1. n > sent[c] /\ sent'[c] = n
      BY <1>1, <1>2, <1>3, <2>4
    <3>2. Waiting(c, n)' = 1 /\ InHand(c, n)' = {} /\ RepliesTo(c, n)' = 0
      BY <2>1, <2>3, <2>4, <3>1 DEF Stands
    <3>. QED BY <2>2, <3>1, <3>2 DEF Stands
  <2>5. CASE ~(c = d /\ n = sent[d] + 1)
    <3>1. (n > sent[c])' <=> n > sent[c]
      BY <1>1, <1>2, <2>2, <2>5
    <3>2. Waiting(c, n)' = Waiting(c, n)
      BY <2>1, <2>2, <2>5
    <3>. QED BY <1>1, <2>1, <2>3, <3>1, <3>2, StandsKept
  <2>. QED BY <2>4, <2>5
<1>8. StandsInv'
  BY <1>7 DEF StandsInv
<1>. QED BY <1>4, <1>5, <1>6, <1>8

\* The ROUTER's oldest request of a client waits with the worker whose turn it is.
LEMMA ForwardRequestStands ==
    ASSUME AsyncInv, NEW d \in Clients, ForwardRequest(d), UNCHANGED running
    PROVE  AsyncTypeOK' /\ TurnInv' /\ FiniteInv' /\ StandsInv'
<1>. USE DEF AsyncInv
<1>1. PICK m, v, r : m = Head(frontend[d]) /\ v = pool[turn] /\ r = Ask(d, m)
  OBVIOUS
<1>2. /\ frontend[d] # << >> /\ pool # << >>
      /\ tasks' = [tasks EXCEPT ![v] = Append(@, r)]
      /\ frontend' = [frontend EXCEPT ![d] = Tail(@)]
      /\ turn' = (turn % Len(pool)) + 1
      /\ UNCHANGED <<sent, got, inbox, pool, backend, job, left>>
  BY <1>1 DEF ForwardRequest, Queued, NextTurn, Ask, clientVars, jobVars
<1>3. /\ frontend \in [Clients -> Seq(Number)] /\ tasks \in [Workers -> Seq(Request)]
      /\ pool \in Seq(Workers) /\ Len(pool) \in Nat \ {0} /\ turn \in 1 .. Len(pool)
  <2>1. pool \in Seq(Workers) /\ turn \in 1 .. Len(pool)
    BY <1>2 DEF AsyncTypeOK, TurnInv
  <2>2. Len(pool) \in Nat \ {0}
    BY <1>2, <2>1
  <2>. QED BY <2>1, <2>2 DEF AsyncTypeOK
<1>4. m \in Number /\ v \in Workers /\ r \in Request
  BY <1>1, <1>2, <1>3 DEF Request, Ask
<1>5. turn' \in 1 .. Len(pool)
  BY <1>2, <1>3
<1>6. AsyncTypeOK'
  <2>1. frontend' \in [Clients -> Seq(Number)]
    BY <1>2, <1>3
  <2>2. tasks' \in [Workers -> Seq(Request)]
    BY <1>2, <1>3, <1>4
  <2>3. turn' \in Nat \ {0}
    BY <1>3, <1>5
  <2>. QED BY <1>2, <2>1, <2>2, <2>3 DEF AsyncTypeOK
<1>7. TurnInv'
  BY <1>2, <1>5 DEF TurnInv
<1>8. ASSUME NEW c \in Clients, NEW n \in Number
      PROVE  /\ IsFiniteSet(Cells(Workers, EachOf(tasks', {Ask(c, n)})))
             /\ Stands(c, n)'
  <2>1. IsFiniteSet(Cells(Workers, EachOf(tasks, {Ask(c, n)})))
    BY DEF FiniteInv
  <2>2. /\ IsFiniteSet(Cells(Workers, EachOf(tasks', {Ask(c, n)})))
        /\ Total(EachOf(tasks', {Ask(c, n)}))
               = Total(EachOf(tasks, {Ask(c, n)})) + (IF r \in {Ask(c, n)} THEN 1 ELSE 0)
    <3>1. tasks \in Queues /\ v \in Workers /\ r \in Message
          /\ tasks' \in Queues /\ tasks'[v] = Append(tasks[v], r)
          /\ \A u \in Workers \ {v} : tasks'[u] = tasks[u]
      BY <1>2, <1>3, <1>4 DEF Message, Queues
    <3> HIDE DEF AsyncInv
    <3>. QED BY <2>1, <3>1, TotalUp
  <2>3. r \in {Ask(c, n)} <=> c = d /\ n = m
    BY <1>1 DEF Ask
  <2>4. /\ c = d => Occurs(frontend[c], {n})
                       = Occurs(frontend'[c], {n}) + (IF n = m THEN 1 ELSE 0)
        /\ c # d => frontend'[c] = frontend[c]
        /\ Occurs(frontend'[c], {n}) \in Nat
    <3>1. frontend[c] \in Seq(Number) /\ frontend'[c] \in Seq(Number)
      BY <1>3, <1>6 DEF AsyncTypeOK
    <3>2. /\ frontend[c] # << >> => Occurs(frontend[c], {n})
                  = Occurs(Tail(frontend[c]), {n}) + (IF Head(frontend[c]) \in {n} THEN 1 ELSE 0)
          /\ Occurs(frontend'[c], {n}) \in Nat
      BY <3>1, OccursChanges
    <3>. QED BY <1>1, <1>2, <1>3, <3>2
  <2>5. /\ Waiting(c, n) = Occurs(frontend[c], {n}) + Total(EachOf(tasks, {Ask(c, n)}))
        /\ Total(EachOf(tasks, {Ask(c, n)})) \in Nat
    BY AsyncCounts
  <2>6. Waiting(c, n)' = Occurs(frontend'[c], {n}) + Total(EachOf(tasks', {Ask(c, n)}))
    BY DEF Waiting, Ask
  <2>7. Waiting(c, n)' = Waiting(c, n)
    BY <2>2, <2>3, <2>4, <2>5, <2>6
  <2>8. InHand(c, n)' = InHand(c, n) /\ RepliesTo(c, n)' = RepliesTo(c, n) /\ left' = left
    BY <1>2 DEF InHand, RepliesTo
  <2>9. Stands(c, n)
    BY DEF StandsInv
  <2>10. (n > sent[c])' <=> n > sent[c]
    BY <1>2
  <2>. QED BY <2>2, <2>7, <2>8, <2>9, <2>10, StandsKept
<1>9. FiniteInv' /\ StandsInv'
  BY <1>2, <1>8 DEF FiniteInv, StandsInv
<1>. QED BY <1>6, <1>7, <1>9

\* A request that waited is in a worker's hands, with the replies drawn for it.
LEMMA WorkerReceiveStands ==
    ASSUME AsyncInv, NEW w \in Workers, WorkerReceive(w), UNCHANGED running
    PROVE  AsyncTypeOK' /\ TurnInv' /\ FiniteInv' /\ StandsInv'
<1>. USE DEF AsyncInv
<1>1. PICK r, k : r = Head(tasks[w]) /\ k \in Draws /\ left' = [left EXCEPT ![w] = k]
  BY DEF WorkerReceive
<1>2. /\ left[w] = 0 /\ tasks[w] # << >>
      /\ job' = [job EXCEPT ![w] = r]
      /\ tasks' = [tasks EXCEPT ![w] = Tail(@)]
      /\ UNCHANGED <<sent, got, inbox, frontend, pool, turn, backend>>
  BY <1>1 DEF WorkerReceive, clientVars
<1>3. /\ tasks \in [Workers -> Seq(Request)] /\ job \in [Workers -> Request \cup {NoJob}]
      /\ left \in [Workers -> 0 .. MAX_REPLIES] /\ MAX_REPLIES \in Nat \ {0}
  BY AsyncAssumption DEF AsyncTypeOK, TurnInv
<1>4. r \in Request /\ k \in 1 .. MAX_REPLIES
  BY <1>1, <1>2, <1>3 DEF Draws
<1>5. /\ tasks' \in [Workers -> Seq(Request)]
      /\ left' \in [Workers -> 0 .. MAX_REPLIES]
      /\ job' \in [Workers -> Request \cup {NoJob}]
      /\ \A v \in Workers : left'[v] > 0 => job'[v] \in Request
  <2>1. tasks' \in [Workers -> Seq(Request)]
    BY <1>2, <1>3
  <2>2. left' \in [Workers -> 0 .. MAX_REPLIES]
    BY <1>1, <1>3, <1>4
  <2>3. job' \in [Workers -> Request \cup {NoJob}]
    BY <1>2, <1>3, <1>4
  <2>4. \A v \in Workers : left'[v] > 0 => job'[v] \in Request
    BY <1>1, <1>2, <1>3, <1>4 DEF TurnInv
  <2>. QED BY <2>1, <2>2, <2>3, <2>4
<1>6. AsyncTypeOK' /\ TurnInv'
  BY <1>2, <1>5 DEF AsyncTypeOK, TurnInv
<1>7. ASSUME NEW c \in Clients, NEW n \in Number
      PROVE  /\ IsFiniteSet(Cells(Workers, EachOf(tasks', {Ask(c, n)})))
             /\ Stands(c, n)'
  <2>1. IsFiniteSet(Cells(Workers, EachOf(tasks, {Ask(c, n)})))
    BY DEF FiniteInv
  <2>2. /\ IsFiniteSet(Cells(Workers, EachOf(tasks', {Ask(c, n)})))
        /\ Total(EachOf(tasks, {Ask(c, n)}))
               = Total(EachOf(tasks', {Ask(c, n)})) + (IF r \in {Ask(c, n)} THEN 1 ELSE 0)
        /\ Total(EachOf(tasks', {Ask(c, n)})) \in Nat
    <3>1. tasks \in Queues /\ tasks[w] # << >> /\ r = Head(tasks[w])
          /\ tasks' \in Queues /\ tasks'[w] = Tail(tasks[w])
          /\ \A u \in Workers \ {w} : tasks'[u] = tasks[u]
      BY <1>1, <1>2, <1>3 DEF Message, Queues
    <3> HIDE DEF AsyncInv
    <3>. QED BY <2>1, <3>1, TotalDown
  <2>3. /\ Waiting(c, n) = Occurs(frontend[c], {n}) + Total(EachOf(tasks, {Ask(c, n)}))
        /\ Occurs(frontend[c], {n}) \in Nat
        /\ n \in Nat /\ sent[c] \in Nat /\ RepliesTo(c, n) \in Nat
    BY AsyncCounts
  <2>4. Waiting(c, n)' = Occurs(frontend[c], {n}) + Total(EachOf(tasks', {Ask(c, n)}))
    BY <1>2 DEF Waiting, Ask
  <2>5. RepliesTo(c, n)' = RepliesTo(c, n) /\ ((n > sent[c])' <=> n > sent[c])
    BY <1>2 DEF RepliesTo
  <2>6. Stands(c, n)
    BY DEF StandsInv
  <2>7. \A v \in Workers \ {w} : left'[v] = left[v] /\ job'[v] = job[v]
    BY <1>1, <1>2, <1>3
  <2>8. left'[w] = k /\ job'[w] = r /\ k > 0
    BY <1>1, <1>2, <1>3, <1>4
  <2>9. CASE r = Ask(c, n)
    <3>1. Waiting(c, n) > 0 /\ Waiting(c, n)' = Waiting(c, n) - 1
      BY <2>2, <2>3, <2>4, <2>9
    <3>2. n <= sent[c] /\ Waiting(c, n) = 1 /\ InHand(c, n) = {} /\ RepliesTo(c, n) = 0
      BY <2>6, <3>1, StandsWhere
    <3>3. InHand(c, n)' = {w}
      BY <2>7, <2>8, <2>9, <3>2 DEF InHand, Ask
    <3>4. left'[w] <= MAX_REPLIES - RepliesTo(c, n)'
      BY <1>3, <1>4, <2>5, <2>8, <3>2
    <3>5. Waiting(c, n)' = 0 /\ ~(n > sent[c])'
      BY <2>3, <2>5, <3>1, <3>2
    <3>. QED BY <2>2, <3>3, <3>4, <3>5 DEF Stands
  <2>10. CASE r # Ask(c, n)
    <3>1. Waiting(c, n)' = Waiting(c, n)
      BY <2>2, <2>3, <2>4, <2>10
    <3>2. InHand(c, n)' = InHand(c, n) /\ w \notin InHand(c, n)
      BY <1>2, <2>7, <2>8, <2>10 DEF InHand, Ask
    <3>3. \A v \in InHand(c, n) : left'[v] = left[v]
      BY <2>7, <3>2 DEF InHand
    <3>. QED BY <2>2, <2>5, <2>6, <3>1, <3>2, <3>3, StandsKept
  <2>. QED BY <2>9, <2>10
<1>8. FiniteInv' /\ StandsInv'
  BY <1>2, <1>7 DEF FiniteInv, StandsInv
<1>. QED BY <1>6, <1>8

\* One of the replies drawn is on its way to the proxy; after the last, the request
\* is in nobody's hands.
LEMMA WorkerReplyStands ==
    ASSUME AsyncInv, NEW w \in Workers, WorkerReply(w), UNCHANGED running
    PROVE  AsyncTypeOK' /\ TurnInv' /\ FiniteInv' /\ StandsInv'
<1>. USE DEF AsyncInv
<1>1. PICK r : r = [to |-> job[w].from, num |-> job[w].num, by |-> w]
  OBVIOUS
<1>2. /\ left[w] > 0
      /\ backend' = [backend EXCEPT ![w] = Append(@, r)]
      /\ left' = [left EXCEPT ![w] = @ - 1]
      /\ UNCHANGED <<sent, got, inbox, frontend, pool, turn, tasks, job>>
  BY <1>1 DEF WorkerReply, clientVars
<1>3. /\ backend \in [Workers -> Seq(Reply)] /\ left \in [Workers -> 0 .. MAX_REPLIES]
      /\ MAX_REPLIES \in Nat \ {0} /\ job[w] \in Request
  BY <1>2, AsyncAssumption DEF AsyncTypeOK, TurnInv
<1>4. r \in Reply
  BY <1>1, <1>3 DEF Request, Reply
<1>5. /\ backend' \in [Workers -> Seq(Reply)]
      /\ left' \in [Workers -> 0 .. MAX_REPLIES]
      /\ \A v \in Workers : left'[v] > 0 => left[v] > 0
  BY <1>2, <1>3, <1>4
<1>6. AsyncTypeOK' /\ TurnInv'
  <2>1. AsyncTypeOK'
    BY <1>2, <1>5 DEF AsyncTypeOK
  <2>2. \A v \in Workers : left'[v] > 0 => job[v] \in Request
    BY <1>5 DEF TurnInv
  <2>. QED BY <1>2, <2>1, <2>2 DEF TurnInv
<1>7. ASSUME NEW c \in Clients, NEW n \in Number
      PROVE  /\ IsFiniteSet(Cells(Workers, EachOf(backend', Answers(c, n))))
             /\ Stands(c, n)'
  <2>1. IsFiniteSet(Cells(Workers, EachOf(backend, Answers(c, n))))
    BY DEF FiniteInv
  <2>2. /\ IsFiniteSet(Cells(Workers, EachOf(backend', Answers(c, n))))
        /\ Total(EachOf(backend', Answers(c, n)))
               = Total(EachOf(backend, Answers(c, n))) + (IF r \in Answers(c, n) THEN 1 ELSE 0)
    <3>1. backend \in Queues /\ r \in Message
          /\ backend' \in Queues /\ backend'[w] = Append(backend[w], r)
          /\ \A v \in Workers \ {w} : backend'[v] = backend[v]
      BY <1>2, <1>3, <1>4, <1>5 DEF Message, Queues
    <3> HIDE DEF AsyncInv
    <3>. QED BY <2>1, <3>1, TotalUp
  <2>3. r \in Answers(c, n) <=> job[w] = Ask(c, n)
    BY <1>1, <1>3 DEF Request, Ask, Answers
  <2>4. /\ RepliesTo(c, n) = got[c][n] + Occurs(inbox[c], Numbered(n))
                               + Total(EachOf(backend, Answers(c, n)))
        /\ got[c][n] \in Nat /\ Occurs(inbox[c], Numbered(n)) \in Nat
        /\ Total(EachOf(backend, Answers(c, n))) \in Nat
        /\ n \in Nat /\ sent[c] \in Nat /\ RepliesTo(c, n) \in Nat
    BY AsyncCounts
  <2>5. RepliesTo(c, n)' = got[c][n] + Occurs(inbox[c], Numbered(n))
                             + Total(EachOf(backend', Answers(c, n)))
    BY <1>2 DEF RepliesTo, Numbered, Answers
  <2>6. Waiting(c, n)' = Waiting(c, n) /\ ((n > sent[c])' <=> n > sent[c])
    BY <1>2 DEF Waiting
  <2>7. Stands(c, n)
    BY DEF StandsInv
  <2>8. \A v \in Workers \ {w} : left'[v] = left[v]
    BY <1>2, <1>3
  <2>9. left'[w] = left[w] - 1 /\ left[w] \in Nat /\ left[w] > 0
    BY <1>2, <1>3
  <2>10. CASE job[w] = Ask(c, n)
    <3>1. w \in InHand(c, n)
      BY <2>9, <2>10 DEF InHand, Ask
    <3>2. /\ n <= sent[c] /\ Waiting(c, n) = 0 /\ InHand(c, n) = {w}
          /\ left[w] <= MAX_REPLIES - RepliesTo(c, n)
      BY <2>7, <3>1, StandsWhere
    <3>3. RepliesTo(c, n)' = RepliesTo(c, n) + 1
      BY <2>2, <2>3, <2>4, <2>5, <2>10
    <3>4. Waiting(c, n)' = 0 /\ ~(n > sent[c])'
      BY <2>4, <2>6, <3>2
    <3>5. left'[w] <= MAX_REPLIES - RepliesTo(c, n)' /\ RepliesTo(c, n)' \in 1 .. MAX_REPLIES
      <4>1. PICK k, n0, m0 : k = RepliesTo(c, n) /\ n0 = left[w] /\ m0 = MAX_REPLIES
        OBVIOUS
      <4>2. k \in Nat /\ n0 \in Nat /\ m0 \in Nat /\ n0 > 0 /\ n0 <= m0 - k
        BY <1>3, <2>4, <2>9, <3>2, <4>1
      <4>3. n0 - 1 <= m0 - (k + 1) /\ k + 1 \in 1 .. m0
        BY ONLY <4>2
      <4>. QED BY <2>9, <3>3, <4>1, <4>3
    <3>6. InHand(c, n)' = IF left[w] = 1 THEN {} ELSE {w}
      BY <1>2, <2>8, <2>9, <3>2 DEF InHand
    <3>. QED BY <2>2, <3>4, <3>5, <3>6 DEF Stands
  <2>11. CASE job[w] # Ask(c, n)
    <3>1. RepliesTo(c, n)' = RepliesTo(c, n)
      BY <2>2, <2>3, <2>4, <2>5, <2>11
    <3>2. InHand(c, n)' = InHand(c, n) /\ w \notin InHand(c, n)
      BY <1>2, <2>8, <2>11 DEF InHand, Ask
    <3>3. \A v \in InHand(c, n) : left'[v] = left[v]
      BY <2>8, <3>2 DEF InHand
    <3>. QED BY <2>2, <2>6, <2>7, <3>1, <3>2, <3>3, StandsKept
  <2>. QED BY <2>10, <2>11
<1>8. FiniteInv' /\ StandsInv'
  BY <1>2, <1>7 DEF FiniteInv, StandsInv
<1>. QED BY <1>6, <1>8

\* A reply leaves the worker's queue for that of the client it names.
LEMMA ForwardReplyStands ==
    ASSUME AsyncInv, NEW w \in Workers, ForwardReply(w), UNCHANGED running
    PROVE  AsyncTypeOK' /\ TurnInv' /\ FiniteInv' /\ StandsInv'
<1>. USE DEF AsyncInv
<1>1. PICK r : r = Head(backend[w])
  OBVIOUS
<1>2. /\ backend[w] # << >>
      /\ inbox' = [inbox EXCEPT ![r.to] = Append(@, r)]
      /\ backend' = [backend EXCEPT ![w] = Tail(@)]
      /\ UNCHANGED <<sent, got, frontend, pool, turn, tasks, job, left>>
  BY <1>1 DEF ForwardReply, jobVars
<1>3. backend \in [Workers -> Seq(Reply)] /\ inbox \in [Clients -> Seq(Reply)]
  BY DEF AsyncTypeOK
<1>4. r \in Reply /\ r.to \in Clients
  <2>1. r \in Reply
    BY <1>1, <1>2, <1>3
  <2>. QED BY <2>1, AnsweredIs
<1>5. backend' \in [Workers -> Seq(Reply)] /\ inbox' \in [Clients -> Seq(Reply)]
  BY <1>2, <1>3, <1>4
<1>6. AsyncTypeOK' /\ TurnInv'
  BY <1>2, <1>5 DEF AsyncTypeOK, TurnInv
<1>7. ASSUME NEW c \in Clients, NEW n \in Number
      PROVE  /\ IsFiniteSet(Cells(Workers, EachOf(backend', Answers(c, n))))
             /\ Stands(c, n)'
  <2>1. IsFiniteSet(Cells(Workers, EachOf(backend, Answers(c, n))))
    BY DEF FiniteInv
  <2>2. /\ IsFiniteSet(Cells(Workers, EachOf(backend', Answers(c, n))))
        /\ Total(EachOf(backend, Answers(c, n)))
               = Total(EachOf(backend', Answers(c, n))) + (IF r \in Answers(c, n) THEN 1 ELSE 0)
        /\ Total(EachOf(backend', Answers(c, n))) \in Nat
    <3>1. backend \in Queues /\ backend[w] # << >> /\ r = Head(backend[w])
          /\ backend' \in Queues /\ backend'[w] = Tail(backend[w])
          /\ \A v \in Workers \ {w} : backend'[v] = backend[v]
      BY <1>1, <1>2, <1>3, <1>5 DEF Message, Queues
    <3> HIDE DEF AsyncInv
    <3>. QED BY <2>1, <3>1, TotalDown
  <2>3. r \in Answers(c, n) <=> c = r.to /\ r \in Numbered(n)
    BY <1>4, AnsweredIs
  <2>4. /\ c = r.to => Occurs(inbox'[c], Numbered(n))
                         = Occurs(inbox[c], Numbered(n)) + (IF r \in Numbered(n) THEN 1 ELSE 0)
        /\ c # r.to => inbox'[c] = inbox[c]
    <3>1. Occurs(Append(inbox[c], r), Numbered(n))
             = Occurs(inbox[c], Numbered(n)) + (IF r \in Numbered(n) THEN 1 ELSE 0)
      BY <1>3, <1>4, OccursChanges
    <3>. QED BY <1>2, <1>3, <1>4, <3>1
  <2>5. /\ RepliesTo(c, n) = got[c][n] + Occurs(inbox[c], Numbered(n))
                               + Total(EachOf(backend, Answers(c, n)))
        /\ got[c][n] \in Nat /\ Occurs(inbox[c], Numbered(n)) \in Nat
    BY AsyncCounts
  <2>6. RepliesTo(c, n)' = got[c][n] + Occurs(inbox'[c], Numbered(n))
                             + Total(EachOf(backend', Answers(c, n)))
    BY <1>2 DEF RepliesTo, Numbered, Answers
  <2>7. RepliesTo(c, n)' = RepliesTo(c, n)
    BY <2>2, <2>3, <2>4, <2>5, <2>6
  <2>8. /\ Waiting(c, n)' = Waiting(c, n) /\ ((n > sent[c])' <=> n > sent[c])
        /\ InHand(c, n)' = InHand(c, n) /\ left' = left
    BY <1>2 DEF Waiting, InHand
  <2>9. Stands(c, n)
    BY DEF StandsInv
  <2>. QED BY <2>2, <2>7, <2>8, <2>9, StandsKept
<1>8. FiniteInv' /\ StandsInv'
  BY <1>2, <1>7 DEF FiniteInv, StandsInv
<1>. QED BY <1>6, <1>8

\* A reply that could be read has been.
LEMMA ClientReceiveStands ==
    ASSUME AsyncInv, NEW d \in Clients, ClientReceive(d), UNCHANGED running
    PROVE  AsyncTypeOK' /\ TurnInv' /\ FiniteInv' /\ StandsInv'
<1>. USE DEF AsyncInv
<1>1. PICK r, m : r = Head(inbox[d]) /\ m = r.num
  OBVIOUS
<1>2. /\ inbox[d] # << >>
      /\ got' = [got EXCEPT ![d][m] = @ + 1]
      /\ inbox' = [inbox EXCEPT ![d] = Tail(@)]
      /\ UNCHANGED <<sent, frontend, pool, turn, tasks, backend, job, left>>
  BY <1>1 DEF ClientReceive, proxyVars, jobVars
<1>3. /\ inbox \in [Clients -> Seq(Reply)] /\ got \in [Clients -> [Number -> 0 .. MAX_REPLIES]]
      /\ MAX_REPLIES \in Nat \ {0}
  BY AsyncAssumption DEF AsyncTypeOK
<1>4. r \in Reply /\ m \in Number
  <2>1. r \in Reply
    BY <1>1, <1>2, <1>3
  <2>. QED BY <1>1, <2>1, AnsweredIs
<1>5. inbox' \in [Clients -> Seq(Reply)]
  BY <1>2, <1>3
<1>6. ASSUME NEW c \in Clients, NEW n \in Number
      PROVE  /\ c = d => Occurs(inbox[c], Numbered(n))
                           = Occurs(inbox'[c], Numbered(n)) + (IF n = m THEN 1 ELSE 0)
             /\ c # d => inbox'[c] = inbox[c]
             /\ Occurs(inbox'[c], Numbered(n)) \in Nat
  <2>1. inbox[c] \in Seq(Reply) /\ inbox'[c] \in Seq(Reply)
    BY <1>3, <1>5
  <2>2. /\ inbox[c] # << >> => Occurs(inbox[c], Numbered(n))
              = Occurs(Tail(inbox[c]), Numbered(n)) + (IF Head(inbox[c]) \in Numbered(n) THEN 1 ELSE 0)
        /\ Occurs(inbox'[c], Numbered(n)) \in Nat
    BY <2>1, OccursChanges
  <2>3. r \in Numbered(n) <=> n = m
    BY <1>1, <1>4, AnsweredIs
  <2>. QED BY <1>1, <1>2, <1>3, <2>2, <2>3
<1>7. got[d][m] + 1 \in 0 .. MAX_REPLIES /\ got[d][m] \in Nat
  <2>1. Occurs(inbox[d], Numbered(m)) > 0
    <3>1. /\ Occurs(inbox[d], Numbered(m)) = Occurs(inbox'[d], Numbered(m)) + 1
          /\ Occurs(inbox'[d], Numbered(m)) \in Nat
      BY <1>4, <1>6
    <3>. QED BY <3>1
  <2>2. /\ RepliesTo(d, m) = got[d][m] + Occurs(inbox[d], Numbered(m))
                               + Total(EachOf(backend, Answers(d, m)))
        /\ got[d][m] \in Nat /\ Occurs(inbox[d], Numbered(m)) \in Nat
        /\ Total(EachOf(backend, Answers(d, m))) \in Nat
    BY <1>4, AsyncCounts
  <2>3. RepliesTo(d, m) <= MAX_REPLIES
    BY <1>4, StandsWhere DEF StandsInv
  <2>. QED BY <1>3, <2>1, <2>2, <2>3
<1>8. got' \in [Clients -> [Number -> 0 .. MAX_REPLIES]]
  <2>1. [got[d] EXCEPT ![m] = @ + 1] \in [Number -> 0 .. MAX_REPLIES]
    BY <1>3, <1>4, <1>7
  <2>2. got' = [got EXCEPT ![d] = [got[d] EXCEPT ![m] = @ + 1]]
    BY <1>2
  <2>. QED BY <1>3, <2>1, <2>2
<1>9. AsyncTypeOK' /\ TurnInv'
  BY <1>2, <1>5, <1>8 DEF AsyncTypeOK, TurnInv
<1>10. ASSUME NEW c \in Clients, NEW n \in Number
       PROVE  Stands(c, n)'
  <2>1. got'[c][n] = got[c][n] + (IF c = d /\ n = m THEN 1 ELSE 0)
    <3>1. got[c][n] \in Nat /\ got[c] \in [Number -> 0 .. MAX_REPLIES]
      BY <1>3
    <3>2. got'[c] = IF c = d THEN [got[d] EXCEPT ![m] = @ + 1] ELSE got[c]
      BY <1>2, <1>3
    <3>. QED BY <3>1, <3>2
  <2>2. /\ RepliesTo(c, n) = got[c][n] + Occurs(inbox[c], Numbered(n))
                               + Total(EachOf(backend, Answers(c, n)))
        /\ got[c][n] \in Nat /\ Occurs(inbox[c], Numbered(n)) \in Nat
        /\ Total(EachOf(backend, Answers(c, n))) \in Nat
    BY AsyncCounts
  <2>3. RepliesTo(c, n)' = got'[c][n] + Occurs(inbox'[c], Numbered(n))
                             + Total(EachOf(backend, Answers(c, n)))
    BY <1>2 DEF RepliesTo, Numbered, Answers
  <2>4. RepliesTo(c, n)' = RepliesTo(c, n)
    BY <1>6, <2>1, <2>2, <2>3
  <2>5. /\ Waiting(c, n)' = Waiting(c, n) /\ ((n > sent[c])' <=> n > sent[c])
        /\ InHand(c, n)' = InHand(c, n) /\ left' = left
    BY <1>2 DEF Waiting, InHand
  <2>6. Stands(c, n)
    BY DEF StandsInv
  <2>. QED BY <2>4, <2>5, <2>6, StandsKept
<1>11. FiniteInv' /\ StandsInv'
  BY <1>2, <1>10 DEF FiniteInv, StandsInv
<1>. QED BY <1>9, <1>11

\* The proxy has a worker more, main has returned, or nothing happened: no request
\* moves.
LEMMA OthersStand ==
    ASSUME AsyncInv,
           \/ \E w \in Workers : WorkerConnect(w) /\ UNCHANGED running
           \/ MainReturns \/ UNCHANGED asyncVars
    PROVE  AsyncTypeOK' /\ TurnInv' /\ FiniteInv' /\ StandsInv'
<1>. USE DEF AsyncInv
<1>1. UNCHANGED <<sent, got, inbox, frontend, turn, tasks, backend, job, left>>
  BY DEF WorkerConnect, MainReturns, asyncVars, clientVars, proxyVars, jobVars
<1>2. /\ running' \in BOOLEAN /\ pool' \in Seq(Workers)
      /\ IF pool' = << >> THEN turn = 1 ELSE turn \in 1 .. Len(pool')
  <2>1. CASE MainReturns \/ UNCHANGED asyncVars
    BY <2>1 DEF MainReturns, asyncVars, proxyVars, AsyncTypeOK, TurnInv
  <2>2. CASE \E w \in Workers : WorkerConnect(w) /\ UNCHANGED running
    <3>1. PICK w \in Workers :
             pool' = Append(pool, w) /\ pool \in Seq(Workers) /\ running' \in BOOLEAN
      BY <2>2 DEF WorkerConnect, AsyncTypeOK
    <3>2. pool' \in Seq(Workers) /\ pool' # << >> /\ Len(pool') = Len(pool) + 1 /\ Len(pool) \in Nat
      BY <3>1
    <3>3. turn \in 1 .. Len(pool')
      BY <3>2 DEF TurnInv
    <3>. QED BY <3>1, <3>2, <3>3
  <2>. QED BY <2>1, <2>2
<1>3. AsyncTypeOK' /\ TurnInv'
  BY <1>1, <1>2 DEF AsyncTypeOK, TurnInv
<1>4. FiniteInv'
  BY <1>1 DEF FiniteInv
<1>5. ASSUME NEW c \in Clients, NEW n \in Number
      PROVE  Stands(c, n)'
  BY <1>1 DEF StandsInv, Stands, Waiting, InHand, RepliesTo
<1>. QED BY <1>3, <1>4, <1>5 DEF StandsInv

LEMMA AsyncStart == AsyncInit => AsyncInv
<1> SUFFICES ASSUME AsyncInit PROVE AsyncInv
  OBVIOUS
<1>. USE DEF AsyncInit
<1>1. AsyncTypeOK /\ TurnInv
  <2>1. 0 \in 0 .. MAX_REPLIES /\ 0 \in 0 .. MaxRequests
    BY AsyncAssumption
  <2>. QED BY <2>1 DEF AsyncTypeOK, TurnInv
<1>2. IsFiniteSet(Cells(Clients, sent))
  BY CellsNone
<1>3. ASSUME NEW q \in Queues, NEW T, \A w \in Workers : q[w] = << >>
      PROVE  IsFiniteSet(Cells(Workers, EachOf(q, T))) /\ Total(EachOf(q, T)) = 0
  <2>1. \A w \in Workers : EachOf(q, T)[w] = 0
    <3>1. Occurs(<< >>, T) = 0
      <4>1. << >> \in Seq(Message)
        OBVIOUS
      <4>. QED BY <4>1, OccursChanges
    <3>. QED BY <1>3, <3>1 DEF EachOf
  <2>2. /\ EachOf(q, T) \in [Workers -> Nat]
        /\ Total(EachOf(q, T)) = Cardinality(Cells(Workers, EachOf(q, T)))
    BY <1>3, TotalIs
  <2>3. Cells(Workers, EachOf(q, T)) = {}
    BY <2>1, <2>2, CellsNone
  <2>. QED BY <2>2, <2>3, FS_EmptySet
<1>4. ASSUME NEW c \in Clients, NEW n \in Number
      PROVE  /\ IsFiniteSet(Cells(Workers, EachOf(tasks, {Ask(c, n)})))
             /\ IsFiniteSet(Cells(Workers, EachOf(backend, Answers(c, n))))
             /\ Stands(c, n)
  <2>1. tasks \in Queues /\ backend \in Queues
    BY DEF Queues
  <2>2. /\ IsFiniteSet(Cells(Workers, EachOf(tasks, {Ask(c, n)})))
        /\ IsFiniteSet(Cells(Workers, EachOf(backend, Answers(c, n))))
        /\ Total(EachOf(tasks, {Ask(c, n)})) = 0 /\ Total(EachOf(backend, Answers(c, n))) = 0
    BY <1>3, <2>1
  <2>3. Occurs(frontend[c], {n}) = 0 /\ Occurs(inbox[c], Numbered(n)) = 0
    <3>1. << >> \in Seq(Message) /\ frontend[c] = << >> /\ inbox[c] = << >>
      OBVIOUS
    <3>. QED BY <3>1, OccursChanges
  <2>4. Waiting(c, n) = 0 /\ RepliesTo(c, n) = 0
    BY <2>2, <2>3 DEF Waiting, RepliesTo, Ask, Numbered, Answers
  <2>5. InHand(c, n) = {} /\ n > sent[c]
    BY AsyncAssumption DEF InHand, Number
  <2>. QED BY <2>2, <2>4, <2>5 DEF Stands
<1>. QED BY <1>1, <1>2, <1>4 DEF AsyncInv, FiniteInv, StandsInv

LEMMA AsyncInductive == AsyncSpec => []AsyncInv
<1>1. AsyncInit => AsyncInv
  BY AsyncStart
<1>2. AsyncInv /\ [AsyncNext]_asyncVars => AsyncInv'
  <2> SUFFICES ASSUME AsyncInv, [AsyncNext]_asyncVars
               PROVE  AsyncInv'
    OBVIOUS
  <2>1. CASE \E c \in Clients : Sends(c) \/ Receives(c)
    BY <2>1, ClientSendStands, ClientReceiveStands DEF Sends, Receives, Running, AsyncInv
  <2>2. CASE \E w \in Workers : Worker(w)
    BY <2>2, WorkerReceiveStands, WorkerReplyStands, OthersStand DEF Worker, Running, AsyncInv
  <2>3. CASE Requests \/ Replies
    BY <2>3, ForwardRequestStands, ForwardReplyStands DEF Requests, Replies, Running, AsyncInv
  <2>4. CASE MainReturns
    BY <2>4, OthersStand DEF AsyncInv
  <2>5. CASE UNCHANGED asyncVars
    BY <2>5, OthersStand DEF AsyncInv
  <2>. QED BY <2>1, <2>2, <2>3, <2>4, <2>5 DEF AsyncNext
<1>. QED BY <1>1, <1>2, PTL DEF AsyncSpec

\* Each request is at one place and gets one to MAX_REPLIES replies, whatever the
\* number of clients and workers.
THEOREM EachGetsItsReplies == AsyncSpec => []OneToFiveReplies
<1>1. AsyncInv => OneToFiveReplies
  BY DEF AsyncInv, StandsInv, Stands, OneToFiveReplies
<1>. QED BY <1>1, AsyncInductive, PTL

-----------------------------------------------------------------------------
\* What has the same way, in the order in which it goes: what client c can read of
\* worker w, what the proxy can read, what w answers, what w can read.
AtClient(c, w) == Numbers(inbox[c], By(w))
AtProxy(c, w)  == Numbers(backend[w], To(c))
AtWorker(c, w) == Numbers(tasks[w], Of(c))
UnderWay(c, w) == AtClient(c, w) \cup AtProxy(c, w) \cup Held(c, w) \cup AtWorker(c, w)

InLine(a, b, h, t) == UpTo(a, b \cup h \cup t) /\ UpTo(b, h \cup t) /\ UpTo(h, t)
LineInv ==
    \A c \in Clients : \A w \in Workers :
        /\ Ascending(tasks[w], Of(c)) /\ Ascending(backend[w], To(c))
        /\ Ascending(inbox[c], By(w))
        /\ InLine(AtClient(c, w), AtProxy(c, w), Held(c, w), AtWorker(c, w))

\* A worker's replies are known to be its own; and of what a client asked, what has
\* gone further, to whichever worker, has the lower number.
SignedInv == \A w \in Workers : \A k \in 1 .. Len(backend[w]) : backend[w][k].by = w
BehindInv ==
    \A c \in Clients :
        /\ \A k \in 1 .. Len(frontend[c]) : frontend[c][k] <= sent[c]
        /\ \A j, k \in 1 .. Len(frontend[c]) : j < k => frontend[c][j] <= frontend[c][k]
        /\ \A w \in Workers : \A x \in UnderWay(c, w) :
              x <= sent[c] /\ \A k \in 1 .. Len(frontend[c]) : x <= frontend[c][k]

OrderInv == LineInv /\ SignedInv /\ BehindInv

-----------------------------------------------------------------------------
LEMMA MessageNumber ==
    ASSUME NEW r \in Message
    PROVE  r.num \in Nat
  BY AsyncAssumption DEF Message, Request, Reply, Number

\* The numbers in a queue that loses its first message.
LEMMA NumbersTail ==
    ASSUME NEW s \in Seq(Message), s # << >>, NEW T
    PROVE  /\ Numbers(s, T) \subseteq Nat
           /\ Numbers(Tail(s), T) \subseteq Numbers(s, T)
           /\ Head(s) \in T => Head(s).num \in Numbers(s, T)
           /\ Ascending(s, T) =>
                /\ Ascending(Tail(s), T)
                /\ Head(s) \in T => UpTo({Head(s).num}, Numbers(Tail(s), T))
<1>1. /\ Tail(s) \in Seq(Message)
      /\ Len(Tail(s)) = Len(s) - 1
      /\ Len(s) \in Nat \ {0}
      /\ Head(s) = s[1]
      /\ \A i \in 1 .. Len(s) - 1 : Tail(s)[i] = s[i + 1]
      /\ \A i \in 1 .. Len(s) : s[i] \in Message
  OBVIOUS
<1>2. Numbers(s, T) \subseteq Nat
  BY <1>1, MessageNumber DEF Numbers
<1>3. ASSUME NEW i \in 1 .. Len(Tail(s))
      PROVE  i + 1 \in 1 .. Len(s) /\ Tail(s)[i] = s[i + 1] /\ 1 < i + 1
  BY <1>1
<1>4. Numbers(Tail(s), T) \subseteq Numbers(s, T)
  BY <1>3 DEF Numbers
<1>5. Head(s) \in T => Head(s).num \in Numbers(s, T)
  BY <1>1 DEF Numbers
<1>6. ASSUME Ascending(s, T)
      PROVE  /\ Ascending(Tail(s), T)
             /\ Head(s) \in T => UpTo({Head(s).num}, Numbers(Tail(s), T))
  <2>1. ASSUME NEW i \in 1 .. Len(Tail(s)), NEW j \in 1 .. Len(Tail(s)),
               i < j, Tail(s)[i] \in T, Tail(s)[j] \in T
        PROVE  Tail(s)[i].num <= Tail(s)[j].num
    <3>1. i + 1 < j + 1
      BY <2>1
    <3>. QED BY <1>3, <1>6, <2>1, <3>1 DEF Ascending
  <2>2. ASSUME Head(s) \in T, NEW i \in 1 .. Len(Tail(s)), Tail(s)[i] \in T
        PROVE  Head(s).num <= Tail(s)[i].num
    <3>1. 1 \in 1 .. Len(s) /\ s[1] \in T /\ s[i + 1] \in T /\ i + 1 \in 1 .. Len(s) /\ 1 < i + 1
      BY <1>1, <1>3, <2>2
    <3>2. s[1].num <= s[i + 1].num
      BY <1>6, <3>1 DEF Ascending
    <3>. QED BY <1>1, <1>3, <3>2
  <2>3. Head(s) \in T => UpTo({Head(s).num}, Numbers(Tail(s), T))
    BY <2>2 DEF UpTo, Numbers
  <2>. QED BY <2>1, <2>3 DEF Ascending
<1>. QED BY <1>2, <1>4, <1>5, <1>6

\* The numbers in a queue that one more message joins.
LEMMA NumbersAppend ==
    ASSUME NEW s \in Seq(Message), NEW r \in Message, NEW T
    PROVE  /\ Numbers(s, T) \subseteq Nat
           /\ Numbers(Append(s, r), T) = Numbers(s, T) \cup (IF r \in T THEN {r.num} ELSE {})
           /\ Ascending(s, T) /\ (r \in T => UpTo(Numbers(s, T), {r.num})) =>
                Ascending(Append(s, r), T)
<1>1. /\ Len(Append(s, r)) = Len(s) + 1
      /\ Len(s) \in Nat
      /\ \A i \in 1 .. Len(s) : Append(s, r)[i] = s[i] /\ s[i] \in Message
      /\ Append(s, r)[Len(s) + 1] = r
  OBVIOUS
<1>2. Numbers(s, T) \subseteq Nat
  BY <1>1, MessageNumber DEF Numbers
<1>3. 1 .. Len(Append(s, r)) = (1 .. Len(s)) \cup {Len(s) + 1}
  BY <1>1
<1>4. Numbers(Append(s, r), T) = Numbers(s, T) \cup (IF r \in T THEN {r.num} ELSE {})
  BY <1>1, <1>3 DEF Numbers
<1>5. ASSUME Ascending(s, T), r \in T => UpTo(Numbers(s, T), {r.num}),
             NEW i \in 1 .. Len(Append(s, r)), NEW j \in 1 .. Len(Append(s, r)),
             i < j, Append(s, r)[i] \in T, Append(s, r)[j] \in T
      PROVE  Append(s, r)[i].num <= Append(s, r)[j].num
  <2>1. i \in 1 .. Len(s) /\ Append(s, r)[i] = s[i]
    BY <1>1, <1>5
  <2>2. CASE j \in 1 .. Len(s)
    <3>1. Append(s, r)[j] = s[j]
      BY <1>1, <2>2
    <3>. QED BY <1>5, <2>1, <2>2, <3>1 DEF Ascending
  <2>3. CASE j = Len(s) + 1
    <3>1. s[i].num \in Numbers(s, T)
      BY <1>5, <2>1 DEF Numbers
    <3>. QED BY <1>1, <1>5, <2>1, <2>3, <3>1 DEF UpTo
  <2>. QED BY <1>3, <2>2, <2>3
<1>6. Ascending(s, T) /\ (r \in T => UpTo(Numbers(s, T), {r.num})) => Ascending(Append(s, r), T)
  BY <1>5 DEF Ascending
<1>. QED BY <1>2, <1>4, <1>6

\* The numbers under way are numbers.
LEMMA UnderWayNumbers ==
    ASSUME AsyncInv, NEW c \in Clients, NEW w \in Workers
    PROVE  UnderWay(c, w) \subseteq Nat
<1>1. inbox[c] \in Seq(Message) /\ backend[w] \in Seq(Message) /\ tasks[w] \in Seq(Message)
  BY DEF AsyncInv, AsyncTypeOK, Message
<1>2. ASSUME NEW s \in Seq(Message), NEW T
      PROVE  Numbers(s, T) \subseteq Nat
  <2>1. \A k \in 1 .. Len(s) : s[k] \in Message
    OBVIOUS
  <2>. QED BY <2>1, MessageNumber DEF Numbers
<1>3. Held(c, w) \subseteq Nat
  <2>1. left[w] > 0 => job[w] \in Message
    BY DEF AsyncInv, TurnInv, Message
  <2>. QED BY <2>1, MessageNumber DEF Held
<1>. QED BY <1>1, <1>2, <1>3 DEF UnderWay, AtClient, AtProxy, AtWorker

-----------------------------------------------------------------------------
\* A queue of requests of which the next one has a number that is higher.
LEMMA ClientSendOrder ==
    ASSUME AsyncInv, OrderInv, NEW d \in Clients, ClientSend(d)
    PROVE  OrderInv'
<1>1. /\ frontend' = [frontend EXCEPT ![d] = Append(@, sent[d] + 1)]
      /\ sent' = [sent EXCEPT ![d] = @ + 1]
      /\ UNCHANGED <<inbox, tasks, backend, job, left>>
  BY DEF ClientSend, jobVars
<1>2. frontend \in [Clients -> Seq(Nat)] /\ sent \in [Clients -> Nat]
  BY AsyncAssumption DEF AsyncInv, AsyncTypeOK, Number
<1>3. LineInv' /\ SignedInv'
  BY <1>1 DEF OrderInv, LineInv, SignedInv, InLine, AtClient, AtProxy, AtWorker, Held
<1>4. ASSUME NEW c \in Clients
      PROVE  /\ \A k \in 1 .. Len(frontend'[c]) : frontend'[c][k] <= sent'[c]
             /\ \A j, k \in 1 .. Len(frontend'[c]) : j < k => frontend'[c][j] <= frontend'[c][k]
             /\ \A w \in Workers : \A x \in UnderWay(c, w)' :
                   x <= sent'[c] /\ \A k \in 1 .. Len(frontend'[c]) : x <= frontend'[c][k]
  <2>1. \A w \in Workers : UnderWay(c, w)' = UnderWay(c, w) /\ UnderWay(c, w) \subseteq Nat
    BY <1>1, UnderWayNumbers DEF UnderWay, AtClient, AtProxy, AtWorker, Held
  <2>2. /\ \A k \in 1 .. Len(frontend[c]) : frontend[c][k] <= sent[c]
        /\ \A j, k \in 1 .. Len(frontend[c]) : j < k => frontend[c][j] <= frontend[c][k]
        /\ \A w \in Workers : \A x \in UnderWay(c, w) :
              x <= sent[c] /\ \A k \in 1 .. Len(frontend[c]) : x <= frontend[c][k]
    BY DEF OrderInv, BehindInv
  <2>3. CASE c # d
    BY <1>1, <1>2, <2>1, <2>2, <2>3
  <2>4. CASE c = d
    <3>1. PICK f, n : f = frontend[d] /\ n = sent[d]
      OBVIOUS
    <3>2. frontend'[d] = Append(f, n + 1) /\ sent'[d] = n + 1 /\ f \in Seq(Nat) /\ n \in Nat
      BY <1>1, <1>2, <3>1
    <3>3. /\ Len(Append(f, n + 1)) = Len(f) + 1 /\ Len(f) \in Nat
          /\ Append(f, n + 1)[Len(f) + 1] = n + 1
          /\ \A k \in 1 .. Len(f) : Append(f, n + 1)[k] = f[k] /\ f[k] \in Nat /\ f[k] <= n
      BY <2>2, <2>4, <3>1, <3>2
    <3>4. \A k \in 1 .. Len(frontend'[d]) : k = Len(f) + 1 \/ k \in 1 .. Len(f)
      BY <3>2, <3>3
    <3>5. \A k \in 1 .. Len(frontend'[d]) : frontend'[d][k] <= n + 1
      BY <3>2, <3>3, <3>4
    <3>6. \A j, k \in 1 .. Len(frontend'[d]) : j < k => frontend'[d][j] <= frontend'[d][k]
      <4> SUFFICES ASSUME NEW j \in 1 .. Len(frontend'[d]), NEW k \in 1 .. Len(frontend'[d]), j < k
                   PROVE  frontend'[d][j] <= frontend'[d][k]
        OBVIOUS
      <4>1. j \in 1 .. Len(f)
        BY <3>2, <3>3
      <4>2. frontend'[d][j] = f[j] /\ f[j] <= n
        BY <3>2, <3>3, <4>1
      <4>3. CASE k \in 1 .. Len(f)
        BY <2>2, <2>4, <3>1, <3>2, <3>3, <4>1, <4>2, <4>3
      <4>4. CASE k = Len(f) + 1
        BY <3>2, <3>3, <4>1, <4>2, <4>4
      <4>. QED BY <3>4, <4>3, <4>4
    <3>7. \A w \in Workers : \A x \in UnderWay(d, w) :
             x <= n + 1 /\ \A k \in 1 .. Len(frontend'[d]) : x <= frontend'[d][k]
      <4> SUFFICES ASSUME NEW w \in Workers, NEW x \in UnderWay(d, w)
                   PROVE  x <= n + 1 /\ \A k \in 1 .. Len(frontend'[d]) : x <= frontend'[d][k]
        OBVIOUS
      <4>1. x \in Nat /\ x <= n /\ \A k \in 1 .. Len(f) : x <= f[k]
        BY <2>1, <2>2, <2>4, <3>1
      <4>. QED BY <3>2, <3>3, <3>4, <4>1
    <3>. QED BY <2>1, <2>4, <3>2, <3>5, <3>6, <3>7
  <2>. QED BY <2>3, <2>4
<1>5. BehindInv'
  BY <1>4 DEF BehindInv
<1>. QED BY <1>3, <1>5 DEF OrderInv

\* A step that brings nothing under way, from the frontend or to it.
LEMMA BehindKept ==
    ASSUME BehindInv, UNCHANGED <<frontend, sent>>,
           \A c \in Clients : \A w \in Workers : UnderWay(c, w)' \subseteq UnderWay(c, w)
    PROVE  BehindInv'
  BY DEF BehindInv

\* The oldest request of a client is behind all that it asked of the worker whose
\* turn it is, and before all that waits.
LEMMA ForwardRequestOrder ==
    ASSUME AsyncInv, OrderInv, NEW d \in Clients, ForwardRequest(d)
    PROVE  OrderInv'
<1>1. PICK m, v, r : m = Head(frontend[d]) /\ v = pool[turn] /\ r = Ask(d, m)
  OBVIOUS
<1>2. /\ frontend[d] # << >> /\ pool # << >>
      /\ tasks' = [tasks EXCEPT ![v] = Append(@, r)]
      /\ frontend' = [frontend EXCEPT ![d] = Tail(@)]
      /\ UNCHANGED <<sent, inbox, backend, job, left>>
  BY <1>1 DEF ForwardRequest, Queued, Ask, clientVars, jobVars
<1>3. /\ frontend \in [Clients -> Seq(Number)] /\ tasks \in [Workers -> Seq(Request)]
      /\ pool \in Seq(Workers) /\ turn \in 1 .. Len(pool)
  BY <1>2 DEF AsyncInv, AsyncTypeOK, TurnInv
<1>4. m \in Number /\ v \in Workers /\ r \in Request /\ r.num = m /\ r \in Message
  BY <1>1, <1>2, <1>3 DEF Request, Ask, Message
<1>5. PICK f : f = frontend[d]
  OBVIOUS
<1>6. /\ f \in Seq(Number) /\ f # << >> /\ m = f[1] /\ frontend'[d] = Tail(f)
      /\ Len(f) \in Nat \ {0} /\ Len(Tail(f)) = Len(f) - 1
      /\ \A k \in 1 .. Len(f) - 1 : Tail(f)[k] = f[k + 1]
  BY <1>1, <1>2, <1>3, <1>5
<1>7. /\ \A k \in 1 .. Len(f) : f[k] <= sent[d]
      /\ \A j, k \in 1 .. Len(f) : j < k => f[j] <= f[k]
      /\ \A w \in Workers : \A x \in UnderWay(d, w) :
            x <= sent[d] /\ \A k \in 1 .. Len(f) : x <= f[k]
  BY <1>5 DEF OrderInv, BehindInv
<1>8. m <= sent[d] /\ UpTo(UnderWay(d, v), {m}) /\ \A k \in 1 .. Len(Tail(f)) : m <= Tail(f)[k]
  <2>1. 1 \in 1 .. Len(f)
    BY <1>6
  <2>2. ASSUME NEW k \in 1 .. Len(Tail(f)) PROVE m <= Tail(f)[k]
    <3>1. k + 1 \in 1 .. Len(f) /\ 1 < k + 1 /\ Tail(f)[k] = f[k + 1]
      BY <1>6
    <3>. QED BY <1>6, <1>7, <2>1, <3>1
  <2>. QED BY <1>4, <1>6, <1>7, <2>1, <2>2 DEF UpTo
<1>9. ASSUME NEW c \in Clients, NEW w \in Workers
      PROVE  /\ Ascending(tasks'[w], Of(c))
             /\ AtWorker(c, w)' = AtWorker(c, w) \cup (IF c = d /\ w = v THEN {m} ELSE {})
  <2>1. CASE w # v
    <3>1. tasks'[w] = tasks[w]
      BY <1>2, <1>3, <2>1
    <3>. QED BY <2>1, <3>1 DEF AtWorker, OrderInv, LineInv
  <2>2. CASE w = v
    <3>1. tasks'[v] = Append(tasks[v], r) /\ tasks[v] \in Seq(Message)
      BY <1>2, <1>3, <1>4 DEF Message
    <3>2. r \in Of(c) <=> c = d
      BY <1>1, <1>4 DEF Of, Ask, Request
    <3>3. Ascending(tasks[v], Of(c)) /\ (c = d => UpTo(Numbers(tasks[v], Of(c)), {m}))
      BY <1>4, <1>8 DEF OrderInv, LineInv, UnderWay, AtWorker, UpTo
    <3>4. /\ Numbers(Append(tasks[v], r), Of(c))
                = Numbers(tasks[v], Of(c)) \cup (IF r \in Of(c) THEN {r.num} ELSE {})
          /\ Ascending(tasks[v], Of(c)) /\ (r \in Of(c) => UpTo(Numbers(tasks[v], Of(c)), {r.num}))
                => Ascending(Append(tasks[v], r), Of(c))
      <4>1. tasks[v] \in Seq(Message) /\ r \in Message
        BY <1>4, <3>1
      <4>. QED BY ONLY <4>1, NumbersAppend
    <3>5. Numbers(Append(tasks[v], r), Of(c))
             = Numbers(tasks[v], Of(c)) \cup (IF c = d THEN {m} ELSE {})
      BY <1>4, <3>2, <3>4
    <3>6. Ascending(Append(tasks[v], r), Of(c))
      BY <1>4, <3>2, <3>3, <3>4
    <3>. QED BY <2>2, <3>1, <3>5, <3>6 DEF AtWorker
  <2>. QED BY <2>1, <2>2
<1>10. ASSUME NEW c \in Clients, NEW w \in Workers
       PROVE  /\ AtClient(c, w)' = AtClient(c, w) /\ AtProxy(c, w)' = AtProxy(c, w)
              /\ Held(c, w)' = Held(c, w)
  BY <1>2 DEF AtClient, AtProxy, Held
<1>11. LineInv'
  <2> SUFFICES ASSUME NEW c \in Clients, NEW w \in Workers
               PROVE  /\ Ascending(tasks'[w], Of(c)) /\ Ascending(backend'[w], To(c))
                      /\ Ascending(inbox'[c], By(w))
                      /\ InLine(AtClient(c, w), AtProxy(c, w), Held(c, w), AtWorker(c, w))'
    BY DEF LineInv
  <2>1. /\ Ascending(backend[w], To(c)) /\ Ascending(inbox[c], By(w))
        /\ InLine(AtClient(c, w), AtProxy(c, w), Held(c, w), AtWorker(c, w))
    BY DEF OrderInv, LineInv
  <2>2. c = d /\ w = v => UpTo(AtClient(c, w) \cup AtProxy(c, w) \cup Held(c, w), {m})
    BY <1>8 DEF UnderWay, UpTo
  <2>3. InLine(AtClient(c, w), AtProxy(c, w), Held(c, w), AtWorker(c, w)')
    BY <1>9, <2>1, <2>2 DEF InLine, UpTo
  <2>. QED BY <1>2, <1>9, <1>10, <2>1, <2>3
<1>12. BehindInv'
  <2> SUFFICES ASSUME NEW c \in Clients
               PROVE  /\ \A k \in 1 .. Len(frontend'[c]) : frontend'[c][k] <= sent[c]
                      /\ \A j, k \in 1 .. Len(frontend'[c]) :
                            j < k => frontend'[c][j] <= frontend'[c][k]
                      /\ \A w \in Workers : \A x \in UnderWay(c, w)' :
                            x <= sent[c] /\ \A k \in 1 .. Len(frontend'[c]) : x <= frontend'[c][k]
    BY <1>2 DEF BehindInv
  <2>1. \A w \in Workers :
           UnderWay(c, w)' = UnderWay(c, w) \cup (IF c = d /\ w = v THEN {m} ELSE {})
    BY <1>9, <1>10 DEF UnderWay
  <2>2. CASE c # d
    <3>1. frontend'[c] = frontend[c] /\ \A w \in Workers : UnderWay(c, w)' = UnderWay(c, w)
      BY <1>2, <1>3, <2>1, <2>2
    <3>. QED BY <3>1 DEF OrderInv, BehindInv
  <2>3. CASE c = d
    <3>1. \A k \in 1 .. Len(Tail(f)) : k + 1 \in 1 .. Len(f) /\ Tail(f)[k] = f[k + 1]
      BY <1>6
    <3>2. \A k \in 1 .. Len(Tail(f)) : Tail(f)[k] <= sent[d]
      BY <1>7, <3>1
    <3>3. \A j, k \in 1 .. Len(Tail(f)) : j < k => Tail(f)[j] <= Tail(f)[k]
      <4> TAKE j, k \in 1 .. Len(Tail(f))
      <4>1. j < k => j + 1 < k + 1
        BY <1>6
      <4>. QED BY <1>7, <3>1, <4>1
    <3>4. ASSUME NEW w \in Workers, NEW x \in UnderWay(d, w)'
          PROVE  x <= sent[d] /\ \A k \in 1 .. Len(Tail(f)) : x <= Tail(f)[k]
      <4>1. x \in UnderWay(d, w) \/ x = m
        BY <2>1, <2>3, <3>4
      <4>2. CASE x \in UnderWay(d, w)
        BY <1>7, <3>1, <4>2
      <4>3. CASE x = m
        BY <1>8, <4>3
      <4>. QED BY <4>1, <4>2, <4>3
    <3>. QED BY <1>6, <2>3, <3>2, <3>3, <3>4
  <2>. QED BY <2>2, <2>3
<1>13. SignedInv'
  BY <1>2 DEF OrderInv, SignedInv
<1>. QED BY <1>11, <1>12, <1>13 DEF OrderInv

\* What the worker takes is before all that waits there of the same client.
LEMMA WorkerReceiveOrder ==
    ASSUME AsyncInv, OrderInv, NEW w \in Workers, WorkerReceive(w)
    PROVE  OrderInv'
<1>1. PICK r : r = Head(tasks[w])
  OBVIOUS
<1>2. /\ left[w] = 0 /\ tasks[w] # << >>
      /\ job' = [job EXCEPT ![w] = r]
      /\ tasks' = [tasks EXCEPT ![w] = Tail(@)]
      /\ \E k \in Draws : left' = [left EXCEPT ![w] = k]
      /\ UNCHANGED <<sent, inbox, frontend, backend>>
  BY <1>1 DEF WorkerReceive, clientVars
<1>3. /\ tasks \in [Workers -> Seq(Request)] /\ tasks[w] \in Seq(Message)
      /\ job \in [Workers -> Request \cup {NoJob}] /\ left \in [Workers -> 0 .. MAX_REPLIES]
  BY DEF AsyncInv, AsyncTypeOK, TurnInv, Message
<1>4. /\ tasks'[w] = Tail(tasks[w]) /\ job'[w] = r
      /\ \A u \in Workers \ {w} : tasks'[u] = tasks[u] /\ job'[u] = job[u] /\ left'[u] = left[u]
  BY <1>2, <1>3
<1>5. ASSUME NEW c \in Clients, NEW u \in Workers
      PROVE  /\ Ascending(tasks'[u], Of(c))
             /\ InLine(AtClient(c, u), AtProxy(c, u), Held(c, u), AtWorker(c, u))'
             /\ UnderWay(c, u)' \subseteq UnderWay(c, u)
  <2>1. AtClient(c, u)' = AtClient(c, u) /\ AtProxy(c, u)' = AtProxy(c, u)
    BY <1>2 DEF AtClient, AtProxy
  <2>2. /\ InLine(AtClient(c, u), AtProxy(c, u), Held(c, u), AtWorker(c, u))
        /\ Ascending(tasks[u], Of(c))
    BY DEF OrderInv, LineInv
  <2>3. CASE u # w
    <3>1. Held(c, u)' = Held(c, u) /\ AtWorker(c, u)' = AtWorker(c, u)
      BY <1>4, <2>3 DEF Held, AtWorker
    <3>. QED BY <1>4, <2>1, <2>2, <2>3, <3>1 DEF UnderWay
  <2>4. CASE u = w
    <3>1. /\ Numbers(Tail(tasks[w]), Of(c)) \subseteq Numbers(tasks[w], Of(c))
          /\ r \in Of(c) => r.num \in Numbers(tasks[w], Of(c))
          /\ Ascending(Tail(tasks[w]), Of(c))
          /\ r \in Of(c) => UpTo({r.num}, Numbers(Tail(tasks[w]), Of(c)))
      BY <1>1, <1>2, <1>3, <2>2, <2>4, NumbersTail
    <3>2. Held(c, w) = {}
      BY <1>2 DEF Held
    <3>3. Held(c, w)' \subseteq (IF r \in Of(c) THEN {r.num} ELSE {})
      BY <1>4 DEF Held
    <3>4. AtWorker(c, w)' \subseteq AtWorker(c, w) /\ Held(c, w)' \subseteq AtWorker(c, w)
      BY <1>4, <3>1, <3>3 DEF AtWorker
    <3>5. UpTo(Held(c, w)', AtWorker(c, w)')
      BY <1>4, <3>1, <3>3 DEF AtWorker, UpTo
    <3>6. InLine(AtClient(c, w), AtProxy(c, w), Held(c, w)', AtWorker(c, w)')
      BY <2>2, <2>4, <3>2, <3>4, <3>5 DEF InLine, UpTo
    <3>7. UnderWay(c, w)' \subseteq UnderWay(c, w)
      BY <2>1, <2>4, <3>4 DEF UnderWay
    <3>. QED BY <1>4, <2>1, <2>4, <3>1, <3>6, <3>7
  <2>. QED BY <2>3, <2>4
<1>6. LineInv' /\ SignedInv' /\ BehindInv'
  BY <1>2, <1>5, BehindKept DEF OrderInv, LineInv, SignedInv
<1>. QED BY <1>6 DEF OrderInv

\* A reply is before what the worker has left to do, and behind what it has done.
LEMMA WorkerReplyOrder ==
    ASSUME AsyncInv, OrderInv, NEW w \in Workers, WorkerReply(w)
    PROVE  OrderInv'
<1>1. PICK r : r = [to |-> job[w].from, num |-> job[w].num, by |-> w]
  OBVIOUS
<1>2. /\ left[w] > 0
      /\ backend' = [backend EXCEPT ![w] = Append(@, r)]
      /\ left' = [left EXCEPT ![w] = @ - 1]
      /\ UNCHANGED <<sent, inbox, frontend, tasks, job>>
  BY <1>1 DEF WorkerReply, clientVars
<1>3. /\ backend \in [Workers -> Seq(Reply)] /\ backend[w] \in Seq(Message)
      /\ left \in [Workers -> 0 .. MAX_REPLIES] /\ job[w] \in Request
  BY <1>2 DEF AsyncInv, AsyncTypeOK, TurnInv, Message
<1>4. /\ r \in Reply /\ r \in Message /\ r.by = w /\ r.num = job[w].num /\ r.num \in Nat
      /\ \A c : r \in To(c) <=> job[w] \in Of(c)
  <2>1. r \in Reply /\ r \in Message /\ r.by = w /\ r.num = job[w].num
    BY <1>1, <1>3 DEF Request, Reply, Message
  <2>2. \A c : r \in To(c) <=> job[w] \in Of(c)
    BY <1>1, <1>3 DEF Request, To, Of
  <2>. QED BY <2>1, <2>2, MessageNumber
<1>5. /\ backend'[w] = Append(backend[w], r)
      /\ \A u \in Workers \ {w} : backend'[u] = backend[u] /\ left'[u] = left[u]
      /\ left[w] > 0 /\ left'[w] = left[w] - 1
  BY <1>2, <1>3
<1>6. ASSUME NEW c \in Clients, NEW u \in Workers
      PROVE  /\ Ascending(backend'[u], To(c))
             /\ InLine(AtClient(c, u), AtProxy(c, u), Held(c, u), AtWorker(c, u))'
             /\ UnderWay(c, u)' \subseteq UnderWay(c, u)
  <2>1. AtClient(c, u)' = AtClient(c, u) /\ AtWorker(c, u)' = AtWorker(c, u)
    BY <1>2 DEF AtClient, AtWorker
  <2>2. /\ InLine(AtClient(c, u), AtProxy(c, u), Held(c, u), AtWorker(c, u))
        /\ Ascending(backend[u], To(c))
    BY DEF OrderInv, LineInv
  <2>3. CASE u # w
    <3>1. Held(c, u)' = Held(c, u) /\ AtProxy(c, u)' = AtProxy(c, u)
      BY <1>2, <1>5, <2>3 DEF Held, AtProxy
    <3>. QED BY <1>5, <2>1, <2>2, <2>3, <3>1 DEF UnderWay
  <2>4. CASE u = w
    <3>1. Held(c, w) = (IF job[w] \in Of(c) THEN {r.num} ELSE {}) /\ Held(c, w)' \subseteq Held(c, w)
      BY <1>2, <1>4, <1>5 DEF Held
    <3>2. UpTo(Numbers(backend[w], To(c)), Held(c, w))
      BY <2>2, <2>4 DEF InLine, AtProxy, UpTo
    <3>3. r \in To(c) => UpTo(Numbers(backend[w], To(c)), {r.num})
      BY <1>4, <3>1, <3>2
    <3>4. /\ Numbers(Append(backend[w], r), To(c))
               = Numbers(backend[w], To(c)) \cup (IF r \in To(c) THEN {r.num} ELSE {})
          /\ Ascending(backend[w], To(c)) /\ (r \in To(c) => UpTo(Numbers(backend[w], To(c)), {r.num}))
               => Ascending(Append(backend[w], r), To(c))
      <4>1. backend[w] \in Seq(Message) /\ r \in Message
        BY <1>3, <1>4
      <4>. QED BY <4>1, NumbersAppend
    <3>5. AtProxy(c, w)' = AtProxy(c, w) \cup Held(c, w)
      <4>1. AtProxy(c, w)' = Numbers(Append(backend[w], r), To(c))
        BY <1>5 DEF AtProxy
      <4>2. Held(c, w) = IF r \in To(c) THEN {r.num} ELSE {}
        BY <1>4, <3>1
      <4>. QED BY <3>4, <4>1, <4>2 DEF AtProxy
    <3>6. Ascending(backend'[w], To(c))
      BY <1>5, <2>2, <2>4, <3>3, <3>4
    <3>7. UpTo(Held(c, w), Held(c, w))
      BY <1>4, <3>1 DEF UpTo
    <3>8. InLine(AtClient(c, w), AtProxy(c, w)', Held(c, w)', AtWorker(c, w))
      BY <2>2, <2>4, <3>1, <3>5, <3>7 DEF InLine, UpTo
    <3>9. UnderWay(c, w)' \subseteq UnderWay(c, w)
      BY <2>1, <2>4, <3>1, <3>5 DEF UnderWay
    <3>. QED BY <2>1, <2>4, <3>6, <3>8, <3>9
  <2>. QED BY <2>3, <2>4
<1>7. SignedInv'
  <2> SUFFICES ASSUME NEW u \in Workers, NEW k \in 1 .. Len(backend'[u])
               PROVE  backend'[u][k].by = u
    BY DEF SignedInv
  <2>1. CASE u # w
    BY <1>5, <2>1 DEF OrderInv, SignedInv
  <2>2. CASE u = w
    <3>1. /\ Len(Append(backend[w], r)) = Len(backend[w]) + 1 /\ Len(backend[w]) \in Nat
          /\ Append(backend[w], r)[Len(backend[w]) + 1] = r
          /\ \A j \in 1 .. Len(backend[w]) : Append(backend[w], r)[j] = backend[w][j]
      BY <1>3
    <3>2. k \in 1 .. Len(backend[w]) \/ k = Len(backend[w]) + 1
      BY <1>5, <2>2, <3>1
    <3>. QED BY <1>4, <1>5, <2>2, <3>1, <3>2 DEF OrderInv, SignedInv
  <2>. QED BY <2>1, <2>2
<1>8. LineInv' /\ BehindInv'
  BY <1>2, <1>6, BehindKept DEF OrderInv, LineInv
<1>. QED BY <1>7, <1>8 DEF OrderInv

\* What the proxy forwards is before the rest of the same worker, and behind what the
\* client has of it; of other workers the client gets nothing.
LEMMA ForwardReplyOrder ==
    ASSUME AsyncInv, OrderInv, NEW w \in Workers, ForwardReply(w)
    PROVE  OrderInv'
<1>1. PICK r : r = Head(backend[w])
  OBVIOUS
<1>2. /\ backend[w] # << >>
      /\ inbox' = [inbox EXCEPT ![r.to] = Append(@, r)]
      /\ backend' = [backend EXCEPT ![w] = Tail(@)]
      /\ UNCHANGED <<sent, frontend, tasks, job, left>>
  BY <1>1 DEF ForwardReply, jobVars
<1>3. /\ backend \in [Workers -> Seq(Reply)] /\ backend[w] \in Seq(Message)
      /\ inbox \in [Clients -> Seq(Reply)] /\ \A c \in Clients : inbox[c] \in Seq(Message)
  BY DEF AsyncInv, AsyncTypeOK, Message
<1>4. /\ r \in Reply /\ r \in Message /\ r.to \in Clients /\ r.by = w
      /\ \A c : r \in To(c) <=> c = r.to
      /\ \A u : r \in By(u) <=> u = w
  <2>1. r \in Reply /\ 1 \in 1 .. Len(backend[w]) /\ r = backend[w][1]
    BY <1>1, <1>2, <1>3
  <2>2. r.by = w
    BY <2>1 DEF OrderInv, SignedInv
  <2>3. r.to \in Clients
    BY <2>1, AnsweredIs
  <2>4. \A c : r \in To(c) <=> c = r.to
    BY <2>1 DEF To, Reply
  <2>5. \A u : r \in By(u) <=> u = w
    BY <2>1, <2>2 DEF By, Reply
  <2>. QED BY <2>1, <2>2, <2>3, <2>4, <2>5 DEF Message
<1>5. /\ backend'[w] = Tail(backend[w]) /\ inbox'[r.to] = Append(inbox[r.to], r)
      /\ \A u \in Workers \ {w} : backend'[u] = backend[u]
      /\ \A c \in Clients \ {r.to} : inbox'[c] = inbox[c]
  BY <1>2, <1>3, <1>4
<1>6. ASSUME NEW c \in Clients, NEW u \in Workers
      PROVE  /\ Ascending(backend'[u], To(c)) /\ Ascending(inbox'[c], By(u))
             /\ InLine(AtClient(c, u), AtProxy(c, u), Held(c, u), AtWorker(c, u))'
             /\ UnderWay(c, u)' \subseteq UnderWay(c, u)
  <2>1. Held(c, u)' = Held(c, u) /\ AtWorker(c, u)' = AtWorker(c, u)
    BY <1>2 DEF Held, AtWorker
  <2>2. /\ InLine(AtClient(c, u), AtProxy(c, u), Held(c, u), AtWorker(c, u))
        /\ Ascending(backend[u], To(c)) /\ Ascending(inbox[c], By(u))
    BY DEF OrderInv, LineInv
  <2>3. /\ Ascending(backend'[u], To(c))
        /\ AtProxy(c, u)' \subseteq AtProxy(c, u)
        /\ c = r.to /\ u = w => r.num \in AtProxy(c, u) /\ UpTo({r.num}, AtProxy(c, u)')
    <3>1. CASE u # w
      BY <1>5, <2>2, <3>1 DEF AtProxy
    <3>2. CASE u = w
      <4>1. /\ Numbers(Tail(backend[w]), To(c)) \subseteq Numbers(backend[w], To(c))
            /\ r \in To(c) => r.num \in Numbers(backend[w], To(c))
            /\ Ascending(Tail(backend[w]), To(c))
            /\ r \in To(c) => UpTo({r.num}, Numbers(Tail(backend[w]), To(c)))
        BY <1>1, <1>2, <1>3, <2>2, <3>2, NumbersTail
      <4>. QED BY <1>4, <1>5, <3>2, <4>1 DEF AtProxy
    <3>. QED BY <3>1, <3>2
  <2>4. /\ Ascending(inbox'[c], By(u))
        /\ AtClient(c, u)' = AtClient(c, u) \cup (IF c = r.to /\ u = w THEN {r.num} ELSE {})
    <3>1. CASE c # r.to
      BY <1>5, <2>2, <3>1 DEF AtClient
    <3>2. CASE c = r.to
      <4>1. /\ Numbers(Append(inbox[c], r), By(u))
                 = Numbers(inbox[c], By(u)) \cup (IF r \in By(u) THEN {r.num} ELSE {})
            /\ Ascending(inbox[c], By(u)) /\ (r \in By(u) => UpTo(Numbers(inbox[c], By(u)), {r.num}))
                 => Ascending(Append(inbox[c], r), By(u))
        <5>1. inbox[c] \in Seq(Message) /\ r \in Message
          BY <1>3, <1>4
        <5>. QED BY ONLY <5>1, NumbersAppend
      <4>2. r \in By(u) => UpTo(Numbers(inbox[c], By(u)), {r.num})
        BY <1>4, <2>2, <2>3, <3>2 DEF InLine, UpTo, AtClient
      <4>3. Ascending(inbox'[c], By(u))
        BY <1>5, <2>2, <3>2, <4>1, <4>2
      <4>. QED BY <1>4, <1>5, <3>2, <4>1, <4>3 DEF AtClient
    <3>. QED BY <3>1, <3>2
  <2>5. InLine(AtClient(c, u)', AtProxy(c, u)', Held(c, u), AtWorker(c, u))
    BY <2>2, <2>3, <2>4 DEF InLine, UpTo
  <2>6. UnderWay(c, u)' \subseteq UnderWay(c, u)
    BY <2>1, <2>3, <2>4 DEF UnderWay
  <2>. QED BY <2>1, <2>3, <2>4, <2>5, <2>6
<1>7. SignedInv'
  <2> SUFFICES ASSUME NEW u \in Workers, NEW k \in 1 .. Len(backend'[u])
               PROVE  backend'[u][k].by = u
    BY DEF SignedInv
  <2>1. CASE u # w
    BY <1>5, <2>1 DEF OrderInv, SignedInv
  <2>2. CASE u = w
    <3>1. /\ Len(Tail(backend[w])) = Len(backend[w]) - 1 /\ Len(backend[w]) \in Nat
          /\ \A j \in 1 .. Len(backend[w]) - 1 : Tail(backend[w])[j] = backend[w][j + 1]
      BY <1>2, <1>3
    <3>2. k \in 1 .. Len(backend[w]) - 1 /\ backend'[u][k] = backend[w][k + 1]
      BY <1>5, <2>2, <3>1
    <3>3. k + 1 \in 1 .. Len(backend[w])
      BY <3>1, <3>2
    <3>. QED BY <2>2, <3>2, <3>3 DEF OrderInv, SignedInv
  <2>. QED BY <2>1, <2>2
<1>8. LineInv' /\ BehindInv'
  BY <1>2, <1>6, BehindKept DEF OrderInv, LineInv
<1>. QED BY <1>7, <1>8 DEF OrderInv

\* The rest: a reply is read, or nothing is under way that was not.
LEMMA OthersOrder ==
    ASSUME AsyncInv, OrderInv,
           \/ \E c \in Clients : ClientReceive(c)
           \/ \E w \in Workers : WorkerConnect(w)
           \/ MainReturns \/ UNCHANGED asyncVars
    PROVE  OrderInv'
<1>1. UNCHANGED <<sent, frontend, tasks, backend, job, left>>
  BY DEF ClientReceive, WorkerConnect, MainReturns, asyncVars, clientVars, proxyVars, jobVars
<1>2. inbox \in [Clients -> Seq(Message)]
  BY DEF AsyncInv, AsyncTypeOK, Message
<1>3. \A c \in Clients : inbox'[c] = inbox[c] \/ (inbox[c] # << >> /\ inbox'[c] = Tail(inbox[c]))
  <2>1. CASE \E d \in Clients : ClientReceive(d)
    <3>1. PICK d \in Clients : inbox[d] # << >> /\ inbox' = [inbox EXCEPT ![d] = Tail(@)]
      BY <2>1 DEF ClientReceive
    <3>. QED BY <1>2, <3>1
  <2>2. CASE inbox' = inbox
    BY <2>2
  <2>. QED BY <2>1, <2>2 DEF WorkerConnect, MainReturns, asyncVars, clientVars
<1>4. ASSUME NEW c \in Clients, NEW w \in Workers
      PROVE  /\ Ascending(inbox'[c], By(w)) /\ AtClient(c, w)' \subseteq AtClient(c, w)
             /\ AtProxy(c, w)' = AtProxy(c, w) /\ Held(c, w)' = Held(c, w)
             /\ AtWorker(c, w)' = AtWorker(c, w)
  <2>1. Ascending(inbox[c], By(w))
    BY DEF OrderInv, LineInv
  <2>2. inbox[c] # << >> => /\ Numbers(Tail(inbox[c]), By(w)) \subseteq Numbers(inbox[c], By(w))
                            /\ Ascending(Tail(inbox[c]), By(w))
    BY <1>2, <2>1, NumbersTail
  <2>3. Ascending(inbox'[c], By(w)) /\ AtClient(c, w)' \subseteq AtClient(c, w)
    BY <1>3, <2>1, <2>2 DEF AtClient
  <2>. QED BY <1>1, <2>3 DEF AtProxy, Held, AtWorker
<1>5. LineInv'
  <2> SUFFICES ASSUME NEW c \in Clients, NEW w \in Workers
               PROVE  /\ Ascending(tasks'[w], Of(c)) /\ Ascending(backend'[w], To(c))
                      /\ Ascending(inbox'[c], By(w))
                      /\ InLine(AtClient(c, w), AtProxy(c, w), Held(c, w), AtWorker(c, w))'
    BY DEF LineInv
  <2>1. InLine(AtClient(c, w)', AtProxy(c, w), Held(c, w), AtWorker(c, w))
    BY <1>4 DEF OrderInv, LineInv, InLine, UpTo
  <2>. QED BY <1>1, <1>4, <2>1 DEF OrderInv, LineInv
<1>6. BehindInv'
  BY <1>1, <1>4, BehindKept DEF OrderInv, UnderWay
<1>. QED BY <1>1, <1>5, <1>6 DEF OrderInv, SignedInv

\* What goes from a client through the same worker stays in order, whatever the
\* number of clients and workers.
THEOREM NothingOvertakes == AsyncSpec => []SameWorkerInOrder
<1>1. AsyncInit => OrderInv
  <2> SUFFICES ASSUME AsyncInit PROVE OrderInv
    OBVIOUS
  <2>1. \A c \in Clients, w \in Workers : UnderWay(c, w) = {} /\ Held(c, w) = {}
    BY DEF AsyncInit, UnderWay, AtClient, AtProxy, AtWorker, Held, Numbers
  <2>2. LineInv
    BY <2>1 DEF AsyncInit, LineInv, InLine, UpTo, UnderWay, Ascending
  <2>3. BehindInv
    BY <2>1 DEF AsyncInit, BehindInv
  <2>. QED BY <2>2, <2>3 DEF AsyncInit, OrderInv, SignedInv
<1>2. AsyncInv /\ OrderInv /\ [AsyncNext]_asyncVars => OrderInv'
  <2> SUFFICES ASSUME AsyncInv, OrderInv, [AsyncNext]_asyncVars
               PROVE  OrderInv'
    OBVIOUS
  <2>1. CASE \E c \in Clients : Sends(c) \/ Receives(c)
    BY <2>1, ClientSendOrder, OthersOrder DEF Sends, Receives, Running
  <2>2. CASE \E w \in Workers : Worker(w)
    BY <2>2, WorkerReceiveOrder, WorkerReplyOrder, OthersOrder DEF Worker, Running
  <2>3. CASE Requests \/ Replies
    BY <2>3, ForwardRequestOrder, ForwardReplyOrder DEF Requests, Replies, Running
  <2>4. CASE MainReturns \/ UNCHANGED asyncVars
    BY <2>4, OthersOrder
  <2>. QED BY <2>1, <2>2, <2>3, <2>4 DEF AsyncNext
<1>3. OrderInv => SameWorkerInOrder
  BY DEF OrderInv, LineInv, InLine, AtClient, AtProxy, AtWorker, SameWorkerInOrder
<1>. QED BY <1>1, <1>2, <1>3, AsyncInductive, PTL DEF AsyncSpec
===============================================================================
