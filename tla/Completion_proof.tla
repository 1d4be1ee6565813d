--------------------------- MODULE Completion_proof ---------------------------
(***************************************************************************)
(* Proofs about the two programs that count their way to an end: the       *)
(* chunks of FileTransfer and the replies of LoadBalancer.  They share no  *)
(* state and no constant.                                                  *)
(*                                                                         *)
(* FileTransfer, for a file, a chunk and an int of any size: neither       *)
(* program compares what it counts with what the other one counts, and the *)
(* invariant says how far the two are apart: which sizes have arrived, how *)
(* many chunks came for those that were sent, and that the bytes that came *)
(* and those on the way are what was read of the file.  LoadBalancer, for  *)
(* any number of clients and workers: a request that is not answered is in *)
(* one place, so that the loop, which counts replies, ends when each       *)
(* client has its own; and what a client reads was handled for it.         *)
(***************************************************************************)
EXTENDS FileTransfer, LoadBalancer, SequenceTheorems, SequenceFacts

-----------------------------------------------------------------------------
(* FileTransfer *)

\* The sender has looked at its file; the receiver has both sizes.
Started == spc \notin {"start", "aborted"}
Sized   == rpc \in {"loop", "write", "writerest", "done"}

\* One message is under way, or its acknowledgement, while the sender waits.
WireInv ==
    /\ request # NoBytes => awaiting /\ ~ack /\ Len(request) = 1
    /\ ack => awaiting
    /\ awaiting => ack \/ request # NoBytes

\* How far the two ends are with the sizes.
SizesInv ==
    /\ Started => chunk > 0
    /\ spc \in {"start", "aborted", "size"} =>
          i = 0 /\ pos = 0 /\ ~awaiting /\ rpc \in {"start", "size"}
    /\ spc = "chunk" =>
          /\ i = 0 /\ pos = 0
          /\ IF request # NoBytes THEN rpc \in {"start", "size"} /\ request = <<<<fsize>>>>
                                  ELSE rpc = "chunk"
    /\ spc = "loop" /\ i = 0 =>
          IF request # NoBytes THEN rpc = "chunk" /\ request = <<<<AsInt(chunk)>>>>
                               ELSE Sized \/ rpc = "crashed"
    /\ spc \in {"close", "done"} \/ (spc = "loop" /\ i # 0) => Sized \/ rpc = "crashed"
    /\ rpc \notin {"start", "size"} => fileSize = fsize
    /\ Sized => chunkSize = AsInt(chunk) /\ chunkSize > 0
    /\ ~Sized => n = 0 /\ written = << >>
    /\ rpc = "crashed" => chunk >= UINT

\* What the numbers of rounds are.
RoundsInv ==
    /\ rounds \in IF Started THEN Rounds(fsize, chunk) ELSE {0}
    /\ numChunks \in IF Sized THEN Rounds(fileSize, chunkSize) ELSE {0}

\* Neither end has cut off or misread a number.
Sane == chunk < UINT /\ -1 \notin {rounds, numChunks}

\* The chunks that came.
Got == n + (IF rpc = "write" THEN 1 ELSE 0)
\* The bytes that came.
Came == Len(written) + Held

CountInv == Sane =>
    /\ i <= rounds \/ ~Started
    /\ spc = "loop" => pos = i * chunk
    /\ Sized => /\ Got = i - (IF spc = "loop" /\ request # NoBytes THEN 1 ELSE 0)
                /\ Got <= numChunks
                /\ rpc \in {"writerest", "done"} => n = numChunks
    /\ spc \in {"close", "done"} => i = rounds

BytesInv == Sane =>
    /\ \A k \in 1 .. Len(written) : written[k] = k
    /\ rpc = "write" => \A k \in 1 .. chunkSize : rbuf[k] = Len(written) + k
    /\ rpc = "writerest" => \A k \in 1 .. Rest : rbuf[k] = Len(written) + k
    /\ request = NoBytes \/ ~Sized => Came = pos
    /\ request # NoBytes /\ Sized =>
          /\ Len(request[1]) = IF spc = "loop" THEN chunk ELSE remainder
          /\ Came + Len(request[1]) = pos
          /\ \A k \in 1 .. Len(request[1]) : request[1][k] = Came + k

IInv == TypeOK /\ WireInv /\ SizesInv /\ RoundsInv /\ CountInv /\ BytesInv

-----------------------------------------------------------------------------
-----------------------------------------------------------------------------
(* Arithmetic: products, quotients and remainders, and what follows for the *)
(* number of rounds of a loop.                                              *)

LEMMA TimesMonotone ==
    ASSUME NEW a \in Nat, NEW b \in Nat, NEW c \in Nat, a <= b
    PROVE  a * c \in Nat /\ b * c \in Nat /\ a * c <= b * c
<1> DEFINE d == b - a
<1>1. d \in Nat /\ b = a + d
  OBVIOUS
<1>2. a * c \in Nat /\ b * c \in Nat /\ d * c \in Nat
  BY <1>1
<1> HIDE DEF d
<1>3. (a + d) * c = a * c + d * c
  BY <1>1
<1> QED BY <1>1, <1>2, <1>3

LEMMA DivMod ==
    ASSUME NEW a \in Nat, NEW b \in Nat \ {0}
    PROVE  /\ a \div b \in Nat
           /\ a % b \in 0 .. b - 1
           /\ (a \div b) * b \in Nat
           /\ a = (a \div b) * b + (a % b)
<1>1. a \div b \in Int /\ a % b \in 0 .. b - 1
  OBVIOUS
<1>2. a \div b >= 0
  OBVIOUS
<1>3. a = (a \div b) * b + (a % b)
  OBVIOUS
<1>4. (a \div b) * b \in Nat
  BY <1>1, <1>2
<1> QED BY <1>1, <1>2, <1>3, <1>4

LEMMA ModSmaller ==
    ASSUME NEW a \in Nat, NEW b \in Nat \ {0}
    PROVE  /\ a % b \in 0 .. a
           /\ a < b => a % b = a /\ a \div b = 0
           /\ a % b = 0 => a = 0 \/ a >= b
<1> DEFINE q == a \div b
           p == q * b
           m == a % b
<1>1. q \in Nat /\ m \in 0 .. b - 1 /\ p \in Nat /\ a = p + m
  BY DivMod
<1>2. q = 0 \/ q >= 1
  BY <1>1
<1> HIDE DEF q
<1>3. q >= 1 => p >= b
  <2>1. q >= 1 => 1 * b <= q * b
    BY <1>1, TimesMonotone
  <2> QED BY <2>1
<1>4. q = 0 => p = 0
  OBVIOUS
<1> HIDE DEF p, m
<1>5. m \in 0 .. a /\ (a < b => m = a) /\ (m = 0 => a = 0 \/ a >= b)
  BY <1>1, <1>2, <1>3, <1>4
<1>6. a < b => q = 0
  BY <1>1, <1>2, <1>3
<1> QED BY <1>5, <1>6 DEF q, m

\* A loop that ends goes round as often as the number of chunks, cut to an int, says.
LEMMA RoundsFacts ==
    ASSUME NEW size \in Nat, NEW c \in Nat \ {0}, NEW r \in Rounds(size, c)
    PROVE  /\ r \in -1 .. UINT
           /\ r # -1 => r = (size \div c) % UINT /\ r \in 0 .. (size \div c)
           /\ 2 * (size \div c) < UINT => r # -1
<1> DEFINE q == size \div c
<1>1. q \in Nat
  BY DivMod
<1> HIDE DEF q
<1>2. UINT \in Nat \ {0}
  BY WidthAssumption
<1>3. q % UINT \in 0 .. UINT - 1 /\ q % UINT \in 0 .. q /\ (q < UINT => q % UINT = q)
  BY <1>1, <1>2, DivMod, ModSmaller
<1>4. r \in IF ToInt(q) >= 0 THEN {ToInt(q)} ELSE {ToInt(q) + UINT, -1}
  BY DEF Rounds, q
<1>5. r = q % UINT \/ (r = -1 /\ ~(2 * (q % UINT) < UINT))
  BY <1>2, <1>3, <1>4 DEF ToInt
<1>6. 2 * q < UINT => q < UINT
  BY <1>1, <1>2
<1>7. r \in -1 .. UINT /\ (r # -1 => r = q % UINT /\ r \in 0 .. q)
  BY <1>1, <1>2, <1>3, <1>5
<1>8. 2 * q < UINT => r # -1
  BY <1>1, <1>2, <1>3, <1>5, <1>6
<1> QED BY <1>7, <1>8 DEF q

\* A buffer is a sequence of its length.
LEMMA BufferFacts ==
    ASSUME NEW S, NEW c \in Nat, NEW f \in [1 .. c -> S]
    PROVE  f \in Seq(S) /\ Len(f) = c /\ (f = << >> <=> c = 0)
  BY IsASeq, LenProperties

\* The sender's chunk and what is left when all whole chunks are sent.
LEMMA Sizes ==
    ASSUME TypeOK
    PROVE  /\ fsize \in Nat /\ MaxFile \in Nat /\ UINT \in Nat \ {0}
           /\ chunk \in 0 .. fsize
           /\ AsInt(chunk) \in 0 .. chunk
           /\ chunk < UINT => AsInt(chunk) = chunk
           /\ AsInt(chunk) = 0 => chunk = 0 \/ chunk >= UINT
           /\ chunk > 0 => remainder \in 0 .. chunk - 1
<1>1. fsize \in Nat /\ fsize <= MaxFile /\ MaxFile \in Nat /\ UINT \in Nat \ {0} /\ arg \in Nat
  BY WidthAssumption, BoundAssumption DEF TypeOK, Byte
<1>2. chunk \in 0 .. fsize
  BY <1>1 DEF chunk, Smaller
<1>3. chunk \in Nat
  BY <1>1, <1>2
<1>4. chunk > 0 => remainder \in 0 .. chunk - 1
  BY <1>1, <1>3, DivMod DEF remainder
<1> QED BY <1>1, <1>2, <1>3, <1>4, ModSmaller DEF AsInt

\* If nothing was cut off, the two ends count the same and no more than the file has.
LEMMA Numbers ==
    ASSUME TypeOK, SizesInv, RoundsInv, Sane
    PROVE  /\ Started => /\ rounds \in Nat /\ rounds * chunk \in Nat
                         /\ rounds * chunk + remainder <= fsize
           /\ Sized => /\ Started /\ fileSize = fsize /\ chunkSize = chunk
                       /\ numChunks = rounds /\ Rest = remainder
<1>1. fsize \in Nat /\ chunk \in Nat /\ AsInt(chunk) = chunk /\ (Started => chunk > 0)
  BY Sizes DEF Sane, SizesInv
<1>2. ASSUME Started
      PROVE  /\ rounds \in Nat /\ rounds * chunk \in Nat
             /\ rounds * chunk + remainder <= fsize
             /\ rounds = (fsize \div chunk) % UINT
  <2> DEFINE q == fsize \div chunk
             u == rounds * chunk
             v == q * chunk
  <2>1. chunk \in Nat \ {0}
    BY <1>1, <1>2
  <2>2. q \in Nat /\ v \in Nat /\ remainder \in 0 .. chunk - 1 /\ fsize = v + remainder
    BY <1>1, <2>1, DivMod DEF remainder
  <2>3. rounds \in Rounds(fsize, chunk) /\ rounds # -1
    BY <1>2 DEF RoundsInv, Sane
  <2>4. rounds = q % UINT /\ rounds \in 0 .. q
    BY <1>1, <2>1, <2>3, RoundsFacts
  <2>5. rounds \in Nat /\ rounds <= q
    BY <2>2, <2>4
  <2> HIDE DEF q
  <2>6. u \in Nat /\ u <= v
    BY <2>1, <2>2, <2>5, TimesMonotone
  <2> HIDE DEF u, v
  <2>7. u + remainder <= fsize
    BY <2>1, <2>2, <2>6
  <2> QED BY <2>4, <2>5, <2>6, <2>7 DEF q, u
<1>3. ASSUME Sized
      PROVE  /\ Started /\ fileSize = fsize /\ chunkSize = chunk
             /\ numChunks = rounds /\ Rest = remainder
  <2>1. Started /\ fileSize = fsize /\ chunkSize = chunk
    BY <1>1, <1>3 DEF SizesInv, Sized, Started
  <2>2. chunk \in Nat \ {0}
    BY <1>1, <2>1
  <2>3. numChunks \in Rounds(fsize, chunk) /\ numChunks # -1
    BY <1>3, <2>1 DEF RoundsInv, Sane
  <2>4. numChunks = (fsize \div chunk) % UINT
    BY <1>1, <2>2, <2>3, RoundsFacts
  <2> QED BY <1>2, <2>1, <2>4 DEF Rest, remainder
<1> QED BY <1>2, <1>3

LEMMA InitHolds == Init => IInv
<1> SUFFICES ASSUME Init PROVE IInv
  OBVIOUS
<1>1. TypeOK
  <2>1. << >> \in Seq(Byte) /\ << >> \in Seq(Seq(Byte)) /\ Len(<< >>) = 0
    BY EmptySeq
  <2>2. /\ fsize \in Byte /\ arg \in Nat /\ 0 \in Byte /\ 0 \in -1 .. UINT /\ 0 \in 0 .. fsize
    BY WidthAssumption, BoundAssumption DEF Init, Byte
  <2>3. /\ spc = "start" /\ rounds = 0 /\ i = 0 /\ pos = 0 /\ sbuf = << >> /\ awaiting = FALSE
        /\ request = << >> /\ ack = FALSE
        /\ rpc = "start" /\ fileSize = 0 /\ chunkSize = 0 /\ numChunks = 0 /\ n = 0
        /\ rbuf = << >> /\ written = << >>
    BY DEF Init, NoBytes
  <2>4. /\ fsize \in Byte /\ arg \in Nat
        /\ spc \in {"start", "size", "chunk", "loop", "close", "done", "aborted"}
        /\ rounds \in -1 .. UINT /\ i \in Nat /\ pos \in 0 .. fsize
    BY <2>2, <2>3
  <2>5. sbuf \in Seq(Byte) /\ Len(sbuf) = IF spc \in {"start", "aborted"} THEN 0 ELSE chunk
    BY <2>1, <2>3
  <2>8. awaiting \in BOOLEAN /\ ack \in BOOLEAN /\ request \in Seq(Seq(Byte))
    BY <2>1, <2>3, Zenon
  <2>6. /\ rpc \in {"start", "size", "chunk", "loop", "write", "writerest", "done", "crashed"}
        /\ fileSize \in Byte /\ chunkSize \in Byte
        /\ numChunks \in -1 .. UINT /\ n \in Nat
    BY <2>2, <2>3
  <2>7. rbuf \in Seq(Byte) /\ Len(rbuf) = chunkSize /\ written \in Seq(Byte)
    BY <2>1, <2>3
  <2> QED BY <2>4, <2>5, <2>6, <2>7, <2>8 DEF TypeOK
<1>2. WireInv /\ SizesInv /\ RoundsInv
  BY <1>1 DEF Init, WireInv, SizesInv, RoundsInv, Started, Sized, NoBytes
<1>3. CountInv /\ BytesInv
  BY DEF Init, CountInv, BytesInv, Started, Sized, NoBytes, Came, Held
<1> QED BY <1>1, <1>2, <1>3 DEF IInv

-----------------------------------------------------------------------------
\* What only depends on the file and the argument.
LEMMA SameFile ==
    ASSUME UNCHANGED inputVars
    PROVE  chunk' = chunk /\ remainder' = remainder
  BY DEF inputVars, chunk, remainder, Smaller

LEMMA StutterKeeps == ASSUME IInv, UNCHANGED vars PROVE IInv'
  BY DEF IInv, vars, inputVars, senderVars, wireVars, receiverVars, TypeOK, WireInv, SizesInv, RoundsInv,
     CountInv, BytesInv, Sane, Got, Came, Held, Rest, Started, Sized, chunk, remainder, Smaller, AsInt,
     Rounds, ToInt

-----------------------------------------------------------------------------
(* The sender. *)

LEMMA SenderStartKeeps == ASSUME IInv, SenderStart PROVE IInv'
<1> USE DEF SenderStart, inputVars, wireVars, receiverVars
<1>1. TypeOK /\ WireInv /\ SizesInv /\ RoundsInv /\ CountInv /\ BytesInv
  BY DEF IInv
<1>2. /\ fsize \in Nat /\ chunk \in 0 .. fsize /\ MaxFile \in Nat
      /\ chunk' = chunk /\ remainder' = remainder
  BY <1>1, Sizes, SameFile
<1>3. spc = "start" /\ rpc \in {"start", "size"} /\ i = 0 /\ pos = 0 /\ ~awaiting /\ request = NoBytes
  BY <1>1 DEF SizesInv, WireInv
<1>4. TypeOK'
  <2>1. CASE chunk = 0
    BY <1>1, <1>2, <2>1 DEF TypeOK
  <2>2. CASE chunk > 0
    <3>1. Blank(chunk) \in Seq(Byte) /\ Len(Blank(chunk)) = chunk
      <4>1. Blank(chunk) \in [1 .. chunk -> Byte]
        BY <1>2 DEF Blank, Byte
      <4> QED BY <1>2, <4>1, BufferFacts
    <3>2. rounds' \in -1 .. UINT
      BY <1>2, <2>2, RoundsFacts
    <3> QED BY <1>1, <1>2, <2>2, <3>1, <3>2 DEF TypeOK
  <2> QED BY <1>2, <2>1, <2>2
<1>5. WireInv'
  BY <1>1 DEF WireInv
<1>6. SizesInv'
  BY <1>1, <1>2, <1>3 DEF SizesInv, Started, Sized
<1>7. RoundsInv'
  BY <1>1, <1>2, <1>3 DEF RoundsInv, Started, Sized, Rounds, ToInt
<1>8. CountInv' /\ BytesInv'
  <2>1. ~Sized /\ ~Sized' /\ UNCHANGED <<i, pos, request, rpc, written, rbuf, chunkSize, fileSize>>
    BY <1>3 DEF Sized
  <2>2. written = << >> /\ n = 0
    BY <1>1, <2>1 DEF SizesInv
  <2>3. Sane' => i' <= rounds' \/ ~Started'
    BY <1>1, <1>2, <1>3, RoundsFacts DEF Sane, Started
  <2> QED BY <1>3, <2>1, <2>2, <2>3 DEF CountInv, BytesInv, Sized, Came, Held
<1> QED BY <1>4, <1>5, <1>6, <1>7, <1>8 DEF IInv

\* What Send leaves alone, and what it does to the connection.
LEMMA SendFacts ==
    ASSUME IInv, NEW at, NEW msg \in Seq(Byte), NEW next, Send(at, msg, next)
    PROVE  /\ request = NoBytes /\ ~ack
           /\ request' = <<msg>> /\ request' # NoBytes /\ request' \in Seq(Seq(Byte))
           /\ Len(request') = 1 /\ request'[1] = msg
           /\ awaiting' /\ ~ack'
           /\ WireInv'
<1>1. /\ request = NoBytes /\ ~ack /\ request' = <<msg>> /\ awaiting' = TRUE /\ ack' = ack
  BY DEF IInv, WireInv, Send
<1>2. <<msg>> \in Seq(Seq(Byte)) /\ Len(<<msg>>) = 1 /\ <<msg>>[1] = msg /\ <<msg>> # << >>
  OBVIOUS
<1> QED BY <1>1, <1>2 DEF WireInv, NoBytes

LEMMA SendSizeKeeps == ASSUME IInv, SendSize PROVE IInv'
<1> USE DEF SendSize, Send, inputVars, receiverVars
<1>1. TypeOK /\ WireInv /\ SizesInv /\ RoundsInv /\ CountInv /\ BytesInv
  BY DEF IInv
<1>2. /\ fsize \in Nat /\ chunk \in 0 .. fsize /\ fsize \in Byte
      /\ chunk' = chunk /\ remainder' = remainder
  BY <1>1, Sizes, SameFile DEF TypeOK
<1>3. spc = "size" /\ rpc \in {"start", "size"} /\ i = 0 /\ pos = 0 /\ Started /\ chunk > 0
  BY <1>1 DEF SizesInv, Started
<1>4. /\ request' = <<<<fsize>>>> /\ request' # NoBytes /\ request' \in Seq(Seq(Byte))
      /\ awaiting' /\ WireInv'
  <2>1. <<fsize>> \in Seq(Byte)
    BY <1>2
  <2> QED BY <2>1, SendFacts
<1>5. TypeOK'
  BY <1>1, <1>2, <1>3, <1>4 DEF TypeOK
<1>6. SizesInv'
  BY <1>1, <1>2, <1>3, <1>4 DEF SizesInv, Started, Sized
<1>7. RoundsInv'
  BY <1>1, <1>2, <1>3 DEF RoundsInv, Started, Sized, Rounds, ToInt
<1>8. CountInv' /\ BytesInv'
  BY <1>1, <1>2, <1>3 DEF CountInv, BytesInv, Started, Sized, Sane, SizesInv, Came, Held
<1> QED BY <1>4, <1>5, <1>6, <1>7, <1>8 DEF IInv

LEMMA SendChunkSizeKeeps == ASSUME IInv, SendChunkSize PROVE IInv'
<1> USE DEF SendChunkSize, Send, inputVars, receiverVars
<1>1. TypeOK /\ WireInv /\ SizesInv /\ RoundsInv /\ CountInv /\ BytesInv
  BY DEF IInv
<1>2. /\ fsize \in Nat /\ chunk \in 0 .. fsize /\ AsInt(chunk) \in Byte
      /\ chunk' = chunk /\ remainder' = remainder /\ AsInt(chunk)' = AsInt(chunk)
  BY <1>1, Sizes, SameFile DEF TypeOK, Byte, AsInt
<1>3. /\ spc = "chunk" /\ rpc = "chunk" /\ i = 0 /\ pos = 0 /\ Started /\ chunk > 0
      /\ request = NoBytes
  BY <1>1 DEF SizesInv, WireInv, Started
<1>4. /\ request' = <<<<AsInt(chunk)>>>> /\ request' # NoBytes /\ request' \in Seq(Seq(Byte))
      /\ awaiting' /\ WireInv'
  <2>1. <<AsInt(chunk)>> \in Seq(Byte)
    BY <1>2
  <2> QED BY <2>1, SendFacts
<1>5. TypeOK'
  BY <1>1, <1>2, <1>3, <1>4 DEF TypeOK
<1>6. SizesInv'
  BY <1>1, <1>2, <1>3, <1>4 DEF SizesInv, Started, Sized
<1>7. RoundsInv'
  BY <1>1, <1>2, <1>3 DEF RoundsInv, Started, Sized, Rounds, ToInt
<1>8. CountInv' /\ BytesInv'
  <2>1. ~Sized /\ ~Sized' /\ UNCHANGED <<i, pos, rpc, written, rbuf, chunkSize, fileSize, rounds, numChunks>>
    BY <1>3 DEF Sized
  <2>2. Sane' => Sane
    BY <1>2 DEF Sane
  <2>3. 0 * chunk = 0
    BY <1>2
  <2> QED BY <1>1, <1>2, <1>3, <2>1, <2>2, <2>3 DEF CountInv, BytesInv, Sized, Started, Came, Held
<1> QED BY <1>4, <1>5, <1>6, <1>7, <1>8 DEF IInv

\* Reading len bytes, if there are so many left in the file, puts them in the
\* buffer.
LEMMA ReadFacts ==
    ASSUME TypeOK, Started, NEW len \in 0 .. chunk, Read(len)
    PROVE  /\ sbuf' \in Seq(Byte) /\ Len(sbuf') = chunk
           /\ pos' \in 0 .. fsize
           /\ pos + len <= fsize => /\ pos' = pos + len
                                    /\ \A k \in 1 .. len : sbuf'[k] = pos + k
<1> DEFINE f == [k \in 1 .. chunk |-> IF k <= len /\ pos + k <= fsize THEN pos + k ELSE sbuf[k]]
<1>1. /\ fsize \in Nat /\ fsize <= MaxFile /\ MaxFile \in Nat /\ chunk \in Nat /\ pos \in 0 .. fsize
      /\ sbuf \in Seq(Byte) /\ Len(sbuf) = chunk
  BY Sizes DEF TypeOK, Started, Byte
<1>2. sbuf' = f /\ pos' = Smaller(pos + len, fsize)
  BY DEF Read
<1>3. \A k \in 1 .. chunk : sbuf[k] \in Byte /\ (pos + k <= fsize => pos + k \in Byte)
  BY <1>1, ElementOfSeq DEF Byte
<1>4. f \in [1 .. chunk -> Byte]
  BY <1>3
<1>5. f \in Seq(Byte) /\ Len(f) = chunk
  BY <1>1, <1>4, BufferFacts
<1>6. pos + len <= fsize => \A k \in 1 .. len : f[k] = pos + k
  BY <1>1
<1> HIDE DEF f
<1>7. pos' \in 0 .. fsize /\ (pos + len <= fsize => pos' = pos + len)
  BY <1>1, <1>2 DEF Smaller
<1> QED BY <1>2, <1>5, <1>6, <1>7

LEMMA SendChunkKeeps == ASSUME IInv, SendChunk PROVE IInv'
<1> USE DEF SendChunk, Send, inputVars, receiverVars
<1>1. TypeOK /\ WireInv /\ SizesInv /\ RoundsInv /\ CountInv /\ BytesInv
  BY DEF IInv
<1>2. /\ fsize \in Nat /\ chunk \in 0 .. fsize /\ chunk \in Nat
      /\ chunk' = chunk /\ remainder' = remainder
      /\ Started /\ Started' /\ chunk > 0 /\ UINT \in Nat
      /\ i \in Nat /\ i' = i + 1 /\ i' # 0
      /\ (Sized' <=> Sized) /\ spc = "loop" /\ spc' = "loop"
  BY <1>1, Sizes, SameFile DEF TypeOK, SizesInv, Started, Sized
<1>3. /\ sbuf' \in Seq(Byte) /\ Len(sbuf') = chunk /\ pos' \in 0 .. fsize
      /\ pos + chunk <= fsize => pos' = pos + chunk /\ \A k \in 1 .. chunk : sbuf'[k] = pos + k
  BY <1>1, <1>2, ReadFacts
<1>4. /\ request = NoBytes /\ request' = <<sbuf'>> /\ request' # NoBytes /\ request' \in Seq(Seq(Byte))
      /\ request'[1] = sbuf' /\ awaiting' /\ WireInv'
  BY <1>3, SendFacts
<1>5. TypeOK'
  BY <1>1, <1>2, <1>3, <1>4 DEF TypeOK
<1>6. SizesInv'
  BY <1>1, <1>2, <1>4 DEF SizesInv, Started, Sized, AsInt
<1>7. RoundsInv'
  BY <1>1, <1>2 DEF RoundsInv, Started, Sized, Rounds, ToInt
<1>8. ASSUME Sane'
      PROVE  CountInv' /\ BytesInv'
  <2>1. Sane /\ Sized
    BY <1>1, <1>2, <1>4, <1>8 DEF Sane, SizesInv
  <2>2. /\ rounds \in Nat /\ i < rounds /\ pos = i * chunk /\ numChunks = rounds
        /\ rounds * chunk + remainder <= fsize /\ remainder \in Nat
    <3>1. /\ rounds \in Nat /\ numChunks = rounds
          /\ rounds * chunk + remainder <= fsize
      BY <1>1, <1>2, <2>1, Numbers
    <3>2. i <= rounds /\ pos = i * chunk
      BY <1>1, <1>2, <2>1 DEF CountInv
    <3>3. remainder \in Nat
      BY <1>1, <1>2, Sizes
    <3> QED BY <1>2, <3>1, <3>2, <3>3
  <2>3. (i + 1) * chunk = pos + chunk /\ (i + 1) * chunk <= fsize
    <3> DEFINE u == (i + 1) * chunk
               v == rounds * chunk
    <3>1. i + 1 \in Nat /\ i + 1 <= rounds
      BY <1>2, <2>2
    <3>2. u \in Nat /\ v \in Nat /\ u <= v
      BY <1>2, <2>2, <3>1, TimesMonotone
    <3>3. u = i * chunk + chunk
      BY <1>2
    <3> HIDE DEF u, v
    <3>4. v + remainder <= fsize
      BY <2>2 DEF v
    <3>5. u <= fsize /\ u = pos + chunk
      BY <1>2, <2>2, <3>2, <3>3, <3>4
    <3> QED BY <3>5 DEF u
  <2>4. pos' = pos + chunk /\ pos' = i' * chunk /\ \A k \in 1 .. chunk : sbuf'[k] = pos + k
    BY <1>2, <1>3, <2>3
  <2>5. CountInv'
    BY <1>1, <1>2, <1>4, <2>1, <2>2, <2>4 DEF CountInv, Sized, Started, Got, TypeOK
  <2>6. Came = pos /\ Came' = Came
    BY <1>1, <1>4, <2>1 DEF BytesInv, Came, Held, Rest
  <2>7. BytesInv'
    BY <1>1, <1>2, <1>3, <1>4, <2>1, <2>4, <2>6 DEF BytesInv, Sized, Rest
  <2> QED BY <2>5, <2>7
<1>9. CountInv' /\ BytesInv'
  BY <1>8 DEF CountInv, BytesInv
<1> QED BY <1>4, <1>5, <1>6, <1>7, <1>9 DEF IInv

LEMMA SendRestKeeps == ASSUME IInv, SendRest PROVE IInv'
<1> USE DEF SendRest, Send, inputVars, receiverVars
<1>1. TypeOK /\ WireInv /\ SizesInv /\ RoundsInv /\ CountInv /\ BytesInv
  BY DEF IInv
<1>2. /\ fsize \in Nat /\ chunk \in 0 .. fsize /\ chunk \in Nat
      /\ chunk' = chunk /\ remainder' = remainder
      /\ Started /\ Started' /\ chunk > 0 /\ UINT \in Nat
      /\ remainder \in 1 .. chunk - 1 /\ i \in Nat
      /\ (Sized' <=> Sized) /\ spc = "loop" /\ spc' = "close"
  <2>1. Started
    BY DEF Started
  <2>2. chunk > 0
    BY <1>1, <2>1 DEF SizesInv
  <2>3. remainder \in 0 .. chunk - 1 /\ remainder # 0 /\ chunk \in Nat
    BY <1>1, <2>2, Sizes
  <2>4. remainder \in 1 .. chunk - 1
    BY <2>3
  <2> QED BY <1>1, <2>1, <2>2, <2>4, Sizes, SameFile DEF TypeOK, Started, Sized
<1>3. /\ sbuf' \in Seq(Byte) /\ Len(sbuf') = chunk /\ pos' \in 0 .. fsize
      /\ pos + remainder <= fsize => pos' = pos + remainder /\ \A k \in 1 .. remainder : sbuf'[k] = pos + k
  <2>1. remainder \in 0 .. chunk
    BY <1>2
  <2> QED BY <1>1, <1>2, <2>1, ReadFacts
<1> DEFINE m == SubSeq(sbuf', 1, remainder)
<1>4. m \in Seq(Byte) /\ Len(m) = remainder /\ \A k \in 1 .. remainder : m[k] = sbuf'[k]
  BY <1>2, <1>3, SubSeqProperties
<1>5. /\ request = NoBytes /\ request' = <<m>> /\ request' # NoBytes /\ request' \in Seq(Seq(Byte))
      /\ request'[1] = m /\ awaiting' /\ WireInv'
  BY <1>4, SendFacts
<1> HIDE DEF m
<1>6. TypeOK'
  BY <1>1, <1>2, <1>3, <1>5 DEF TypeOK
<1>7. SizesInv'
  BY <1>1, <1>2, <1>5 DEF SizesInv, Started, Sized, AsInt
<1>8. RoundsInv'
  BY <1>1, <1>2 DEF RoundsInv, Started, Sized, Rounds, ToInt
<1>9. ASSUME Sane'
      PROVE  CountInv' /\ BytesInv'
  <2>1. Sane /\ Sized
    BY <1>1, <1>2, <1>5, <1>9 DEF Sane, SizesInv
  <2>2. pos = rounds * chunk /\ pos + remainder <= fsize
    <3>1. rounds * chunk + remainder <= fsize
      BY <1>1, <1>2, <2>1, Numbers
    <3>2. pos = i * chunk /\ i = rounds
      BY <1>1, <1>2, <2>1 DEF CountInv
    <3> QED BY <3>1, <3>2
  <2>3. pos' = pos + remainder /\ \A k \in 1 .. remainder : m[k] = pos + k
    BY <1>3, <1>4, <2>2
  <2>4. CountInv'
    BY <1>1, <1>2, <1>5, <2>1 DEF CountInv, Sized, Started, Got, TypeOK
  <2>5. Came = pos /\ Came' = Came
    BY <1>1, <1>5, <2>1 DEF BytesInv, Came, Held, Rest
  <2>6. BytesInv'
    BY <1>1, <1>2, <1>4, <1>5, <2>1, <2>3, <2>5 DEF BytesInv, Sized, Rest
  <2> QED BY <2>4, <2>6
<1>10. CountInv' /\ BytesInv'
  BY <1>9 DEF CountInv, BytesInv
<1> QED BY <1>5, <1>6, <1>7, <1>8, <1>10 DEF IInv

LEMMA GetAckKeeps == ASSUME IInv, GetAck PROVE IInv'
<1> USE DEF GetAck, inputVars, receiverVars
<1>1. TypeOK /\ WireInv /\ SizesInv /\ RoundsInv /\ CountInv /\ BytesInv
  BY DEF IInv
<1>2. chunk' = chunk /\ remainder' = remainder
  BY SameFile
<1>3. request = NoBytes /\ request' = request /\ spc \notin {"start", "aborted", "size"}
  BY <1>1 DEF WireInv, SizesInv
<1>4. TypeOK'
  BY <1>1, <1>2 DEF TypeOK
<1>5. WireInv'
  BY <1>1, <1>3 DEF WireInv
<1>6. SizesInv'
  BY <1>1, <1>2, <1>3 DEF SizesInv, Started, Sized, AsInt
<1>7. RoundsInv'
  BY <1>1, <1>2 DEF RoundsInv, Started, Sized, Rounds, ToInt
<1>8. CountInv' /\ BytesInv'
  BY <1>1, <1>2, <1>3 DEF CountInv, BytesInv, Started, Sized, Sane, Got, Came, Held, Rest
<1> QED BY <1>4, <1>5, <1>6, <1>7, <1>8 DEF IInv

LEMMA SenderCloseKeeps == ASSUME IInv, SenderClose PROVE IInv'
<1> USE DEF SenderClose, inputVars, wireVars, receiverVars
<1>1. TypeOK /\ WireInv /\ SizesInv /\ RoundsInv /\ CountInv /\ BytesInv
  BY DEF IInv
<1>2. chunk' = chunk /\ remainder' = remainder
  BY SameFile
<1>3. request = NoBytes /\ spc \in {"close", "loop"} /\ spc' = "done" /\ (spc = "loop" => i = rounds)
  BY <1>1 DEF WireInv
<1>4. TypeOK'
  BY <1>1, <1>2, <1>3 DEF TypeOK
<1>5. WireInv'
  BY <1>1 DEF WireInv
<1>6. SizesInv'
  BY <1>1, <1>2, <1>3 DEF SizesInv, Started, Sized, AsInt
<1>7. RoundsInv'
  BY <1>1, <1>2, <1>3 DEF RoundsInv, Started, Sized, Rounds, ToInt
<1>8. CountInv' /\ BytesInv'
  BY <1>1, <1>2, <1>3 DEF CountInv, BytesInv, Started, Sized, Sane, Got, Came, Held, Rest, TypeOK
<1> QED BY <1>4, <1>5, <1>6, <1>7, <1>8 DEF IInv

-----------------------------------------------------------------------------
(* The receiver. *)

LEMMA ReceiverStartKeeps == ASSUME IInv, ReceiverStart PROVE IInv'
<1> USE DEF ReceiverStart, inputVars, wireVars, senderVars
<1>1. TypeOK /\ WireInv /\ SizesInv /\ RoundsInv /\ CountInv /\ BytesInv
  BY DEF IInv
<1>2. chunk' = chunk /\ remainder' = remainder
  BY SameFile
<1>3. TypeOK'
  BY <1>1, <1>2 DEF TypeOK
<1>4. WireInv'
  BY <1>1 DEF WireInv
<1>5. SizesInv'
  BY <1>1, <1>2 DEF SizesInv, Started, Sized, AsInt
<1>6. RoundsInv'
  BY <1>1, <1>2 DEF RoundsInv, Started, Sized, Rounds, ToInt
<1>7. CountInv' /\ BytesInv'
  BY <1>1, <1>2 DEF CountInv, BytesInv, Started, Sized, Sane, Got, Came, Held, Rest
<1> QED BY <1>3, <1>4, <1>5, <1>6, <1>7 DEF IInv

LEMMA ReceiverCloseKeeps == ASSUME IInv, ReceiverClose PROVE IInv'
<1> USE DEF ReceiverClose, inputVars, wireVars, senderVars
<1>1. TypeOK /\ WireInv /\ SizesInv /\ RoundsInv /\ CountInv /\ BytesInv
  BY DEF IInv
<1>2. chunk' = chunk /\ remainder' = remainder
  BY SameFile
<1>3. TypeOK'
  BY <1>1, <1>2 DEF TypeOK
<1>4. WireInv'
  BY <1>1 DEF WireInv
<1>5. SizesInv'
  BY <1>1, <1>2 DEF SizesInv, Started, Sized, AsInt
<1>6. RoundsInv'
  BY <1>1, <1>2 DEF RoundsInv, Started, Sized, Rounds, ToInt
<1>7. CountInv' /\ BytesInv'
  BY <1>1, <1>2 DEF CountInv, BytesInv, Started, Sized, Sane, Got, Came, Held, Rest
<1> QED BY <1>3, <1>4, <1>5, <1>6, <1>7 DEF IInv

\* What a message that is received leaves on the connection.
LEMMA ReceiveFacts ==
    ASSUME IInv, NEW at, NEW next, Receive(at, next)
    PROVE  /\ awaiting /\ request # NoBytes /\ Len(request) = 1 /\ Message \in Seq(Byte)
           /\ request' = NoBytes /\ request' \in Seq(Seq(Byte)) /\ ack'
           /\ spc \in {"chunk", "loop", "close", "done"}
           /\ WireInv'
<1>1. TypeOK /\ WireInv /\ SizesInv /\ request # NoBytes /\ request' = NoBytes /\ ack' = TRUE /\ awaiting' = awaiting
  BY DEF IInv, Receive, senderVars
<1>2. request \in Seq(Seq(Byte)) /\ Len(request) = 1
  BY <1>1 DEF TypeOK, WireInv
<1>3. request[1] \in Seq(Byte)
  BY <1>2, ElementOfSeq
<1>4. << >> \in Seq(Seq(Byte))
  BY EmptySeq
<1>5. awaiting /\ WireInv'
  BY <1>1 DEF WireInv
<1>6. spc \in {"chunk", "loop", "close", "done"}
  BY <1>1, <1>5 DEF SizesInv, TypeOK
<1> QED BY <1>1, <1>2, <1>3, <1>4, <1>5, <1>6 DEF Message, NoBytes

LEMMA ReceiveSizeKeeps == ASSUME IInv, ReceiveSize PROVE IInv'
<1> USE DEF ReceiveSize, Receive, inputVars, senderVars
<1>1. TypeOK /\ WireInv /\ SizesInv /\ RoundsInv /\ CountInv /\ BytesInv
  BY DEF IInv
<1>2. chunk' = chunk /\ remainder' = remainder
  BY SameFile
<1>3. /\ awaiting /\ request # NoBytes /\ request' = NoBytes /\ request' \in Seq(Seq(Byte)) /\ ack'
      /\ WireInv' /\ spc \in {"chunk", "loop", "close", "done"}
  BY ReceiveFacts
<1>4. rpc = "size" /\ rpc' = "chunk" /\ ~Sized /\ ~Sized'
  BY DEF Sized
<1>5. spc = "chunk" /\ request = <<<<fsize>>>>
  BY <1>1, <1>3, <1>4 DEF SizesInv
<1>6. fileSize' = fsize
  BY <1>5 DEF Message
<1>7. TypeOK'
  BY <1>1, <1>2, <1>3, <1>4, <1>6 DEF TypeOK
<1>8. SizesInv'
  BY <1>1, <1>2, <1>3, <1>4, <1>5, <1>6 DEF SizesInv, Started, Sized
<1>9. RoundsInv'
  BY <1>1, <1>2, <1>4 DEF RoundsInv, Started, Rounds, ToInt
<1>10. CountInv' /\ BytesInv'
  BY <1>1, <1>2, <1>4, <1>5 DEF CountInv, BytesInv, Started, Sane, Came, Held
<1> QED BY <1>3, <1>7, <1>8, <1>9, <1>10 DEF IInv

LEMMA ReceiveChunkSizeKeeps == ASSUME IInv, ReceiveChunkSize PROVE IInv'
<1> USE DEF inputVars, senderVars
<1>1. TypeOK /\ WireInv /\ SizesInv /\ RoundsInv /\ CountInv /\ BytesInv
  BY DEF IInv
<1>2. \E next : Receive("chunk", next)
  BY DEF ReceiveChunkSize
<1>3. /\ awaiting /\ request # NoBytes /\ request' = NoBytes /\ request' \in Seq(Seq(Byte)) /\ ack'
      /\ WireInv' /\ spc \in {"chunk", "loop", "close", "done"}
  BY <1>2, ReceiveFacts
<1>4. /\ rpc = "chunk" /\ ~Sized /\ UNCHANGED <<inputVars, senderVars, written>>
  BY <1>2 DEF Receive, Sized
<1>5. chunk' = chunk /\ remainder' = remainder
  BY <1>4, SameFile
<1>6. /\ spc = "loop" /\ i = 0 /\ request = <<<<AsInt(chunk)>>>> /\ fileSize = fsize
      /\ n = 0 /\ written = << >> /\ Started /\ chunk > 0
  BY <1>1, <1>3, <1>4 DEF SizesInv, Started
<1>7. /\ Message[1] = AsInt(chunk) /\ AsInt(chunk)' = AsInt(chunk)
      /\ AsInt(chunk) \in 0 .. chunk /\ chunk \in 0 .. fsize /\ fsize \in Nat
      /\ AsInt(chunk) = 0 => chunk >= UINT
      /\ chunk < UINT => AsInt(chunk) = chunk
      /\ fileSize' = fileSize /\ n' = n /\ UINT \in Nat
  BY <1>1, <1>5, <1>6, Sizes DEF Message, ReceiveChunkSize, AsInt
<1>8. CASE rpc' = "crashed"
  <2>1. AsInt(chunk) = 0 /\ UNCHANGED <<chunkSize, numChunks, rbuf>> /\ ~Sized'
    BY <1>7, <1>8 DEF ReceiveChunkSize, Receive, Sized
  <2>2. TypeOK'
    BY <1>1, <1>3, <1>4, <1>5, <1>7, <1>8, <2>1 DEF TypeOK
  <2>3. SizesInv'
    BY <1>1, <1>3, <1>4, <1>5, <1>6, <1>7, <1>8, <2>1 DEF SizesInv, Started, Sized
  <2>4. RoundsInv'
    BY <1>1, <1>4, <1>5, <1>6, <2>1 DEF RoundsInv, Started, Rounds, ToInt
  <2>5. ~Sane'
    BY <1>5, <1>7, <2>1 DEF Sane
  <2> QED BY <1>3, <2>2, <2>3, <2>4, <2>5 DEF IInv, CountInv, BytesInv
<1>9. CASE rpc' = "loop"
  <2>1. /\ AsInt(chunk) > 0 /\ chunkSize' = AsInt(chunk)
        /\ numChunks' \in Rounds(fsize, AsInt(chunk)) /\ rbuf' = Blank(AsInt(chunk)) /\ Sized'
    BY <1>6, <1>7, <1>9 DEF ReceiveChunkSize, Receive, Sized
  <2>2. rbuf' \in Seq(Byte) /\ Len(rbuf') = chunkSize'
    <3>1. MaxFile \in Nat
      BY BoundAssumption
    <3>2. Blank(AsInt(chunk)) \in [1 .. AsInt(chunk) -> Byte]
      BY <3>1 DEF Blank, Byte
    <3>3. AsInt(chunk) \in Nat
      BY <1>7
    <3> QED BY <2>1, <3>2, <3>3, BufferFacts
  <2>3. chunkSize' \in Byte
    BY <1>1, <1>7, <2>1, BoundAssumption DEF TypeOK, Byte
  <2>4. AsInt(chunk) \in Nat \ {0}
    BY <1>7, <2>1
  <2>5. numChunks' \in -1 .. UINT
    BY <1>7, <2>1, <2>4, RoundsFacts
  <2>6. TypeOK'
    BY <1>1, <1>3, <1>4, <1>5, <1>7, <1>9, <2>2, <2>3, <2>5 DEF TypeOK
  <2>7. SizesInv'
    BY <1>1, <1>3, <1>4, <1>5, <1>6, <1>7, <1>9, <2>1, <2>4 DEF SizesInv, Started, Sized
  <2>8. RoundsInv'
    BY <1>1, <1>4, <1>5, <1>6, <1>7, <2>1 DEF RoundsInv, Started, Rounds, ToInt
  <2>9. ASSUME Sane' PROVE Sane /\ numChunks' \in Nat
    <3>1. numChunks = 0
      BY <1>1, <1>4 DEF RoundsInv
    <3>2. numChunks' \in Nat
      BY <1>7, <2>5, <2>9 DEF Sane
    <3> QED BY <1>4, <1>5, <2>9, <3>1, <3>2 DEF Sane
  <2>10. CountInv'
    BY <1>1, <1>3, <1>4, <1>5, <1>6, <1>7, <1>9, <2>9 DEF CountInv, Started, Got, TypeOK
  <2>11. BytesInv'
    BY <1>1, <1>3, <1>4, <1>5, <1>6, <1>7, <1>9, <2>9 DEF BytesInv, Came, Held
  <2> QED BY <1>3, <2>6, <2>7, <2>8, <2>10, <2>11 DEF IInv
<1> QED BY <1>8, <1>9 DEF ReceiveChunkSize, Receive

\* A message as long as what is asked for fills that much of the buffer.
LEMMA StoredFacts ==
    ASSUME TypeOK, NEW m \in Seq(Byte), NEW len \in 0 .. chunkSize
    PROVE  /\ Stored(m, len) \in Seq(Byte) /\ Len(Stored(m, len)) = chunkSize
           /\ len = Len(m) => \A k \in 1 .. len : Stored(m, len)[k] = m[k]
<1> DEFINE f == [k \in 1 .. chunkSize |-> IF k <= Smaller(len, Len(m)) THEN m[k] ELSE rbuf[k]]
<1>1. chunkSize \in Nat /\ rbuf \in Seq(Byte) /\ Len(rbuf) = chunkSize /\ Len(m) \in Nat
  BY BoundAssumption DEF TypeOK, Byte
<1>2. Stored(m, len) = f
  BY DEF Stored
<1>3. \A k \in 1 .. chunkSize : rbuf[k] \in Byte /\ (k <= Smaller(len, Len(m)) => m[k] \in Byte)
  BY <1>1 DEF Smaller
<1>4. f \in [1 .. chunkSize -> Byte]
  BY <1>3
<1>5. f \in Seq(Byte) /\ Len(f) = chunkSize
  BY <1>1, <1>4, BufferFacts
<1>6. len = Len(m) => \A k \in 1 .. len : f[k] = m[k]
  BY <1>1 DEF Smaller
<1> QED BY <1>2, <1>5, <1>6

LEMMA ReceiveChunkKeeps == ASSUME IInv, ReceiveChunk PROVE IInv'
<1> USE DEF ReceiveChunk, Receive, inputVars, senderVars
<1>1. TypeOK /\ WireInv /\ SizesInv /\ RoundsInv /\ CountInv /\ BytesInv
  BY DEF IInv
<1>2. chunk' = chunk /\ remainder' = remainder
  BY SameFile
<1>3. /\ awaiting /\ request # NoBytes /\ request' = NoBytes /\ request' \in Seq(Seq(Byte)) /\ ack'
      /\ WireInv' /\ spc \in {"chunk", "loop", "close", "done"} /\ Message \in Seq(Byte)
  BY ReceiveFacts
<1>4. rpc = "loop" /\ rpc' = "write" /\ Sized /\ Sized' /\ rbuf' = Stored(Message, chunkSize)
  BY DEF Sized
<1>5. /\ chunkSize \in Nat /\ rbuf' \in Seq(Byte) /\ Len(rbuf') = chunkSize
      /\ chunkSize = Len(Message) => \A k \in 1 .. chunkSize : rbuf'[k] = Message[k]
  <2>1. chunkSize \in Nat /\ chunkSize \in 0 .. chunkSize
    BY <1>1, BoundAssumption DEF TypeOK, Byte
  <2> QED BY <1>1, <1>3, <1>4, <2>1, StoredFacts
<1>6. TypeOK'
  BY <1>1, <1>2, <1>3, <1>4, <1>5 DEF TypeOK
<1>7. SizesInv'
  BY <1>1, <1>2, <1>3, <1>4 DEF SizesInv, Started, Sized, AsInt
<1>8. RoundsInv'
  BY <1>1, <1>2, <1>4 DEF RoundsInv, Started, Rounds, ToInt
<1>9. ASSUME Sane'
      PROVE  CountInv' /\ BytesInv'
  <2>1. Sane
    BY <1>2, <1>9 DEF Sane
  <2>2. Started /\ chunkSize = chunk /\ numChunks = rounds /\ rounds \in Nat /\ n \in Nat /\ i \in Nat
    BY <1>1, <1>4, <2>1, Numbers DEF TypeOK
  <2>3. spc = "loop" /\ n = i - 1 /\ n + 1 <= numChunks
    <3>1. /\ n = i - (IF spc = "loop" /\ request # NoBytes THEN 1 ELSE 0)
          /\ n <= numChunks /\ (spc \in {"close", "done"} => i = rounds)
      BY <1>1, <1>4, <2>1, <2>2 DEF CountInv, Got
    <3>2. spc # "chunk"
      BY <1>1, <1>3, <1>4 DEF SizesInv
    <3>3. n # numChunks
      OBVIOUS
    <3>4. spc = "loop"
      BY <1>3, <2>2, <3>1, <3>2, <3>3
    <3> QED BY <1>3, <2>2, <3>1, <3>3, <3>4
  <2>4. CountInv'
    BY <1>1, <1>2, <1>3, <1>4, <2>1, <2>2, <2>3 DEF CountInv, Started, Got
  <2>5. /\ Len(Message) = chunk /\ Came + chunk = pos
        /\ \A k \in 1 .. chunk : Message[k] = Came + k
    BY <1>1, <1>3, <1>4, <2>1, <2>3 DEF BytesInv, Message
  <2>6. Len(written) \in Nat /\ Came = Len(written) /\ Came' = Len(written) + chunk
    BY <1>1, <1>4, <2>2 DEF Came, Held, TypeOK
  <2>7. BytesInv'
    BY <1>1, <1>3, <1>4, <1>5, <2>1, <2>2, <2>5, <2>6 DEF BytesInv
  <2> QED BY <2>4, <2>7
<1>10. CountInv' /\ BytesInv'
  BY <1>9 DEF CountInv, BytesInv
<1> QED BY <1>3, <1>6, <1>7, <1>8, <1>10 DEF IInv

LEMMA ReceiveRestKeeps == ASSUME IInv, ReceiveRest PROVE IInv'
<1> USE DEF ReceiveRest, Receive, inputVars, senderVars
<1>1. TypeOK /\ WireInv /\ SizesInv /\ RoundsInv /\ CountInv /\ BytesInv
  BY DEF IInv
<1>2. chunk' = chunk /\ remainder' = remainder
  BY SameFile
<1>3. /\ awaiting /\ request # NoBytes /\ request' = NoBytes /\ request' \in Seq(Seq(Byte)) /\ ack'
      /\ WireInv' /\ spc \in {"chunk", "loop", "close", "done"} /\ Message \in Seq(Byte)
  BY ReceiveFacts
<1>4. rpc = "loop" /\ rpc' = "writerest" /\ Sized /\ Sized' /\ rbuf' = Stored(Message, Rest)
  BY DEF Sized
<1>5. /\ chunkSize \in Nat \ {0} /\ Rest \in 0 .. chunkSize - 1 /\ Rest' = Rest
      /\ rbuf' \in Seq(Byte) /\ Len(rbuf') = chunkSize
      /\ Rest = Len(Message) => \A k \in 1 .. Rest : rbuf'[k] = Message[k]
  <2>1. chunkSize \in Nat \ {0} /\ fileSize \in Nat
    BY <1>1, <1>4, BoundAssumption DEF TypeOK, Byte, SizesInv
  <2>2. Rest \in 0 .. chunkSize - 1
    BY <2>1, DivMod DEF Rest
  <2>3. Rest \in 0 .. chunkSize
    BY <2>1, <2>2
  <2>4. Rest' = Rest
    BY DEF Rest
  <2> QED BY <1>1, <1>3, <1>4, <2>1, <2>2, <2>3, <2>4, StoredFacts
<1>6. TypeOK'
  BY <1>1, <1>2, <1>3, <1>4, <1>5 DEF TypeOK
<1>7. SizesInv'
  BY <1>1, <1>2, <1>3, <1>4 DEF SizesInv, Started, Sized, AsInt
<1>8. RoundsInv'
  BY <1>1, <1>2, <1>4 DEF RoundsInv, Started, Rounds, ToInt
<1>9. ASSUME Sane'
      PROVE  CountInv' /\ BytesInv'
  <2>1. Sane
    BY <1>2, <1>9 DEF Sane
  <2>2. Started /\ numChunks = rounds /\ rounds \in Nat /\ n \in Nat /\ i \in Nat /\ Rest = remainder
    BY <1>1, <1>4, <2>1, Numbers DEF TypeOK
  <2>3. spc # "loop" /\ n = i
    <3>1. /\ n = i - (IF spc = "loop" /\ request # NoBytes THEN 1 ELSE 0)
          /\ i <= rounds /\ n = numChunks
      BY <1>1, <1>4, <2>1, <2>2 DEF CountInv, Got
    <3>2. spc # "loop"
      BY <1>3, <2>2, <3>1
    <3> QED BY <2>2, <3>1, <3>2
  <2>4. CountInv'
    BY <1>1, <1>2, <1>3, <1>4, <2>1, <2>2, <2>3 DEF CountInv, Started, Got
  <2>5. /\ Len(Message) = remainder /\ Came + remainder = pos
        /\ \A k \in 1 .. remainder : Message[k] = Came + k
    BY <1>1, <1>3, <1>4, <2>1, <2>3 DEF BytesInv, Message
  <2>6. Len(written) \in Nat /\ Came = Len(written) /\ Came' = Len(written) + Rest
    BY <1>1, <1>4, <1>5, <2>2 DEF Came, Held, TypeOK
  <2>7. BytesInv'
    BY <1>1, <1>3, <1>4, <1>5, <2>1, <2>2, <2>5, <2>6 DEF BytesInv
  <2> QED BY <2>4, <2>7
<1>10. CountInv' /\ BytesInv'
  BY <1>9 DEF CountInv, BytesInv
<1> QED BY <1>3, <1>6, <1>7, <1>8, <1>10 DEF IInv

\* Adding the next bytes of the file to its beginning.
LEMMA WrittenFacts ==
    ASSUME NEW s \in Seq(Byte), NEW t \in Seq(Byte)
    PROVE  /\ s \o t \in Seq(Byte) /\ Len(s \o t) = Len(s) + Len(t)
           /\ (\A k \in 1 .. Len(s) : s[k] = k) /\ (\A k \in 1 .. Len(t) : t[k] = Len(s) + k)
                => \A k \in 1 .. Len(s \o t) : (s \o t)[k] = k
<1>1. /\ s \o t \in Seq(Byte) /\ Len(s \o t) = Len(s) + Len(t)
      /\ Len(s) \in Nat /\ Len(t) \in Nat
      /\ \A k \in 1 .. Len(s) + Len(t) : (s \o t)[k] = IF k <= Len(s) THEN s[k] ELSE t[k - Len(s)]
  BY ConcatProperties
<1>2. ASSUME \A k \in 1 .. Len(s) : s[k] = k, \A k \in 1 .. Len(t) : t[k] = Len(s) + k,
             NEW k \in 1 .. Len(s \o t)
      PROVE  (s \o t)[k] = k
  <2>1. CASE k <= Len(s)
    BY <1>1, <1>2, <2>1
  <2>2. CASE k > Len(s)
    <3>1. k - Len(s) \in 1 .. Len(t) /\ Len(s) + (k - Len(s)) = k
      BY <1>1, <2>2
    <3> QED BY <1>1, <1>2, <2>2, <3>1
  <2> QED BY <1>1, <2>1, <2>2
<1> QED BY <1>1, <1>2

LEMMA WriteChunkKeeps == ASSUME IInv, WriteChunk PROVE IInv'
<1> USE DEF WriteChunk, inputVars, senderVars, wireVars
<1>1. TypeOK /\ WireInv /\ SizesInv /\ RoundsInv /\ CountInv /\ BytesInv
  BY DEF IInv
<1>2. chunk' = chunk /\ remainder' = remainder
  BY SameFile
<1>3. /\ rbuf \in Seq(Byte) /\ written \in Seq(Byte) /\ Len(rbuf) = chunkSize /\ n \in Nat
      /\ Len(written) \in Nat /\ chunkSize \in Nat
      /\ Sized /\ Sized' /\ rpc = "write" /\ rpc' = "loop"
  BY <1>1, BoundAssumption DEF TypeOK, Byte, Sized
<1>4. /\ written' \in Seq(Byte) /\ Len(written') = Len(written) + chunkSize
      /\ (\A k \in 1 .. Len(written) : written[k] = k)
            /\ (\A k \in 1 .. chunkSize : rbuf[k] = Len(written) + k)
            => \A k \in 1 .. Len(written') : written'[k] = k
  BY <1>3, WrittenFacts
<1>5. TypeOK'
  BY <1>1, <1>2, <1>3, <1>4 DEF TypeOK
<1>6. WireInv'
  BY <1>1 DEF WireInv
<1>7. SizesInv'
  BY <1>1, <1>2, <1>3 DEF SizesInv, Started, Sized, AsInt
<1>8. RoundsInv'
  BY <1>1, <1>2, <1>3 DEF RoundsInv, Started, Rounds, ToInt
<1>9. Came' = Came /\ Got' = Got
  BY <1>3, <1>4 DEF Came, Held, Got
<1>10. CountInv'
  BY <1>1, <1>2, <1>3, <1>9 DEF CountInv, Started, Sane
<1>11. BytesInv'
  BY <1>1, <1>2, <1>3, <1>4, <1>9 DEF BytesInv, Sane
<1> QED BY <1>5, <1>6, <1>7, <1>8, <1>10, <1>11 DEF IInv

LEMMA WriteRestKeeps == ASSUME IInv, WriteRest PROVE IInv'
<1> USE DEF WriteRest, inputVars, senderVars, wireVars
<1>1. TypeOK /\ WireInv /\ SizesInv /\ RoundsInv /\ CountInv /\ BytesInv
  BY DEF IInv
<1>2. chunk' = chunk /\ remainder' = remainder
  BY SameFile
<1>3. /\ rbuf \in Seq(Byte) /\ written \in Seq(Byte) /\ Len(rbuf) = chunkSize
      /\ Len(written) \in Nat /\ chunkSize \in Nat \ {0} /\ fileSize \in Nat
      /\ Sized /\ Sized' /\ rpc = "writerest" /\ rpc' = "done"
  BY <1>1, BoundAssumption DEF TypeOK, Byte, Sized, SizesInv
<1>4. Rest \in 0 .. chunkSize - 1 /\ Rest \in Nat /\ Rest' = Rest
  BY <1>3, DivMod DEF Rest
<1> DEFINE t == SubSeq(rbuf, 1, Rest)
<1>5. t \in Seq(Byte) /\ Len(t) = Rest /\ \A k \in 1 .. Rest : t[k] = rbuf[k]
  BY <1>3, <1>4, SubSeqProperties
<1>6. written' = written \o t
  OBVIOUS
<1> HIDE DEF t
<1>7. /\ written' \in Seq(Byte) /\ Len(written') = Len(written) + Rest
      /\ (\A k \in 1 .. Len(written) : written[k] = k)
            /\ (\A k \in 1 .. Rest : rbuf[k] = Len(written) + k)
            => \A k \in 1 .. Len(written') : written'[k] = k
  BY <1>3, <1>5, <1>6, WrittenFacts
<1>8. TypeOK'
  BY <1>1, <1>2, <1>3, <1>7 DEF TypeOK
<1>9. WireInv'
  BY <1>1 DEF WireInv
<1>10. SizesInv'
  BY <1>1, <1>2, <1>3 DEF SizesInv, Started, Sized, AsInt
<1>11. RoundsInv'
  BY <1>1, <1>2, <1>3 DEF RoundsInv, Started, Rounds, ToInt
<1>12. Came' = Came /\ Got' = Got
  BY <1>3, <1>4, <1>7 DEF Came, Held, Got
<1>13. CountInv'
  BY <1>1, <1>2, <1>3, <1>12 DEF CountInv, Started, Sane
<1>14. BytesInv'
  BY <1>1, <1>2, <1>3, <1>7, <1>12 DEF BytesInv, Sane
<1> QED BY <1>8, <1>9, <1>10, <1>11, <1>13, <1>14 DEF IInv

-----------------------------------------------------------------------------
LEMMA StepKeeps == IInv /\ [Next]_vars => IInv'
  BY StutterKeeps, SenderStartKeeps, SendSizeKeeps, SendChunkSizeKeeps, SendChunkKeeps, SendRestKeeps,
     GetAckKeeps, SenderCloseKeeps, ReceiverStartKeeps, ReceiveSizeKeeps, ReceiveChunkSizeKeeps,
     ReceiveChunkKeeps, ReceiveRestKeeps, WriteChunkKeeps, WriteRestKeeps, ReceiverCloseKeeps
     DEF Next, Sender, Receiver

\* The variables keep their types; the buffers keep the length of a chunk, and the
\* sender does not read beyond the end of its file.
THEOREM TypeCorrect == Spec => []TypeOK
<1>1. IInv => TypeOK
  BY DEF IInv
<1> QED BY <1>1, InitHolds, StepKeeps, PTL DEF Spec

\* Whatever the file, the chunk and the width of an int: if the chunk's size arrives
\* as it was sent and no loop is endless, what is written is the file's beginning
\* (file-receive.cpp:43-54), also where the number of chunks is cut to an int.
THEOREM FileIsNotGarbled == Spec => []WrittenIsPrefix
<1>1. IInv => WrittenIsPrefix
  <2> SUFFICES ASSUME IInv, Sane
               PROVE  Len(written) <= fsize /\ \A k \in 1 .. Len(written) : written[k] = k
    BY DEF WrittenIsPrefix, Sane
  <2>1. TypeOK /\ SizesInv /\ RoundsInv /\ BytesInv
    BY DEF IInv
  <2>2. /\ Len(written) \in Nat /\ chunkSize \in Nat /\ pos \in 0 .. fsize /\ fsize \in Nat
        /\ request \in Seq(Seq(Byte))
    BY <2>1, BoundAssumption DEF TypeOK, Byte
  <2>3. Held \in Nat
    BY <2>1, <2>2, BoundAssumption, DivMod DEF Held, Rest, SizesInv, Sized, TypeOK, Byte
  <2>4. Came = Len(written) + Held /\ Came \in Nat
    BY <2>2, <2>3 DEF Came
  <2>5. Came <= pos
    <3>1. CASE request = NoBytes \/ ~Sized
      BY <2>1, <2>2, <2>3, <2>4, <3>1 DEF BytesInv
    <3>2. CASE request # NoBytes /\ Sized
      <4>1. request[1] \in Seq(Byte)
        BY <2>2, <3>2 DEF NoBytes
      <4>2. Len(request[1]) \in Nat /\ Came + Len(request[1]) = pos
        BY <2>1, <3>2, <4>1 DEF BytesInv
      <4> HIDE DEF NoBytes
      <4> DEFINE l == Len(request[1])
      <4>3. l \in Nat /\ Came + l = pos
        BY <4>2
      <4> HIDE DEF l
      <4> QED BY <2>2, <2>4, <4>3
    <3> QED BY <3>1, <3>2
  <2> QED BY <2>1, <2>2, <2>3, <2>4, <2>5 DEF BytesInv
<1> QED BY <1>1, InitHolds, StepKeeps, PTL DEF Spec

\* Whatever the file, the chunk and the width of an int, if both sizes fit: what is
\* acknowledged is written or is the piece in the receiver's buffer
\* (file-receive.cpp:44-47).
THEOREM NothingAcknowledgedIsMissing == Spec => []AckedIsHeld
<1>1. IInv => AckedIsHeld
  <2> SUFFICES ASSUME IInv, Fits, ~awaiting
               PROVE  Len(written) + Held = pos
    BY DEF AckedIsHeld, IInv
  <2>1. TypeOK /\ WireInv /\ SizesInv /\ RoundsInv /\ BytesInv
    BY DEF IInv
  <2>2. fsize \in Nat /\ UINT \in Nat \ {0} /\ chunk \in Nat \ {0} /\ chunk < UINT /\ AsInt(chunk) = chunk
    BY <2>1, Sizes DEF Fits
  <2>3. 2 * (fsize \div chunk) < UINT
    BY DEF Fits
  <2>4. rounds # -1
    BY <2>1, <2>2, <2>3, RoundsFacts DEF RoundsInv
  <2>5. numChunks # -1
    <3>1. CASE Sized
      <4>1. numChunks \in Rounds(fsize, chunk)
        BY <2>1, <2>2, <3>1 DEF RoundsInv, SizesInv, Sized
      <4> QED BY <2>2, <2>3, <4>1, RoundsFacts
    <3>2. CASE ~Sized
      BY <2>1, <3>2 DEF RoundsInv
    <3> QED BY <3>1, <3>2
  <2>6. Sane
    BY <2>2, <2>4, <2>5 DEF Sane
  <2>7. request = NoBytes
    BY <2>1 DEF WireInv
  <2> QED BY <2>1, <2>6, <2>7 DEF BytesInv, Came
<1> QED BY <1>1, InitHolds, StepKeeps, PTL DEF Spec

-----------------------------------------------------------------------------
(* LoadBalancer *)

BalancerTypes ==
    /\ SocketsTypeOK /\ BrokerTypeOK /\ WorkerTypeOK
    /\ cpc \in [Clients -> {"send", "wait", "done"}]

\* What a zmq_poll found is still so when it is used.
PolledInv ==
    /\ bpc = "backend" => /\ serviced_requests < MAX_REQUESTS
                          /\ frontend_ready => worker_queue # << >>
    /\ bpc = "frontend" => worker_queue # << >>

\* A worker that runs has its turn at one place: in its message to the broker, in
\* the queue, in the request to it, or it is at work.
IsQueued(w) == w \in Elements(worker_queue)
WorkerShape(w) ==
    \/ /\ wpc[w] \in {"start", "busy"}
       /\ ~IsQueued(w) /\ notices[w] = << >> /\ tasks[w] = << >>
    \/ /\ wpc[w] = "recv"
       /\ \/ IsQueued(w) /\ notices[w] = << >> /\ tasks[w] = << >>
          \/ ~IsQueued(w) /\ tasks[w] = << >> /\ \E e \in Task \cup {Ready} : notices[w] = <<e>>
          \/ ~IsQueued(w) /\ notices[w] = << >> /\ \E e \in Task : tasks[w] = <<e>>
ShapeInv ==
    /\ Injective(worker_queue)
    /\ \A w \in Workers : WorkerShape(w) /\ (wpc[w] # "start" => w \in attached)

\* The request that a worker has, on its way to it or from it or in its hands.
HandOf(ts, ns, at, j) ==
    Elements(ts) \cup (IF at = "busy" THEN {j} ELSE {}) \cup (Elements(ns) \ {Ready})
InHand(w) == HandOf(tasks[w], notices[w], wpc[w], job[w])

Asked(c)    == [client |-> c, seq |-> 0]
Carriers(c) == {w \in Workers : Asked(c) \in InHand(w)}

\* The one request of client c, or the reply to it, is at one place.
Found(c, unsent, unread, at, answer) ==
    outbox[c] = unsent /\ requests[c] = unread /\ Carriers(c) = at /\ replies[c] = answer
OnePlace(c) ==
    \/ cpc[c] = "send" /\ Found(c, << >>, << >>, {}, << >>)
    \/ cpc[c] = "wait" /\ Found(c, <<0>>, << >>, {}, << >>)
    \/ cpc[c] = "wait" /\ c \in routes /\ Found(c, << >>, <<0>>, {}, << >>)
    \/ cpc[c] = "wait" /\ c \in routes /\ \E w \in Workers : Found(c, << >>, << >>, {w}, << >>)
    \/ cpc[c] = "wait" /\ Found(c, << >>, << >>, {}, <<0>>)
    \/ cpc[c] = "done" /\ Found(c, << >>, << >>, {}, << >>)
PlaceInv ==
    /\ \A c \in Clients : OnePlace(c)
    /\ \A w \in Workers : InHand(w) \subseteq {Asked(c) : c \in Clients}

\* Replies, read or to be forwarded, are to requests that a worker handled.
HandledInv ==
    /\ \A w \in Workers : Elements(notices[w]) \subseteq {Ready} \cup handled
    /\ \A c \in Clients : replies[c] # << >> => Asked(c) \in handled

\* The loop's count is that of the clients whose reply has been forwarded.
Served == {c \in Clients : cpc[c] = "done" \/ replies[c] # << >>}
ServedInv == IsFiniteSet(Served) /\ Cardinality(Served) = serviced_requests

BalancerInv ==
    BalancerTypes /\ PolledInv /\ ShapeInv /\ PlaceInv /\ HandledInv /\ ServedInv

-----------------------------------------------------------------------------
\* What a worker has, at each stage of its turn.
LEMMA HandFacts ==
    ASSUME NEW at, NEW j
    PROVE  /\ at # "busy" => HandOf(<< >>, << >>, at, j) = {}
           /\ at = "busy" => HandOf(<< >>, << >>, at, j) = {j}
BY OneElement DEF HandOf

LEMMA HandSends ==
    ASSUME NEW at, at # "busy", NEW j, NEW e \in Task \cup {Ready}
    PROVE  HandOf(<< >>, <<e>>, at, j) = {e} \ {Ready}
<1>1. Elements(<< >>) = {} /\ Elements(<<e>>) = {e}
  BY OneElement
<1>. QED BY <1>1 DEF HandOf

LEMMA HandTakes ==
    ASSUME NEW at, at # "busy", NEW j, NEW e \in Task
    PROVE  HandOf(<<e>>, << >>, at, j) = {e}
<1>1. Elements(<< >>) = {} /\ Elements(<<e>>) = {e}
  BY OneElement
<1>. QED BY <1>1 DEF HandOf

LEMMA TaskFacts ==
    /\ Ready \notin Task /\ Ready.client = WORKER_READY
    /\ \A e \in Task : e.client # WORKER_READY
    /\ \A c \in Clients : /\ Asked(c) \in Task /\ Asked(c) # Ready /\ ClientId(c) = c
                          /\ Asked(c).client = c /\ Asked(c).seq = 0
    /\ \A c, d \in Clients : Asked(c) = Asked(d) => c = d
<1>1. \A e \in Task : e.client \in Clients \cup {Truncated}
  BY DEF Task, ClientIds
<1>2. Ready.client = WORKER_READY /\ WORKER_READY \notin Clients \cup {Truncated}
  BY IdAssumption DEF Ready
<1>3. \A c \in Clients : Asked(c) \in Task /\ Asked(c).client = c /\ Asked(c).seq = 0
  BY DEF Asked, Task, ClientIds
<1>4. \A c \in Clients : ClientId(c) = c
  BY BalancerAssumption DEF ClientId
<1>. QED BY <1>1, <1>2, <1>3, <1>4

LEMMA InitBalancer == BalancerInit => BalancerInv
<1>. SUFFICES ASSUME BalancerInit PROVE BalancerInv
  OBVIOUS
<1>. USE DEF BalancerInit, SocketsInit, BrokerInit, WorkerInit
<1>1. BalancerTypes
  <2>1. SocketsTypeOK
    BY DEF SocketsTypeOK
  <2>2. BrokerTypeOK
    <3>1. frontend_ready \in BOOLEAN
      BY Zenon
    <3>2. worker_queue \in Seq(Workers) /\ serviced_requests \in 0 .. MAX_REQUESTS
      BY BrokerAssumption
    <3>. QED BY <3>1, <3>2 DEF BrokerTypeOK
  <2>3. WorkerTypeOK
    BY DEF WorkerTypeOK, Task, NoJob, ClientIds
  <2>. QED BY <2>1, <2>2, <2>3 DEF BalancerTypes
<1>2. PolledInv
  BY DEF PolledInv
<1>3. ShapeInv
  <2>1. Injective(<< >>) /\ Elements(<< >>) = {}
    BY DEF Injective, Elements
  <2>. QED BY <2>1 DEF ShapeInv, WorkerShape, IsQueued
<1>4. \A w \in Workers : InHand(w) = {}
  BY HandFacts DEF InHand
<1>5. PlaceInv
  BY <1>4 DEF PlaceInv, OnePlace, Found, Carriers
<1>6. HandledInv
  BY OneElement DEF HandledInv
<1>7. Served = {}
  BY DEF Served
<1>8. ServedInv
  BY <1>7, FS_EmptySet DEF ServedInv
<1>. QED BY <1>1, <1>2, <1>3, <1>5, <1>6, <1>8 DEF BalancerInv

-----------------------------------------------------------------------------
\* A client that a step does not touch.
LEMMA PlaceKept ==
    ASSUME NEW c \in Clients, OnePlace(c), routes \subseteq routes',
           outbox'[c] = outbox[c], requests'[c] = requests[c], replies'[c] = replies[c],
           cpc'[c] = cpc[c], Carriers(c)' = Carriers(c)
    PROVE  OnePlace(c)'
BY DEF OnePlace, Found

\* A step after which every worker has what it had.
LEMMA HandsKept ==
    ASSUME \A w \in Workers : InHand(w)' = InHand(w)
    PROVE  \A c \in Clients : Carriers(c)' = Carriers(c)
BY DEF Carriers, Asked

\* A step of the clients or of the network, which no worker notices.
LEMMA WorkersKept ==
    ASSUME BalancerInv, UNCHANGED <<brokerVars, workerVars, notices, tasks, attached>>
    PROVE  /\ PolledInv' /\ ShapeInv' /\ BrokerTypeOK' /\ WorkerTypeOK'
           /\ \A w \in Workers : InHand(w)' = InHand(w)
           /\ \A c \in Clients : Carriers(c)' = Carriers(c)
<1>. USE DEF BalancerInv, BalancerTypes, brokerVars, workerVars
<1>1. \A w \in Workers : InHand(w)' = InHand(w)
  BY DEF InHand
<1>2. PolledInv' /\ ShapeInv'
  BY DEF PolledInv, ShapeInv, WorkerShape, IsQueued
<1>3. BrokerTypeOK' /\ WorkerTypeOK'
  BY DEF BrokerTypeOK, WorkerTypeOK
<1>. QED BY <1>1, <1>2, <1>3, HandsKept

LEMMA ClientMoves ==
    ASSUME BalancerInv, NEW c \in Clients, ClientStep(c)
    PROVE  BalancerInv'
<1>. USE DEF BalancerInv, BalancerTypes
<1>1. /\ PolledInv' /\ ShapeInv' /\ BrokerTypeOK' /\ WorkerTypeOK'
      /\ \A w \in Workers : InHand(w)' = InHand(w)
      /\ \A d \in Clients : Carriers(d)' = Carriers(d)
  BY WorkersKept DEF ClientStep, ClientSend, ClientReceive, ReqSend, ReqReceive, brokerVars, workerVars
<1>2. CASE ClientSend(c)
  <2>1. /\ cpc[c] = "send" /\ cpc' = [cpc EXCEPT ![c] = "wait"]
        /\ outbox' = [outbox EXCEPT ![c] = Append(@, 0)]
        /\ replies' = [replies EXCEPT ![c] = << >>]
        /\ UNCHANGED <<requests, routes, notices, tasks, attached>>
    BY <1>2 DEF ClientSend, ReqSend
  <2>2. Found(c, << >>, << >>, {}, << >>)
    BY <2>1 DEF PlaceInv, OnePlace
  <2>3. Append(<< >>, 0) = <<0>>
    BY OneElement
  <2>4. outbox'[c] = <<0>> /\ replies' = replies
    BY <2>1, <2>2, <2>3 DEF Found, SocketsTypeOK
  <2>5. SocketsTypeOK' /\ cpc' \in [Clients -> {"send", "wait", "done"}]
    BY <2>1, AppendFacts DEF SocketsTypeOK
  <2>6. \A d \in Clients : OnePlace(d)'
    <3> TAKE d \in Clients
    <3>1. CASE d = c
      BY <1>1, <2>1, <2>2, <2>4, <3>1 DEF OnePlace, Found
    <3>2. CASE d # c
      <4>1. OnePlace(d)
        BY DEF PlaceInv
      <4>. QED BY <1>1, <2>1, <2>4, <3>2, <4>1, PlaceKept DEF SocketsTypeOK
    <3>. QED BY <3>1, <3>2
  <2>7. PlaceInv'
    <3>1. \A d \in Clients : Asked(d)' = Asked(d)
      BY DEF Asked
    <3>. QED BY <1>1, <2>6, <3>1 DEF PlaceInv
  <2>8. HandledInv'
    BY <1>1, <2>1, <2>4 DEF ClientStep, workerVars, HandledInv, Asked
  <2>9. Served' = Served
    BY <2>1, <2>2, <2>4 DEF Served, Found
  <2>10. ServedInv'
    BY <2>9 DEF ServedInv, ClientStep, brokerVars
  <2>. QED BY <1>1, <2>5, <2>7, <2>8, <2>10
<1>3. CASE ClientReceive(c)
  <2>1. /\ cpc[c] = "wait" /\ replies[c] # << >>
        /\ cpc' = [cpc EXCEPT ![c] = "done"]
        /\ replies' = [replies EXCEPT ![c] = Tail(@)]
        /\ UNCHANGED <<outbox, requests, routes, notices, tasks, attached>>
    BY <1>3 DEF ClientReceive, ReqReceive
  <2>2. Found(c, << >>, << >>, {}, <<0>>)
    BY <2>1 DEF PlaceInv, OnePlace, Found
  <2>3. Tail(<<0>>) = << >> /\ <<0>> # << >>
    BY OneElement
  <2>4. replies'[c] = << >> /\ cpc'[c] = "done"
    BY <2>1, <2>2, <2>3 DEF Found, SocketsTypeOK
  <2>5. SocketsTypeOK' /\ cpc' \in [Clients -> {"send", "wait", "done"}]
    BY <2>1, TailFacts DEF SocketsTypeOK
  <2>6. \A d \in Clients : OnePlace(d)'
    <3> TAKE d \in Clients
    <3>1. CASE d = c
      BY <1>1, <2>1, <2>2, <2>4, <3>1 DEF OnePlace, Found
    <3>2. CASE d # c
      <4>1. OnePlace(d)
        BY DEF PlaceInv
      <4>. QED BY <1>1, <2>1, <3>2, <4>1, PlaceKept DEF SocketsTypeOK
    <3>. QED BY <3>1, <3>2
  <2>7. PlaceInv'
    <3>1. \A d \in Clients : Asked(d)' = Asked(d)
      BY DEF Asked
    <3>. QED BY <1>1, <2>6, <3>1 DEF PlaceInv
  <2>8. HandledInv'
    <3>1. \A d \in Clients : replies'[d] # << >> => replies[d] # << >>
      BY <2>1, <2>4 DEF SocketsTypeOK
    <3>. QED BY <1>1, <2>1, <3>1 DEF ClientStep, workerVars, HandledInv, Asked
  <2>9. Served' = Served
    <3>1. \A d \in Clients \ {c} : replies'[d] = replies[d] /\ cpc'[d] = cpc[d]
      BY <2>1 DEF SocketsTypeOK
    <3>. QED BY <2>1, <2>4, <3>1 DEF Served
  <2>10. ServedInv'
    BY <2>9 DEF ServedInv, ClientStep, brokerVars
  <2>. QED BY <1>1, <2>5, <2>7, <2>8, <2>10
<1>. QED BY <1>2, <1>3 DEF ClientStep

LEMMA NetworkMoves ==
    ASSUME BalancerInv, NEW c \in Clients, NetworkStep(c)
    PROVE  BalancerInv'
<1>. USE DEF BalancerInv, BalancerTypes
<1>1. /\ outbox[c] # << >>
      /\ requests' = [requests EXCEPT ![c] = Append(@, Head(outbox[c]))]
      /\ outbox' = [outbox EXCEPT ![c] = Tail(@)]
      /\ routes' = routes \cup {c}
      /\ UNCHANGED <<replies, notices, tasks, attached, brokerVars, workerVars, cpc>>
  BY DEF NetworkStep, Transmit, clientVars
<1>2. /\ PolledInv' /\ ShapeInv' /\ BrokerTypeOK' /\ WorkerTypeOK'
      /\ \A w \in Workers : InHand(w)' = InHand(w)
      /\ \A d \in Clients : Carriers(d)' = Carriers(d)
  BY <1>1, WorkersKept
<1>3. cpc[c] = "wait" /\ Found(c, <<0>>, << >>, {}, << >>)
  BY <1>1 DEF PlaceInv, OnePlace, Found
<1>4. Head(<<0>>) = 0 /\ Tail(<<0>>) = << >> /\ Append(<< >>, 0) = <<0>>
  BY OneElement
<1>5. outbox'[c] = << >> /\ requests'[c] = <<0>> /\ c \in routes' /\ routes \subseteq routes'
  BY <1>1, <1>3, <1>4 DEF Found, SocketsTypeOK
<1>6. SocketsTypeOK'
  BY <1>1, AppendFacts, TailFacts DEF SocketsTypeOK
<1>7. \A d \in Clients : OnePlace(d)'
  <2> TAKE d \in Clients
  <2>1. CASE d = c
    BY <1>1, <1>2, <1>3, <1>5, <2>1 DEF OnePlace, Found
  <2>2. CASE d # c
    <3>1. OnePlace(d)
      BY DEF PlaceInv
    <3>. QED BY <1>1, <1>2, <1>5, <2>2, <3>1, PlaceKept DEF SocketsTypeOK
  <2>. QED BY <2>1, <2>2
<1>8. PlaceInv'
  <2>1. \A d \in Clients : Asked(d)' = Asked(d)
    BY DEF Asked
  <2>. QED BY <1>2, <1>7, <2>1 DEF PlaceInv
<1>9. HandledInv'
  BY <1>1 DEF workerVars, HandledInv, Asked
<1>10. ServedInv'
  BY <1>1 DEF ServedInv, Served, brokerVars
<1>. QED BY <1>1, <1>2, <1>6, <1>8, <1>9, <1>10

\* A step of the loop that moves no message.
LEMMA LoopMoves ==
    ASSUME BalancerInv,
           \/ (BrokerPoll \/ BrokerDone) /\ UNCHANGED <<workerVars, clientVars>>
           \/ Interrupt
           \/ Terminate
    PROVE  BalancerInv'
<1>. USE DEF BalancerInv, BalancerTypes
<1>1. UNCHANGED <<worker_queue, serviced_requests, socketVars, workerVars, cpc>>
  BY DEF Interrupt, Terminate, BrokerPoll, BrokerDone, BrokerInterrupted, brokerVars, workerVars,
         clientVars
<1>2. BrokerTypeOK'
  <2>1. bpc' \in {"poll", "backend", "frontend", "closed"}
    BY DEF BrokerTypeOK, Interrupt, Terminate, BrokerPoll, BrokerDone, BrokerInterrupted, brokerVars
  <2>2. frontend_ready' \in BOOLEAN
    <3>1. CASE BrokerPoll
      BY <3>1 DEF BrokerPoll, FrontendPolled
    <3>2. CASE ~BrokerPoll
      BY <3>2 DEF BrokerTypeOK, Interrupt, Terminate, BrokerDone, BrokerInterrupted, brokerVars
    <3>. QED BY <3>1, <3>2
  <2>. QED BY <1>1, <2>1, <2>2 DEF BrokerTypeOK
<1>3. PolledInv'
  <2>1. CASE BrokerPoll
    BY <1>1, <2>1 DEF BrokerPoll, PolledInv, FrontendPolled
  <2>2. CASE ~BrokerPoll
    BY <1>1, <2>2 DEF PolledInv, Interrupt, Terminate, BrokerDone, BrokerInterrupted, brokerVars
  <2>. QED BY <2>1, <2>2
<1>4. SocketsTypeOK' /\ WorkerTypeOK'
  BY <1>1 DEF SocketsTypeOK, WorkerTypeOK, socketVars, workerVars
<1>5. ShapeInv'
  BY <1>1 DEF ShapeInv, WorkerShape, IsQueued, socketVars, workerVars
<1>6. \A w \in Workers : InHand(w)' = InHand(w)
  BY <1>1 DEF InHand, socketVars, workerVars
<1>7. PlaceInv'
  <2>1. \A c \in Clients : Carriers(c)' = Carriers(c) /\ Asked(c)' = Asked(c)
    BY <1>6, HandsKept DEF Asked
  <2>2. \A c \in Clients : OnePlace(c)'
    BY <1>1, <2>1, PlaceKept DEF PlaceInv, socketVars
  <2>. QED BY <1>6, <2>1, <2>2 DEF PlaceInv
<1>8. HandledInv' /\ ServedInv'
  BY <1>1 DEF HandledInv, ServedInv, Served, Asked, socketVars, workerVars
<1>. QED BY <1>1, <1>2, <1>3, <1>4, <1>5, <1>7, <1>8

\* What a worker has is the request of a client that waits for it, and nobody else
\* has it.
LEMMA HandIs ==
    ASSUME BalancerInv, NEW w \in Workers, NEW e \in InHand(w)
    PROVE  \E c \in Clients :
              /\ e = Asked(c) /\ cpc[c] = "wait" /\ c \in routes
              /\ Found(c, << >>, << >>, {w}, << >>)
<1>. USE DEF BalancerInv
<1>1. PICK c \in Clients : e = Asked(c)
  BY DEF PlaceInv
<1>2. w \in Carriers(c)
  BY <1>1 DEF Carriers
<1>3. OnePlace(c)
  BY DEF PlaceInv
<1>4. /\ cpc[c] = "wait" /\ c \in routes
      /\ \E v \in Workers : Found(c, << >>, << >>, {v}, << >>)
  BY <1>2, <1>3 DEF OnePlace, Found
<1>5. Found(c, << >>, << >>, {w}, << >>)
  BY <1>2, <1>4 DEF Found
<1>. QED BY <1>1, <1>4, <1>5

LEMMA WorkerMoves ==
    ASSUME BalancerInv, NEW w \in Workers, WorkerStep(w)
    PROVE  BalancerInv'
<1>. USE DEF BalancerInv, BalancerTypes
<1>1. /\ Worker(w)
      /\ UNCHANGED <<outbox, requests, routes, replies, brokerVars, cpc>>
  BY DEF WorkerStep, Worker, WorkerStart, WorkerReceive, WorkerReply, WorkerSend, clientVars
<1>2. /\ tasks \in [Workers -> Seq(Task)] /\ notices \in [Workers -> Seq(Task \cup {Ready})]
      /\ wpc \in [Workers -> {"start", "recv", "busy", "crashed"}]
      /\ job \in [Workers -> Task] /\ attached \subseteq Workers /\ handled \subseteq Task
  BY DEF SocketsTypeOK, WorkerTypeOK
<1>3. WorkerShape(w) /\ (wpc[w] # "start" => w \in attached)
  BY DEF ShapeInv
<1>4. \/ /\ wpc[w] = "start" /\ tasks[w] = << >> /\ notices[w] = << >> /\ ~IsQueued(w)
         /\ notices' = [notices EXCEPT ![w] = <<Ready>>] /\ tasks' = tasks
         /\ attached' = attached \cup {w}
         /\ wpc' = [wpc EXCEPT ![w] = "recv"] /\ UNCHANGED <<job, handled>>
      \/ /\ wpc[w] = "recv" /\ notices[w] = << >> /\ ~IsQueued(w)
         /\ \E e \in Task : /\ tasks[w] = <<e>>
                            /\ job' = [job EXCEPT ![w] = e]
         /\ tasks' = [tasks EXCEPT ![w] = << >>]
         /\ wpc' = [wpc EXCEPT ![w] = "busy"] /\ UNCHANGED <<handled, notices, attached>>
      \/ /\ wpc[w] = "busy" /\ tasks[w] = << >> /\ notices[w] = << >> /\ ~IsQueued(w)
         /\ notices' = [notices EXCEPT ![w] = <<job[w]>>] /\ tasks' = tasks
         /\ handled' = handled \cup {job[w]}
         /\ wpc' = [wpc EXCEPT ![w] = "recv"] /\ job' = [job EXCEPT ![w] = NoJob]
         /\ UNCHANGED attached
  <2>0. tasks[w] = << >> => [tasks EXCEPT ![w] = << >>] = tasks
    BY <1>2
  <2>1. CASE WorkerStart(w)
    <3>1. wpc[w] = "start" /\ tasks[w] = << >> /\ notices[w] = << >> /\ ~IsQueued(w)
      BY <1>3, <2>1 DEF WorkerStart, WorkerShape
    <3>2. Append(<< >>, Ready) = <<Ready>>
      BY OneElement
    <3>. QED BY <1>2, <2>0, <2>1, <3>1, <3>2 DEF WorkerStart, WorkerSend
  <2>2. CASE WorkerReceive(w)
    <3>1. wpc[w] = "recv" /\ tasks[w] # << >>
      BY <2>2 DEF WorkerReceive
    <3>2. PICK e \in Task : tasks[w] = <<e>> /\ notices[w] = << >> /\ ~IsQueued(w)
      BY <1>3, <3>1 DEF WorkerShape
    <3>3. Head(<<e>>) = e /\ Tail(<<e>>) = << >>
      BY OneElement
    <3>4. /\ job' = [job EXCEPT ![w] = e]
          /\ tasks' = [tasks EXCEPT ![w] = << >>]
          /\ wpc' = [wpc EXCEPT ![w] = "busy"]
          /\ UNCHANGED <<handled, notices, attached>>
      BY <2>2, <3>2, <3>3 DEF WorkerReceive
    <3>. QED BY <3>1, <3>2, <3>4
  <2>3. CASE WorkerReply(w)
    <3>1. wpc[w] = "busy" /\ tasks[w] = << >> /\ notices[w] = << >> /\ ~IsQueued(w)
      BY <1>3, <2>3 DEF WorkerReply, WorkerShape
    <3>2. job[w] \in Task
      BY <1>2
    <3>3. Append(<< >>, job[w]) = <<job[w]>>
      BY <3>2, OneElement
    <3>. QED BY <1>2, <2>0, <2>3, <3>1, <3>3 DEF WorkerReply, WorkerSend
  <2>. QED BY <1>1, <2>1, <2>2, <2>3 DEF Worker
<1>5. InHand(w)' = InHand(w)
  <2>1. CASE wpc[w] = "start"
    <3>1. InHand(w) = {}
      BY <1>4, <2>1, HandFacts DEF InHand
    <3>2. InHand(w)' = HandOf(<< >>, <<Ready>>, "recv", job[w])
      BY <1>2, <1>4, <2>1 DEF InHand
    <3>3. HandOf(<< >>, <<Ready>>, "recv", job[w]) = {Ready} \ {Ready}
      BY HandSends
    <3>. QED BY <3>1, <3>2, <3>3
  <2>2. CASE wpc[w] = "recv"
    <3>1. PICK e \in Task : /\ tasks[w] = <<e>> /\ notices[w] = << >>
                            /\ job' = [job EXCEPT ![w] = e]
      BY <1>4, <2>2
    <3>2. InHand(w) = {e}
      BY <2>2, <3>1, HandTakes DEF InHand
    <3>3. InHand(w)' = HandOf(<< >>, << >>, "busy", e)
      BY <1>2, <1>4, <2>2, <3>1 DEF InHand
    <3>. QED BY <3>2, <3>3, HandFacts
  <2>3. CASE wpc[w] = "busy"
    <3>1. InHand(w) = {job[w]}
      BY <1>4, <2>3, HandFacts DEF InHand
    <3>2. InHand(w)' = HandOf(<< >>, <<job[w]>>, "recv", NoJob)
      BY <1>2, <1>4, <2>3 DEF InHand
    <3>3. job[w] \in Task /\ job[w] # Ready
      BY <1>2, TaskFacts
    <3>4. HandOf(<< >>, <<job[w]>>, "recv", NoJob) = {job[w]} \ {Ready}
      BY <3>3, HandSends
    <3>. QED BY <3>1, <3>2, <3>3, <3>4
  <2>. QED BY <1>4, <2>1, <2>2, <2>3
<1>6. \A v \in Workers \ {w} : /\ notices'[v] = notices[v] /\ tasks'[v] = tasks[v]
                               /\ wpc'[v] = wpc[v] /\ job'[v] = job[v]
                               /\ v \in attached' <=> v \in attached
  BY <1>2, <1>4
<1>7. \A v \in Workers : InHand(v)' = InHand(v)
  <2>1. \A v \in Workers \ {w} : InHand(v)' = InHand(v)
    BY <1>6 DEF InHand
  <2>. QED BY <1>5, <2>1
<1>8. BalancerTypes'
  <2>1. NoJob \in Task
    BY DEF NoJob, Task, ClientIds
  <2>2. <<Ready>> \in Seq(Task \cup {Ready}) /\ <<job[w]>> \in Seq(Task \cup {Ready})
    BY <1>2, OneElement
  <2>3. << >> \in Seq(Task)
    OBVIOUS
  <2>4. SocketsTypeOK'
    BY <1>1, <1>4, <2>2, <2>3 DEF SocketsTypeOK
  <2>5. WorkerTypeOK'
    <3>1. job' \in [Workers -> Task]
      BY <1>2, <1>4, <2>1
    <3>2. wpc' \in [Workers -> {"start", "recv", "busy", "crashed"}]
      BY <1>2, <1>4
    <3>3. handled' \subseteq Task
      BY <1>2, <1>4
    <3>. QED BY <3>1, <3>2, <3>3 DEF WorkerTypeOK
  <2>6. BrokerTypeOK'
    BY <1>1 DEF BrokerTypeOK, brokerVars
  <2>. QED BY <1>1, <2>4, <2>5, <2>6
<1>9. PolledInv'
  BY <1>1 DEF PolledInv, brokerVars
<1>10. ShapeInv'
  <2>1. worker_queue' = worker_queue
    BY <1>1 DEF brokerVars
  <2>2. WorkerShape(w)' /\ w \in attached'
    <3>1. job[w] \in Task \cup {Ready} /\ Ready \in Task \cup {Ready}
      BY <1>2
    <3>. QED BY <1>2, <1>3, <1>4, <2>1, <3>1 DEF WorkerShape, IsQueued
  <2>3. \A v \in Workers \ {w} : WorkerShape(v)' /\ (wpc'[v] # "start" => v \in attached')
    BY <1>6, <2>1 DEF ShapeInv, WorkerShape, IsQueued
  <2>. QED BY <2>1, <2>2, <2>3 DEF ShapeInv
<1>11. PlaceInv'
  <2>1. \A c \in Clients : Carriers(c)' = Carriers(c) /\ Asked(c)' = Asked(c)
    BY <1>7, HandsKept DEF Asked
  <2>2. \A c \in Clients : OnePlace(c)'
    BY <1>1, <2>1, PlaceKept DEF PlaceInv
  <2>. QED BY <1>7, <2>1, <2>2 DEF PlaceInv
<1>12. HandledInv'
  <2>1. handled \subseteq handled'
    BY <1>4
  <2>2. Elements(notices'[w]) \subseteq {Ready} \cup handled'
    <3>1. \/ notices'[w] = notices[w]
          \/ notices'[w] = <<Ready>>
          \/ notices'[w] = <<job[w]>> /\ job[w] \in handled' /\ job[w] \in Task
      BY <1>2, <1>4
    <3>2. Elements(notices[w]) \subseteq {Ready} \cup handled
      BY DEF HandledInv
    <3>3. Elements(<<Ready>>) = {Ready} /\ \A e \in Task : Elements(<<e>>) = {e}
      BY OneElement
    <3>. QED BY <2>1, <3>1, <3>2, <3>3
  <2>3. \A v \in Workers \ {w} : Elements(notices'[v]) \subseteq {Ready} \cup handled'
    BY <1>6, <2>1 DEF HandledInv
  <2>4. \A c \in Clients : replies'[c] # << >> => Asked(c)' \in handled'
    BY <1>1, <2>1 DEF HandledInv, Asked
  <2>. QED BY <2>2, <2>3, <2>4 DEF HandledInv
<1>13. ServedInv'
  BY <1>1 DEF ServedInv, Served, brokerVars
<1>. QED BY <1>8, <1>9, <1>10, <1>11, <1>12, <1>13

\* A worker that is not in the queue joins it.
LEMMA JoinsQueue ==
    ASSUME NEW q \in Seq(Workers), NEW w \in Workers, Injective(q), w \notin Elements(q)
    PROVE  /\ Append(q, w) \in Seq(Workers) /\ Append(q, w) # << >>
           /\ Elements(Append(q, w)) = Elements(q) \cup {w}
           /\ Injective(Append(q, w))
  BY AppendFacts

\* READY is read, and the worker is idle; or its reply is read, and goes to the
\* client that waits for it, whose connection is known.
LEMMA BackendMoves ==
    ASSUME BalancerInv, NEW w \in Workers, BackendFrom(w), UNCHANGED <<workerVars, clientVars>>
    PROVE  BalancerInv'
<1>. USE DEF BalancerInv, BalancerTypes
<1>1. /\ bpc = "backend" /\ notices[w] # << >>
      /\ worker_queue' = Append(worker_queue, w)
      /\ notices' = [notices EXCEPT ![w] = Tail(@)]
      /\ bpc' = IF frontend_ready THEN "frontend" ELSE "poll"
      /\ UNCHANGED <<frontend_ready, outbox, requests, routes, tasks, attached, wpc, job, handled, cpc>>
  BY DEF BackendFrom, Requeued, workerVars, clientVars
<1>2. /\ tasks \in [Workers -> Seq(Task)] /\ notices \in [Workers -> Seq(Task \cup {Ready})]
      /\ replies \in [Clients -> Seq(Nat)] /\ worker_queue \in Seq(Workers)
      /\ serviced_requests \in 0 .. MAX_REQUESTS /\ MAX_REQUESTS \in Nat
      /\ frontend_ready \in BOOLEAN
  BY BrokerAssumption DEF SocketsTypeOK, BrokerTypeOK
<1>3. PICK e \in Task \cup {Ready} :
         wpc[w] = "recv" /\ ~IsQueued(w) /\ tasks[w] = << >> /\ notices[w] = <<e>>
  BY <1>1 DEF ShapeInv, WorkerShape
<1>4. notices'[w] = << >> /\ \A v \in Workers \ {w} : notices'[v] = notices[v]
  <2>1. Tail(<<e>>) = << >>
    BY OneElement
  <2>. QED BY <1>1, <1>2, <1>3, <2>1
<1>5. /\ worker_queue' \in Seq(Workers) /\ worker_queue' # << >>
      /\ Elements(worker_queue') = Elements(worker_queue) \cup {w}
      /\ Injective(worker_queue')
  <2>1. Injective(worker_queue) /\ w \notin Elements(worker_queue)
    BY <1>3 DEF ShapeInv, IsQueued
  <2>2. /\ Append(worker_queue, w) \in Seq(Workers) /\ Append(worker_queue, w) # << >>
        /\ Elements(Append(worker_queue, w)) = Elements(worker_queue) \cup {w}
        /\ Injective(Append(worker_queue, w))
    BY <1>2, <2>1, JoinsQueue
  <2>. QED BY <1>1, <2>2
<1>6. PolledInv'
  BY <1>1, <1>5 DEF PolledInv
<1>7. ShapeInv'
  <2>1. WorkerShape(w)'
    BY <1>1, <1>3, <1>4, <1>5 DEF WorkerShape, IsQueued
  <2>2. \A v \in Workers \ {w} : WorkerShape(v)'
    <3> TAKE v \in Workers \ {w}
    <3>1. WorkerShape(v) /\ (IsQueued(v)' <=> IsQueued(v)) /\ notices'[v] = notices[v]
      BY <1>4, <1>5 DEF ShapeInv, IsQueued
    <3>. QED BY <1>1, <3>1 DEF WorkerShape
  <2>. QED BY <1>1, <1>5, <2>1, <2>2 DEF ShapeInv
<1>8. InHand(w) = {e} \ {Ready} /\ InHand(w)' = {}
  <2>1. InHand(w) = HandOf(<< >>, <<e>>, "recv", job[w])
    BY <1>3 DEF InHand
  <2>2. InHand(w)' = HandOf(<< >>, << >>, "recv", job[w])
    BY <1>1, <1>3, <1>4 DEF InHand
  <2>3. HandOf(<< >>, <<e>>, "recv", job[w]) = {e} \ {Ready}
    BY HandSends
  <2>. QED BY <2>1, <2>2, <2>3, HandFacts
<1>9. \A v \in Workers \ {w} : InHand(v)' = InHand(v)
  BY <1>1, <1>4 DEF InHand
<1>10. Head(notices[w]) = e
  BY <1>3, OneElement
<1>11. notices' \in [Workers -> Seq(Task \cup {Ready})]
  BY <1>1, <1>2, TailFacts
<1>12. BrokerTypeOK' <=> serviced_requests' \in 0 .. MAX_REQUESTS
  BY <1>1, <1>2, <1>5 DEF BrokerTypeOK
<1>13. WorkerTypeOK' /\ cpc' = cpc
  BY <1>1 DEF WorkerTypeOK
<1>14. \A v \in Workers : Elements(notices'[v]) \subseteq {Ready} \cup handled'
  <2>1. Elements(<< >>) = {}
    BY OneElement
  <2>. QED BY <1>1, <1>4, <2>1 DEF HandledInv
<1>15. \A c \in Clients : Asked(c)' = Asked(c)
  BY DEF Asked
<1>16. CASE e = Ready
  <2>1. UNCHANGED <<replies, serviced_requests>>
    BY <1>10, <1>16, TaskFacts DEF BackendFrom
  <2>2. SocketsTypeOK' /\ BrokerTypeOK'
    BY <1>1, <1>2, <1>11, <1>12, <2>1 DEF SocketsTypeOK
  <2>3. \A v \in Workers : InHand(v)' = InHand(v)
    BY <1>8, <1>9, <1>16
  <2>4. PlaceInv'
    <3>1. \A c \in Clients : Carriers(c)' = Carriers(c)
      BY <2>3, HandsKept
    <3>2. \A c \in Clients : OnePlace(c)'
      BY <1>1, <2>1, <3>1, PlaceKept DEF PlaceInv
    <3>. QED BY <1>15, <2>3, <3>2 DEF PlaceInv
  <2>5. HandledInv'
    BY <1>1, <1>14, <1>15, <2>1 DEF HandledInv
  <2>6. ServedInv'
    BY <1>1, <2>1 DEF ServedInv, Served
  <2>. QED BY <1>6, <1>7, <1>13, <2>2, <2>4, <2>5, <2>6
<1>17. CASE e # Ready
  <2>1. e \in InHand(w)
    BY <1>8, <1>17
  <2>2. PICK c \in Clients : /\ e = Asked(c) /\ cpc[c] = "wait" /\ c \in routes
                             /\ Found(c, << >>, << >>, {w}, << >>)
    BY <2>1, HandIs
  <2>3. e.client = c /\ e.seq = 0 /\ e.client # WORKER_READY
    BY <2>2, TaskFacts
  <2>4. replies' = Delivered(c, 0) /\ serviced_requests' = serviced_requests + 1
    BY <1>10, <2>3 DEF BackendFrom
  <2>5. replies'[c] = <<0>> /\ \A d \in Clients \ {c} : replies'[d] = replies[d]
    <3>1. Append(<< >>, 0) = <<0>>
      BY OneElement
    <3>. QED BY <2>2, <2>4, <3>1 DEF Delivered, Found
  <2>6. serviced_requests' \in 0 .. MAX_REQUESTS
    BY <1>1, <1>2, <2>4 DEF PolledInv
  <2>7. replies' \in [Clients -> Seq(Nat)]
    <3>1. <<0>> \in Seq(Nat)
      OBVIOUS
    <3>2. \A d \in Clients : replies'[d] \in Seq(Nat)
      BY <1>2, <2>5, <3>1
    <3>3. DOMAIN replies' = Clients /\ replies' = [d \in Clients |-> replies'[d]]
      BY <2>4 DEF Delivered
    <3>. QED BY <3>2, <3>3
  <2>8. SocketsTypeOK' /\ BrokerTypeOK'
    BY <1>1, <1>11, <1>12, <2>6, <2>7 DEF SocketsTypeOK
  <2>9. /\ Carriers(c)' = {}
        /\ \A d \in Clients \ {c} : Carriers(d)' = Carriers(d)
    <3>1. \A v \in Workers \ {w} : Asked(c) \notin InHand(v)'
      BY <1>9, <2>2 DEF Found, Carriers
    <3>2. \A d \in Clients \ {c} : Asked(d) \notin InHand(w)
      BY <1>8, <2>2, TaskFacts
    <3>. QED BY <1>8, <1>9, <1>15, <3>1, <3>2 DEF Carriers
  <2>10. PlaceInv'
    <3>1. \A d \in Clients : OnePlace(d)'
      <4> TAKE d \in Clients
      <4>1. CASE d = c
        BY <1>1, <2>2, <2>5, <2>9, <4>1 DEF OnePlace, Found
      <4>2. CASE d # c
        BY <1>1, <2>5, <2>9, <4>2, PlaceKept DEF PlaceInv
      <4>. QED BY <4>1, <4>2
    <3>2. \A v \in Workers : InHand(v)' \subseteq {Asked(d) : d \in Clients}
      BY <1>8, <1>9 DEF PlaceInv
    <3>. QED BY <1>15, <3>1, <3>2 DEF PlaceInv
  <2>11. HandledInv'
    <3>1. e \in handled
      <4>1. e \in Elements(notices[w])
        BY <1>3, OneElement
      <4>. QED BY <1>17, <4>1 DEF HandledInv
    <3>2. \A d \in Clients : replies'[d] # << >> => Asked(d)' \in handled'
      BY <1>1, <1>15, <2>2, <2>5, <3>1 DEF HandledInv
    <3>. QED BY <1>14, <3>2 DEF HandledInv
  <2>12. Served' = Served \cup {c} /\ c \notin Served
    <3>1. <<0>> # << >>
      BY OneElement
    <3>. QED BY <1>1, <2>2, <2>5, <3>1 DEF Served, Found
  <2>13. ServedInv'
    <3>1. IsFiniteSet(Served) /\ Cardinality(Served) = serviced_requests
      BY DEF ServedInv
    <3>2. IsFiniteSet(Served') /\ Cardinality(Served') = Cardinality(Served) + 1
      BY <2>12, <3>1, FS_AddElement
    <3>. QED BY <2>4, <3>1, <3>2 DEF ServedInv
  <2>. QED BY <1>6, <1>7, <1>13, <2>8, <2>10, <2>11, <2>13
<1>. QED BY <1>16, <1>17

\* The request of a client goes to the worker that has been idle longest, which the
\* backend knows and which has nothing else.
LEMMA FrontendMoves ==
    ASSUME BalancerInv, NEW c \in Clients, FrontendFrom(c), UNCHANGED <<workerVars, clientVars>>
    PROVE  BalancerInv'
<1>. USE DEF BalancerInv, BalancerTypes
<1>1. /\ bpc = "frontend" /\ requests[c] # << >>
      /\ worker_queue' = Tail(worker_queue)
      /\ requests' = [requests EXCEPT ![c] = Tail(@)]
      /\ bpc' = "poll"
      /\ UNCHANGED <<frontend_ready, serviced_requests, outbox, routes, replies, notices, attached,
                     wpc, job, handled, cpc>>
  BY DEF FrontendFrom, FrontRemoved, workerVars, clientVars
<1>2. /\ tasks \in [Workers -> Seq(Task)] /\ worker_queue \in Seq(Workers)
      /\ requests \in [Clients -> Seq(Nat)] /\ worker_queue # << >>
  BY <1>1 DEF SocketsTypeOK, BrokerTypeOK, PolledInv
<1>3. PICK w \in Workers : w = Head(worker_queue) /\ IsQueued(w)
  BY <1>2, TailFacts DEF IsQueued
<1>4. /\ worker_queue' \in Seq(Workers)
      /\ Elements(worker_queue') = Elements(worker_queue) \ {w}
      /\ Injective(worker_queue')
  BY <1>1, <1>2, <1>3, TailFacts DEF ShapeInv
<1>5. wpc[w] = "recv" /\ w \in attached /\ notices[w] = << >> /\ tasks[w] = << >>
  BY <1>3 DEF ShapeInv, WorkerShape
<1>6. cpc[c] = "wait" /\ c \in routes /\ Found(c, << >>, <<0>>, {}, << >>)
  BY <1>1 DEF PlaceInv, OnePlace, Found
<1>7. Head(<<0>>) = 0 /\ Tail(<<0>>) = << >>
  BY OneElement
<1>8. Asked(c) \in Task /\ Asked(c) # Ready /\ ClientId(c) = c
  BY TaskFacts
<1>9. tasks' = Dispatched(w, Asked(c))
  BY <1>3, <1>6, <1>7, <1>8 DEF FrontendFrom, Asked, Found
<1>10. tasks'[w] = <<Asked(c)>> /\ \A v \in Workers \ {w} : tasks'[v] = tasks[v]
  <2>1. Append(<< >>, Asked(c)) = <<Asked(c)>>
    BY <1>8, OneElement
  <2>. QED BY <1>5, <1>9, <2>1 DEF Dispatched
<1>11. requests'[c] = << >> /\ \A d \in Clients \ {c} : requests'[d] = requests[d]
  BY <1>1, <1>2, <1>6, <1>7 DEF Found
<1>12. BalancerTypes'
  <2>1. tasks' \in [Workers -> Seq(Task)]
    <3>1. <<Asked(c)>> \in Seq(Task)
      BY <1>8, OneElement
    <3>2. \A v \in Workers : tasks'[v] \in Seq(Task)
      BY <1>2, <1>10, <3>1
    <3>3. tasks' = [v \in Workers |-> tasks'[v]]
      BY <1>9 DEF Dispatched
    <3>. QED BY <3>2, <3>3
  <2>2. requests' \in [Clients -> Seq(Nat)]
    BY <1>1, <1>2, TailFacts
  <2>3. SocketsTypeOK'
    BY <1>1, <2>1, <2>2 DEF SocketsTypeOK
  <2>4. BrokerTypeOK' /\ WorkerTypeOK'
    BY <1>1, <1>4 DEF BrokerTypeOK, WorkerTypeOK
  <2>. QED BY <1>1, <2>3, <2>4
<1>13. PolledInv'
  BY <1>1 DEF PolledInv
<1>14. ShapeInv'
  <2>1. WorkerShape(w)'
    BY <1>1, <1>4, <1>5, <1>8, <1>10 DEF WorkerShape, IsQueued
  <2>2. \A v \in Workers \ {w} : WorkerShape(v)'
    <3> TAKE v \in Workers \ {w}
    <3>1. WorkerShape(v) /\ (IsQueued(v)' <=> IsQueued(v)) /\ tasks'[v] = tasks[v]
      BY <1>4, <1>10 DEF ShapeInv, IsQueued
    <3>. QED BY <1>1, <3>1 DEF WorkerShape
  <2>. QED BY <1>1, <1>4, <2>1, <2>2 DEF ShapeInv
<1>15. InHand(w) = {} /\ InHand(w)' = {Asked(c)}
  <2>1. InHand(w) = HandOf(<< >>, << >>, "recv", job[w])
    BY <1>5 DEF InHand
  <2>2. InHand(w)' = HandOf(<<Asked(c)>>, << >>, "recv", job[w])
    BY <1>1, <1>5, <1>10 DEF InHand
  <2>3. HandOf(<<Asked(c)>>, << >>, "recv", job[w]) = {Asked(c)}
    BY <1>8, HandTakes
  <2>. QED BY <2>1, <2>2, <2>3, HandFacts
<1>16. \A v \in Workers \ {w} : InHand(v)' = InHand(v)
  BY <1>1, <1>10 DEF InHand
<1>17. \A d \in Clients : Asked(d)' = Asked(d)
  BY DEF Asked
<1>18. /\ Carriers(c)' = {w}
       /\ \A d \in Clients \ {c} : Carriers(d)' = Carriers(d)
  <2>1. \A v \in Workers \ {w} : Asked(c) \notin InHand(v)'
    BY <1>6, <1>16 DEF Found, Carriers
  <2>2. \A d \in Clients \ {c} : Asked(d) \notin InHand(w)'
    BY <1>15, TaskFacts
  <2>. QED BY <1>15, <1>16, <1>17, <2>1, <2>2 DEF Carriers
<1>19. PlaceInv'
  <2>1. \A d \in Clients : OnePlace(d)'
    <3> TAKE d \in Clients
    <3>1. CASE d = c
      BY <1>1, <1>6, <1>11, <1>18, <3>1 DEF OnePlace, Found
    <3>2. CASE d # c
      BY <1>1, <1>11, <1>18, <3>2, PlaceKept DEF PlaceInv
    <3>. QED BY <3>1, <3>2
  <2>2. \A v \in Workers : InHand(v)' \subseteq {Asked(d) : d \in Clients}
    BY <1>15, <1>16 DEF PlaceInv
  <2>. QED BY <1>17, <2>1, <2>2 DEF PlaceInv
<1>20. HandledInv' /\ ServedInv'
  BY <1>1, <1>17 DEF HandledInv, ServedInv, Served
<1>. QED BY <1>12, <1>13, <1>14, <1>19, <1>20

-----------------------------------------------------------------------------
LEMMA BalancerInductive == BalancerSpec => []BalancerInv
<1>1. BalancerInit => BalancerInv
  BY InitBalancer
<1>2. BalancerInv /\ [BalancerNext]_balancerVars => BalancerInv'
  <2> SUFFICES ASSUME BalancerInv, [BalancerNext]_balancerVars
               PROVE  BalancerInv'
    OBVIOUS
  <2>1. ASSUME NEW c \in Clients, ClientStep(c) \/ NetworkStep(c)
        PROVE  BalancerInv'
    BY <2>1, ClientMoves, NetworkMoves
  <2>2. ASSUME NEW w \in Workers, WorkerStep(w)
        PROVE  BalancerInv'
    BY <2>2, WorkerMoves
  <2>3. CASE MainStep \/ Interrupt
    BY <2>3, LoopMoves, BackendMoves, FrontendMoves DEF MainStep, LoopStep, Broker
  <2>4. CASE UNCHANGED balancerVars
    <3>1. UNCHANGED <<brokerVars, workerVars, socketVars, cpc>>
      BY <2>4 DEF balancerVars, clientVars
    <3>2. /\ PolledInv' /\ ShapeInv' /\ BrokerTypeOK' /\ WorkerTypeOK'
          /\ \A w \in Workers : InHand(w)' = InHand(w)
          /\ \A d \in Clients : Carriers(d)' = Carriers(d)
      BY <3>1, WorkersKept DEF socketVars
    <3>3. \A d \in Clients : OnePlace(d)' /\ Asked(d)' = Asked(d)
      BY <3>1, <3>2, PlaceKept DEF socketVars, BalancerInv, PlaceInv, Asked
    <3>4. PlaceInv'
      BY <3>2, <3>3 DEF BalancerInv, PlaceInv
    <3>5. SocketsTypeOK' /\ HandledInv' /\ ServedInv'
      BY <3>1 DEF socketVars, workerVars, brokerVars, BalancerInv, BalancerTypes, SocketsTypeOK,
                  HandledInv, ServedInv, Served, Asked
    <3>. QED BY <3>1, <3>2, <3>4, <3>5 DEF BalancerInv, BalancerTypes
  <2>. QED BY <2>1, <2>2, <2>3, <2>4 DEF BalancerNext
<1>. QED BY <1>1, <1>2, PTL DEF BalancerSpec

\* When the loop has counted one reply for each client, no client is without its own.
THEOREM BalancerServesAll == BalancerSpec => []AllServedAtExit
<1>1. BalancerInv => AllServedAtExit
  <2> SUFFICES ASSUME BalancerInv, serviced_requests = MAX_REQUESTS
               PROVE  Clients \subseteq Served
    BY DEF AllServedAtExit, Served
  <2>1. Served \subseteq Clients /\ IsFiniteSet(Clients)
    BY BalancerAssumption DEF Served
  <2>2. Cardinality(Served) = Cardinality(Clients)
    BY BalancerAssumption DEF BalancerInv, ServedInv
  <2>. QED BY <2>1, <2>2, FS_Subset
<1>. QED BY <1>1, BalancerInductive, PTL

\* A client's step is its request being submitted or completed; a worker's reply is
\* the request being handled, while its client waits; the rest is not seen.
LEMMA BalancerSimulates ==
    ASSUME BalancerInv, BalancerNext
    PROVE  Promise!Next \/ UNCHANGED Promise!vars
<1>. USE DEF BalancerInv, BalancerTypes
<1> DEFINE phase == [c \in Clients |-> IF cpc[c] = "wait" THEN "waiting" ELSE "idle"]
           current == [c \in Clients |-> IF cpc[c] = "done" THEN 1 ELSE 0]
<1>0. cpc \in [Clients -> {"send", "wait", "done"}]
  BY DEF SocketsTypeOK
<1>1. ASSUME NEW c \in Clients, ClientStep(c)
      PROVE  Promise!Next
  <2>1. handled' = handled
    BY <1>1 DEF ClientStep, workerVars
  <2>2. CASE ClientSend(c)
    <3>1. cpc[c] = "send" /\ cpc' = [cpc EXCEPT ![c] = "wait"]
      BY <2>2 DEF ClientSend
    <3>2. phase[c] = "idle" /\ current[c] < 1
      BY <3>1
    <3>3. phase' = [phase EXCEPT ![c] = "waiting"]
      BY <1>0, <3>1
    <3>4. current' = current
      BY <1>0, <3>1
    <3>5. Promise!Submit(c)
      BY <2>1, <3>2, <3>3, <3>4 DEF Promise!Submit
    <3>. QED BY <3>5 DEF Promise!Next
  <2>3. CASE ClientReceive(c)
    <3>1. cpc[c] = "wait" /\ cpc' = [cpc EXCEPT ![c] = "done"] /\ replies[c] # << >>
      BY <2>3 DEF ClientReceive
    <3>2. Asked(c) \in handled
      BY <3>1 DEF HandledInv
    <3>3. phase[c] = "waiting" /\ current[c] = 0
      BY <3>1
    <3>4. phase' = [phase EXCEPT ![c] = "idle"]
      BY <1>0, <3>1
    <3>5. current' = [current EXCEPT ![c] = @ + 1]
      <4>1. current' = [current EXCEPT ![c] = 1]
        BY <1>0, <3>1
      <4>2. current[c] + 1 = 1
        BY <3>3
      <4> HIDE DEF current
      <4>. QED BY <4>1, <4>2
    <3>6. Promise!Request(c) \in handled
      <4>1. Promise!Request(c) = [client |-> c, seq |-> current[c]]
        BY DEF Promise!Request
      <4>. QED BY <3>2, <3>3, <4>1 DEF Asked
    <3>7. Promise!Complete(c)
      BY <2>1, <3>3, <3>4, <3>5, <3>6 DEF Promise!Complete
    <3>. QED BY <3>7 DEF Promise!Next
  <2>. QED BY <1>1, <2>2, <2>3 DEF ClientStep
<1>2. ASSUME NEW c \in Clients, NetworkStep(c)
      PROVE  UNCHANGED Promise!vars
  BY <1>2 DEF NetworkStep, workerVars, clientVars, Promise!vars
<1>3. ASSUME NEW w \in Workers, WorkerStep(w)
      PROVE  Promise!Next \/ UNCHANGED Promise!vars
  <2>0. cpc' = cpc
    BY <1>3 DEF WorkerStep, clientVars
  <2>1. CASE WorkerStart(w) \/ WorkerReceive(w)
    BY <2>0, <2>1 DEF WorkerStart, WorkerReceive, Promise!vars
  <2>2. CASE WorkerReply(w)
    <3>1. wpc[w] = "busy" /\ handled' = handled \cup {job[w]}
      BY <2>2 DEF WorkerReply
    <3>2. job[w] \in InHand(w)
      BY <3>1 DEF InHand, HandOf
    <3>3. PICK c \in Clients : job[w] = Asked(c) /\ cpc[c] = "wait"
      BY <3>2, HandIs
    <3>4. Promise!Handle(c)
      BY <2>0, <3>1, <3>3 DEF Promise!Handle, Promise!Request, Asked
    <3>. QED BY <3>4 DEF Promise!Next
  <2>. QED BY <1>3, <2>1, <2>2 DEF WorkerStep, Worker
<1>4. CASE MainStep \/ Interrupt
  BY <1>4 DEF MainStep, LoopStep, Interrupt, Terminate, workerVars, clientVars, Promise!vars
<1>. QED BY <1>1, <1>2, <1>3, <1>4 DEF BalancerNext

\* The load balancer keeps the promise of AtLeastOnce, with one request per client
\* and nobody giving up.
THEOREM BalancerKeepsPromise == BalancerSpec => ImplementsAtLeastOnce
<1>1. BalancerInit => Promise!Init
  BY DEF BalancerInit, WorkerInit, Promise!Init
<1>2. BalancerInv /\ [BalancerNext]_balancerVars => [Promise!Next]_(Promise!vars)
  <2> SUFFICES ASSUME BalancerInv, [BalancerNext]_balancerVars
               PROVE  [Promise!Next]_(Promise!vars)
    OBVIOUS
  <2>1. CASE BalancerNext
    BY <2>1, BalancerSimulates
  <2>2. CASE UNCHANGED balancerVars
    BY <2>2 DEF balancerVars, clientVars, workerVars, Promise!vars
  <2>. QED BY <2>1, <2>2
<1>. QED BY BalancerInductive, <1>1, <1>2, PTL DEF BalancerSpec, ImplementsAtLeastOnce, Promise!Spec
===============================================================================
