----------------------------- MODULE FileTransfer -----------------------------
(***************************************************************************)
(* filetransfer/file-send.cpp and file-receive.cpp: a file is sent as its  *)
(* size, the size of a chunk, the chunks and what remains, each message    *)
(* acknowledged by an empty one over a REQ and a REP socket.               *)
(*                                                                         *)
(* The i-th byte of the file is i, so what is written says where it came   *)
(* from; 0 is a byte no file has.                                          *)
(***************************************************************************)
EXTENDS Integers, Sequences

CONSTANTS UINT,        \* the number of values of an int (2^32)
          MaxFile,     \* model bound: bytes of a file
          MaxRounds    \* model bound: rounds of a loop that never ends

ASSUME WidthAssumption == UINT \in Nat \ {0} /\ UINT % 2 = 0
\* The bound stops only a loop whose end is never met.
ASSUME BoundAssumption == MaxFile \in Nat /\ MaxRounds \in Nat /\ MaxRounds >= MaxFile

VARIABLES
    fsize, arg,                            \* the file and the argument
    spc, rounds, i, pos, sbuf, awaiting,   \* the sender
    request, ack,                          \* on the connection
    rpc, fileSize, chunkSize, numChunks, n, rbuf, written   \* the receiver

inputVars    == <<fsize, arg>>
senderVars   == <<spc, rounds, i, pos, sbuf, awaiting>>
wireVars     == <<request, ack>>
receiverVars == <<rpc, fileSize, chunkSize, numChunks, n, rbuf, written>>
vars == <<inputVars, senderVars, wireVars, receiverVars>>

Smaller(a, b) == IF a <= b THEN a ELSE b

\* The sender's chunk; the receiver's copy of it is chunkSize.
chunk     == Smaller(fsize, arg)
remainder == fsize % chunk

\* Mutant: the size is sent as a short of half the width.
AsShort(s) == s % (UINT \div 2)
\* A size_t sent with the size of an int: its low bytes.
AsInt(s) == s % UINT

\* A size_t converted to int.
ToInt(s) == LET low == s % UINT IN IF 2 * low < UINT THEN low ELSE low - UINT

NoBytes == << >>
Byte == 0 .. MaxFile
Blank(len) == [k \in 1 .. len |-> 0]

\* Mutant: a last partial round is counted as well.
RoundedUp(size, c) == {ToInt((size + c - 1) \div c)}

\* How often "for(int i = 0; i != count; ++i)" goes round.  A negative count is
\* met only if i wraps, which is undefined: it may also never be met.
Rounds(size, c) ==
    LET count == ToInt(size \div c) IN IF count >= 0 THEN {count} ELSE {count + UINT, -1}

TypeOK ==
    /\ fsize \in Byte /\ arg \in Nat
    /\ spc \in {"start", "size", "chunk", "loop", "close", "done", "aborted"}
    /\ rounds \in -1 .. UINT /\ i \in Nat /\ pos \in 0 .. fsize
    /\ sbuf \in Seq(Byte) /\ Len(sbuf) = IF spc \in {"start", "aborted"} THEN 0 ELSE chunk
    /\ awaiting \in BOOLEAN /\ ack \in BOOLEAN
    /\ request \in Seq(Seq(Byte))
    /\ rpc \in {"start", "size", "chunk", "loop", "write", "writerest", "done", "crashed"}
    /\ fileSize \in Byte /\ chunkSize \in Byte
    /\ numChunks \in -1 .. UINT /\ n \in Nat
    /\ rbuf \in Seq(Byte) /\ Len(rbuf) = chunkSize
    /\ written \in Seq(Byte)

Init ==
    /\ fsize \in 0 .. MaxFile /\ arg \in 0 .. MaxFile
    /\ spc = "start" /\ rounds = 0 /\ i = 0 /\ pos = 0 /\ sbuf = NoBytes /\ awaiting = FALSE
    /\ request = NoBytes /\ ack = FALSE
    /\ rpc = "start" /\ fileSize = 0 /\ chunkSize = 0 /\ numChunks = 0 /\ n = 0
    /\ rbuf = NoBytes /\ written = NoBytes

-----------------------------------------------------------------------------
(* The sender.  Its REQ socket sends a message only when the last one has   *)
(* been acknowledged.                                                       *)

\* An empty file or chunk fails an assertion.
SenderStart ==
    /\ spc = "start"
    /\ \/ /\ chunk = 0
          /\ spc' = "aborted"
          /\ UNCHANGED <<rounds, sbuf>>
       \/ /\ chunk > 0
          /\ rounds' \in Rounds(fsize, chunk)
          /\ sbuf' = Blank(chunk)
          /\ spc' = "size"
    /\ UNCHANGED <<inputVars, i, pos, awaiting, wireVars, receiverVars>>

Send(at, msg, next) ==
    /\ spc = at
    /\ ~awaiting
    /\ request' = <<msg>>
    /\ awaiting' = TRUE
    /\ spc' = next
    /\ UNCHANGED <<inputVars, rounds, ack, receiverVars>>

SendSize      == Send("size", <<fsize>>, "chunk") /\ UNCHANGED <<i, pos, sbuf>>
SendChunkSize == Send("chunk", <<AsInt(chunk)>>, "loop") /\ UNCHANGED <<i, pos, sbuf>>

\* is.read: at the end of the file, what it cannot read stays as it was.
Read(len) ==
    /\ sbuf' = [k \in 1 .. chunk |-> IF k <= len /\ pos + k <= fsize THEN pos + k ELSE sbuf[k]]
    /\ pos' = Smaller(pos + len, fsize)

SendChunk ==
    /\ spc = "loop"
    /\ i # rounds
    /\ i < MaxRounds
    /\ Read(chunk)
    /\ Send("loop", sbuf', "loop")
    /\ i' = i + 1

SendRest ==
    /\ spc = "loop"
    /\ i = rounds
    /\ remainder # 0
    /\ Read(remainder)
    /\ Send("loop", SubSeq(sbuf', 1, remainder), "close")
    /\ UNCHANGED i

GetAck ==
    /\ awaiting
    /\ ack
    /\ awaiting' = FALSE
    /\ ack' = FALSE
    /\ UNCHANGED <<inputVars, spc, rounds, i, pos, sbuf, request, receiverVars>>

SenderClose ==
    /\ ~awaiting
    /\ \/ spc = "close"
       \/ spc = "loop" /\ i = rounds /\ remainder = 0
    /\ spc' = "done"
    /\ UNCHANGED <<inputVars, rounds, i, pos, sbuf, awaiting, wireVars, receiverVars>>

-----------------------------------------------------------------------------
(* The receiver acknowledges a message as soon as it has read it.            *)

ReceiverStart ==
    /\ rpc = "start"
    /\ rpc' = "size"
    /\ UNCHANGED <<inputVars, senderVars, wireVars, fileSize, chunkSize, numChunks, n, rbuf, written>>

Receive(at, next) ==
    /\ rpc = at
    /\ request # NoBytes
    /\ request' = NoBytes
    /\ ack' = TRUE
    /\ rpc' = next
    /\ UNCHANGED <<inputVars, senderVars, written>>

Message == request[1]

ReceiveSize ==
    /\ Receive("size", "chunk")
    /\ fileSize' = Message[1]
    /\ UNCHANGED <<chunkSize, numChunks, n, rbuf>>

\* A chunk of zero bytes makes the division trap, after the acknowledgement.
ReceiveChunkSize ==
    /\ \/ /\ Receive("chunk", "crashed")
          /\ Message[1] = 0
          /\ UNCHANGED <<chunkSize, numChunks, rbuf>>
       \/ /\ Receive("chunk", "loop")
          /\ Message[1] > 0
          /\ chunkSize' = Message[1]
          /\ numChunks' \in Rounds(fileSize, Message[1])
          /\ rbuf' = Blank(Message[1])
    /\ UNCHANGED <<fileSize, n>>

\* zmq_recv: what does not fit is cut off, what is not received stays as it was.
Stored(m, len) ==
    [k \in 1 .. chunkSize |-> IF k <= Smaller(len, Len(m)) THEN m[k] ELSE rbuf[k]]

ReceiveChunk ==
    /\ rpc = "loop"
    /\ n # numChunks
    /\ n < MaxRounds
    /\ Receive("loop", "write")
    /\ rbuf' = Stored(Message, chunkSize)
    /\ UNCHANGED <<fileSize, chunkSize, numChunks, n>>

WriteChunk ==
    /\ rpc = "write"
    /\ written' = written \o rbuf
    /\ n' = n + 1
    /\ rpc' = "loop"
    /\ UNCHANGED <<inputVars, senderVars, wireVars, fileSize, chunkSize, numChunks, rbuf>>

\* Mutant: the rest of a file is a whole chunk.
WholeChunk == chunkSize
Rest == fileSize % chunkSize

ReceiveRest ==
    /\ rpc = "loop"
    /\ n = numChunks
    /\ Rest # 0
    /\ Receive("loop", "writerest")
    /\ rbuf' = Stored(Message, Rest)
    /\ UNCHANGED <<fileSize, chunkSize, numChunks, n>>

WriteRest ==
    /\ rpc = "writerest"
    /\ written' = written \o SubSeq(rbuf, 1, Rest)
    /\ rpc' = "done"
    /\ UNCHANGED <<inputVars, senderVars, wireVars, fileSize, chunkSize, numChunks, n, rbuf>>

ReceiverClose ==
    /\ rpc = "loop" /\ n = numChunks /\ Rest = 0
    /\ rpc' = "done"
    /\ UNCHANGED <<inputVars, senderVars, wireVars, fileSize, chunkSize, numChunks, n, rbuf, written>>

-----------------------------------------------------------------------------
Sender   == SendSize \/ SendChunkSize \/ SendChunk \/ SendRest \/ GetAck \/ SenderClose
Receiver == \/ ReceiveSize \/ ReceiveChunkSize \/ ReceiveChunk \/ ReceiveRest
            \/ WriteChunk \/ WriteRest \/ ReceiverClose

Next == SenderStart \/ ReceiverStart \/ Sender \/ Receiver

\* A process that was started goes on; nobody has to start one.
Fairness == WF_vars(Sender) /\ WF_vars(Receiver)

Spec     == Init /\ [][Next]_vars
FairSpec == Spec /\ Fairness

-----------------------------------------------------------------------------
\* The sizes the program is written for: those an int can hold.
Fits == chunk \in 1 .. UINT - 1 /\ 2 * (fsize \div chunk) < UINT

\* The bytes that were acknowledged and are yet to be written.
Held == IF rpc = "write" THEN chunkSize ELSE IF rpc = "writerest" THEN Rest ELSE 0

\* What is written is the beginning of the file, although neither the chunks nor
\* their number are checked against the sizes sent before (file-receive.cpp:43-54);
\* this holds also where the number of chunks is cut to an int, if the chunk fits
\* and neither loop is endless.
WrittenIsPrefix ==
    chunk < UINT /\ -1 \notin {rounds, numChunks} =>
        Len(written) <= fsize /\ \A k \in 1 .. Len(written) : written[k] = k

\* An acknowledgement comes before the write (file-receive.cpp:44-47): what the
\* sender knows to have arrived is written, but for one piece in the receiver's
\* buffer, which has the size of a chunk (TypeOK).
AckedIsHeld == TypeOK /\ (Fits /\ ~awaiting => Len(written) + Held = pos)

\* When both programs are started on sizes that fit they both end, and leave the
\* whole file: as many pieces are expected as are sent (file-send.cpp:54 and :57
\* against file-receive.cpp:41).
TransferCompletes ==
    Fits /\ spc # "start" /\ rpc # "start"
        ~> spc = "done" /\ rpc = "done" /\ Len(written) = fsize
=============================================================================
