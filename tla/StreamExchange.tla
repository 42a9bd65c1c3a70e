--------------------------- MODULE StreamExchange ---------------------------
(***************************************************************************)
(* The programs of chapter 2 that move a message over a TCP stream chunk   *)
(* by chunk.  Four are clients of a server that is not in the repository:  *)
(* they write a message with a loop of write_some or a chain of handlers   *)
(* (02-03-01, 02-05-01), or read one of a fixed size with a loop of        *)
(* read_some or a chain of handlers (02-04-01, 02-06-01).  Two belong      *)
(* together, half-close (02-08-01, 02-08-02): both read to the end of the  *)
(* stream, and the server answers.  asio::write, asio::read and their      *)
(* asynchronous forms are such loops, too.                                 *)
(***************************************************************************)
EXTENDS Naturals, Sequences

CONSTANTS
  Sizes,         \* the sizes of the messages of the clients, or for them
  ResponseSize,  \* the size of the response of 02-08-02
  MessageSize,   \* MESSAGE_SIZE: what the readers of a fixed size read
  Window         \* bound: bytes under way in one direction

ASSUME StreamAssumption ==
  /\ Sizes \subseteq Nat \ {0}
  /\ ResponseSize \in Nat \ {0} /\ MessageSize \in Nat \ {0} /\ Window \in Nat \ {0}

ChunkWriters == {"write", "asyncwrite"}   \* 02-03-01, 02-05-01
ChunkReaders == {"read", "asyncread"}     \* 02-04-01, 02-06-01

Streams == {"request", "response"}
Programs == {"client", "server"}
Writer(s) == IF s = "request" THEN "client" ELSE "server"
Reader(s) == IF s = "request" THEN "server" ELSE "client"
Inbound(p) == IF p = "server" THEN "request" ELSE "response"
Outbound(p) == IF p = "client" THEN "request" ELSE "response"

VARIABLES
  kind,     \* the programs: a writer or a reader against a server of its own, or
            \*   "halfclose"
  size,     \* the size of the message of a stream
  written,  \* total_bytes_written
  putting,  \* bytes the last write_some took that are not counted yet
  wire,     \* the bytes under way; a byte is its number in the message
  eof,      \* the writer's end was shut down or closed
  buffer,   \* what the reader has stored
  read,     \* total_bytes_read
  getting,  \* bytes the last read_some stored that are not counted yet
  reset,    \* the connection is broken
  program   \* where a program is: "write", "shutdown", "read", "done", "failed"
            \*   (it threw, or reported an error), or "killed"

streamVars == <<written, putting, wire, buffer, read, getting>>
vars == <<kind, size, streamVars, eof, reset, program>>

Ended == {"done", "failed", "killed"}

TypeOK ==
  /\ kind \in ChunkWriters \cup ChunkReaders \cup {"halfclose"}
  /\ size \in [Streams -> Nat \ {0}]
  /\ \A s \in Streams :
       /\ written[s] + putting[s] \in 0 .. size[s]
       /\ read[s] + getting[s] \in
            0 .. IF kind \in ChunkReaders THEN MessageSize ELSE size[s]
       /\ Len(wire[s]) <= Window
       /\ Len(buffer[s]) = read[s] + getting[s]
  /\ eof \in [Streams -> BOOLEAN] /\ reset \in BOOLEAN
  /\ program \in [Programs -> {"write", "shutdown", "read"} \cup Ended]

\* The stream that a message of one of the sizes goes over; on the other one there
\* is nothing, or the response.
Message == IF kind \in ChunkReaders THEN "response" ELSE "request"

Init ==
  /\ kind \in ChunkWriters \cup ChunkReaders \cup {"halfclose"}
  /\ \E n \in Sizes :
       size = [s \in Streams |-> IF s = Message THEN n ELSE ResponseSize]
  /\ written = [s \in Streams |-> 0] /\ putting = [s \in Streams |-> 0]
  /\ wire = [s \in Streams |-> <<>>] /\ buffer = [s \in Streams |-> <<>>]
  /\ read = [s \in Streams |-> 0] /\ getting = [s \in Streams |-> 0]
  /\ eof = [s \in Streams |-> FALSE]
  /\ reset = FALSE
  /\ program = [p \in Programs |-> IF p = Writer(Message) THEN "write" ELSE "read"]

Numbers(first, last) == [i \in 1 .. last - first + 1 |-> first + i - 1]

-----------------------------------------------------------------------------
(* The end of a program, and the connection (external)                     *)

Goto(p, place) == program' = [program EXCEPT ![p] = place]

\* The socket is closed with the program: the peer sees the end of the stream, or
\* a reset if there was something left to read.
End(p, how) ==
  /\ Goto(p, how)
  /\ eof' = [eof EXCEPT ![Outbound(p)] = TRUE]
  /\ reset' = (reset \/ wire[Inbound(p)] # <<>>)

Kill(p) ==
  /\ program[p] \notin Ended
  /\ End(p, "killed")
  /\ UNCHANGED <<kind, size, streamVars>>

\* The network breaks the connection, or a write met an end that was closed.
Break ==
  /\ ~reset
  /\ \E p \in Programs : program[p] \notin Ended
  /\ reset' = TRUE
  /\ UNCHANGED <<kind, size, streamVars, eof, program>>

WrittenToClosed ==
  \E s \in Streams : wire[s] # <<>> /\ program[Reader(s)] \in Ended

\* An operation reports the broken connection; what was under way may be lost.  The
\* handler that would do so for 02-05-01 never runs.
Fail(p) ==
  /\ reset /\ program[p] \in {"write", "read", "shutdown"}
  /\ p = "client" => kind # "asyncwrite"
  /\ End(p, "failed")
  /\ UNCHANGED <<kind, size, streamVars>>

-----------------------------------------------------------------------------
(* Writing                                                                 *)

\* Mutated form: every chunk starts at the beginning of the message.
ChunkFromStart(s, n) == Numbers(1, n)

\* The buffer given to write_some: behind the bytes written so far.
Chunk(s, n) == Numbers(written[s] + 1, written[s] + n)

\* write_some takes at least one byte, and at most as many as fit.
WriteSome(s) ==
  /\ program[Writer(s)] = "write" /\ putting[s] = 0 /\ ~reset
  /\ \E n \in 1 .. size[s] - written[s] :
       /\ Len(wire[s]) + n <= Window
       /\ wire' = [wire EXCEPT ![s] = @ \o Chunk(s, n)]
       /\ putting' = [putting EXCEPT ![s] = n]
  /\ UNCHANGED <<kind, size, written, buffer, read, getting, eof, reset, program>>

\* total_bytes_written += ...; the loop goes on as long as that is less than the
\* length.
CountWritten(s, then) ==
  /\ program[Writer(s)] = "write" /\ putting[s] > 0
  /\ written' = [written EXCEPT ![s] = @ + putting[s]]
  /\ putting' = [putting EXCEPT ![s] = 0]
  /\ IF written'[s] # size[s] THEN UNCHANGED <<program, eof, reset>>
     ELSE IF then = "done" THEN End(Writer(s), "done")
     ELSE Goto(Writer(s), then) /\ UNCHANGED <<eof, reset>>
  /\ UNCHANGED <<kind, size, wire, buffer, read, getting>>

SyncWrites == kind = "write" /\ CountWritten("request", "done")

\* writeToSocket has returned, with a write initiated that nobody waits for: main
\* does not call ios.run(), and no handler ever runs.
AsyncMainReturns ==
  /\ kind = "asyncwrite" /\ program["client"] = "write"
  /\ End("client", "done")
  /\ UNCHANGED <<kind, size, streamVars>>

-----------------------------------------------------------------------------
(* Reading                                                                 *)

\* Mutated form: the buffer given to read_some does not shrink.
WholeRoom(s) == MessageSize

\* A read of a fixed size has room for the rest, a streambuf for everything, and so
\* has the server that the writers talk to.
Room(s) == IF kind \in ChunkReaders THEN MessageSize - read[s] ELSE Window

Stored(s, chunk) == SubSeq(buffer[s], 1, read[s]) \o chunk

ReadSome(s) ==
  /\ program[Reader(s)] = "read" /\ getting[s] = 0
  /\ \E n \in 1 .. Len(wire[s]) :
       /\ n <= Room(s)
       /\ buffer' = [buffer EXCEPT ![s] = Stored(s, SubSeq(wire[s], 1, n))]
       /\ wire' = [wire EXCEPT ![s] = SubSeq(@, n + 1, Len(@))]
       /\ getting' = [getting EXCEPT ![s] = n]
  /\ UNCHANGED <<kind, size, written, putting, read, eof, reset, program>>

\* total_bytes_read += ...; a loop with a fixed size ends when it is reached.
CountRead(s) ==
  /\ getting[s] > 0 /\ program[Reader(s)] = "read"
  /\ read' = [read EXCEPT ![s] = @ + getting[s]]
  /\ getting' = [getting EXCEPT ![s] = 0]
  /\ IF kind \in ChunkReaders /\ read'[s] = MessageSize
       THEN End(Reader(s), "done") ELSE UNCHANGED <<program, eof, reset>>
  /\ UNCHANGED <<kind, size, written, putting, wire, buffer>>

SyncReads == kind = "read" /\ CountRead("response")
AsyncReads == kind = "asyncread" /\ CountRead("response")

\* Mutated form: the code of the read is not looked at.
AtEofOrError(s) ==
  /\ program[Reader(s)] = "read" /\ getting[s] = 0
  /\ (eof[s] /\ wire[s] = <<>>) \/ reset

AtEof(s) ==
  /\ program[Reader(s)] = "read" /\ getting[s] = 0
  /\ eof[s] /\ wire[s] = <<>> /\ ~reset

\* error::eof before the fixed size: thrown, or reported to the handler.
EofTooEarly ==
  /\ kind \in ChunkReaders /\ AtEof("response")
  /\ End("client", "failed")
  /\ UNCHANGED <<kind, size, streamVars>>

-----------------------------------------------------------------------------
(* The servers of the four clients (external): one reads to the end of the *)
(* stream, the other writes a message of some size; then they close.       *)

PeerReads == kind \in ChunkWriters /\ CountRead("request")

PeerFinishes ==
  /\ kind \in ChunkWriters /\ AtEof("request")
  /\ End("server", "done")
  /\ UNCHANGED <<kind, size, streamVars>>

PeerWrites == kind \in ChunkReaders /\ CountWritten("response", "done")

-----------------------------------------------------------------------------
(* Half-close: the end of the stream is the end of the message             *)

NothingToShutDown(p) == UNCHANGED <<eof, reset>>   \* mutated form
ShutDownSend(p) == eof' = [eof EXCEPT ![Outbound(p)] = TRUE] /\ UNCHANGED reset

ClientShutsDown ==
  /\ kind = "halfclose" /\ program["client"] = "shutdown" /\ ~reset
  /\ ShutDownSend("client")
  /\ Goto("client", "read")
  /\ UNCHANGED <<kind, size, streamVars>>

\* communicate: write, shutdown, read to the end of the stream.
Communicate ==
  \/ kind = "halfclose" /\ (CountWritten("request", "shutdown") \/ CountRead("response"))
  \/ ClientShutsDown
  \/ /\ kind = "halfclose" /\ AtEof("response")
     /\ End("client", "done")
     /\ UNCHANGED <<kind, size, streamVars>>

\* processRequest: read to the end of the stream, write, shutdown.
ProcessRequest ==
  \/ kind = "halfclose" /\ (CountRead("request") \/ CountWritten("response", "shutdown"))
  \/ /\ kind = "halfclose" /\ AtEof("request")
     /\ Goto("server", "write")
     /\ UNCHANGED <<kind, size, streamVars, eof, reset>>
  \/ /\ program["server"] = "shutdown" /\ ~reset
     /\ End("server", "done")
     /\ UNCHANGED <<kind, size, streamVars>>

-----------------------------------------------------------------------------

ProgramStep ==
  \/ \E s \in Streams : WriteSome(s) \/ ReadSome(s)
  \/ SyncWrites \/ SyncReads \/ AsyncMainReturns \/ AsyncReads \/ EofTooEarly
  \/ PeerReads \/ PeerFinishes \/ PeerWrites
  \/ Communicate \/ ProcessRequest
  \/ \E p \in Programs : Fail(p)

Finished == (\A p \in Programs : program[p] \in Ended) /\ UNCHANGED vars

Next == ProgramStep \/ Break \/ (\E p \in Programs : Kill(p)) \/ Finished

Spec == Init /\ [][Next]_vars

\* The programs go on, the servers of the four clients too unless they are killed;
\* and a write to a closed end is answered by a reset.
LiveSpec == Spec /\ WF_vars(ProgramStep) /\ WF_vars(WrittenToClosed /\ Break)

-----------------------------------------------------------------------------
(* Properties                                                              *)

\* However the chunks are cut, the reader has the bytes of the message, each once
\* and in order, and what is under way follows them.
BytesInOrder ==
  \A s \in Streams :
    LET all == buffer[s] \o wire[s] IN all = Numbers(1, Len(all))

\* The end of the stream means "all data was transfered" (02-08-01:22), unless the
\* program at the other end was killed: nobody shuts down with bytes to write, and
\* a broken connection is not taken for the end.
EofMeansWhole ==
  kind = "halfclose" =>
    /\ program["client"] = "done" =>
         buffer["response"] = Numbers(1, size["response"]) \/ program["server"] = "killed"
    /\ program["server"] \in {"write", "shutdown", "done"} =>
         buffer["request"] = Numbers(1, size["request"]) \/ program["client"] = "killed"

\* Both programs come to their end, whatever the chunks and whatever happens to
\* the other one: no reader waits for an end of the stream that does not come.
ExchangeEnds == <>(\A p \in Programs : program[p] \in Ended)
=============================================================================
