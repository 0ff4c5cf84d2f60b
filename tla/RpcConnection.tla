--------------------------- MODULE RpcConnection ---------------------------
(***************************************************************************)
(* RpcConnection over BaseConnection (DiscordRPCSDK): opening the socket,  *)
(* the handshake, the loop that reads frames and answers pings, concurrent *)
(* writes, and Close() called from any of them or by the owner.            *)
(*                                                                         *)
(* Two threads run: the coroutines take turns on the event loop, and the   *)
(* owner destroys the connection on a thread of asio's pool.  Close() is   *)
(* taken apart where it reads or writes what the other thread uses.        *)
(* Two threads inside BaseConnection::Close() at once race for asiosock;   *)
(* where that does not end the program, one of them goes first.            *)
(*                                                                         *)
(* A read or a write completes when the system has done it and resumes its *)
(* coroutine later; other coroutines may close the socket in between.  The *)
(* reader is the worker of DiscordClient: where AsyncOpen or AsyncRead     *)
(* returns, the step goes on as initialize() and the worker's loop do.     *)
(* The peer may send any frame; a frame is its opcode.                     *)
(***************************************************************************)
CONSTANT Writers   \* coroutines that call AsyncWrite(json)

Opcodes == {"Handshake", "Frame", "Close", "Ping", "Pong"}
\* What eight bytes that do not start at a header may be taken for.
Misread == Opcodes \cup {"garbage"}
Threads == {"loop", "owner"}

VARIABLES
  state,      \* RpcConnection::state
  isOpen,     \* BaseConnection::isOpen, asiosock is not null
  hooked,     \* the owner has set onDisconnect, as it does once AsyncOpen returns true
  reported,   \* how often onDisconnect has been called
  running,    \* *mRunning: ~DiscordClient has not begun
  closing,    \* for each thread, what it does next in Close()
  overlapped, \* history: a thread entered Close() past its test while the other one was there
  reader,     \* where the reader is suspended, or goes once its Close() returns
  opening,    \* the reader is inside AsyncOpen
  result,     \* of the reader's read, between its completion and the resumption
  opcode,     \* of the frame that is being read
  aligned,    \* the next byte of the stream is the first of a header
  writer,     \* for each writer, whether its write waits for the system or was taken
  sendFrame,  \* whose message it holds
  wire        \* history: frames were sent as written, crowded, or garbled

vars == <<state, isOpen, hooked, reported, running, closing, overlapped, reader, opening,
          result, opcode, aligned, writer, sendFrame, wire>>

link == <<state, isOpen, hooked>>
loss == <<reported, closing, overlapped>>
stream == <<result, opcode, aligned>>
buffer == <<sendFrame, wire>>

Reading == {"header", "payload"}
Over == {"ended", "threw", "crashed"}
\* "turn" is between *running and the test of state in AsyncRead, "leaving" and
\* "again" are in a Close() after which the reader ends or reads on.
Local == {"turn", "leaving", "again"}

\* Every variable holds a value its C++ counterpart can hold.
TypeOK ==
  /\ state \in {"Disconnected", "SentHandshake", "Connected"}
  /\ isOpen \in BOOLEAN
  /\ hooked \in BOOLEAN
  /\ reported \in {"never", "once", "again"}
  /\ running \in BOOLEAN
  /\ closing \in [Threads -> {"no", "test", "tell", "shut", "clear"}]
  /\ overlapped \in BOOLEAN
  /\ reader \in {"new", "handshake", "pong", "auth"} \cup Reading \cup Local \cup Over
  /\ opening \in BOOLEAN
  /\ result \in {"none", "full", "short", "error"}
  /\ opcode \in Misread
  /\ aligned \in BOOLEAN
  /\ writer \in [Writers -> {"idle", "writing", "taken"}]
  /\ sendFrame \in Writers \cup {"reader"}
  /\ wire \in {"clean", "crowded", "garbled"}

Init ==
  /\ state = "Disconnected"
  /\ isOpen = FALSE
  /\ hooked = FALSE
  /\ reported = "never"
  /\ running = TRUE
  /\ closing = [t \in Threads |-> "no"]
  /\ overlapped = FALSE
  /\ reader = "new"
  /\ opening = TRUE
  /\ result = "none"
  /\ opcode = "Handshake"
  /\ aligned = TRUE
  /\ writer = [w \in Writers |-> "idle"]
  /\ sendFrame = "reader"
  /\ wire = "clean"

-----------------------------------------------------------------------------
(* RpcConnection::Close(), by the thread t. *)

Inside == {"tell", "shut", "clear"}

\* The test that Close() begins with.
Close(t) ==
  IF state = "Disconnected"
  THEN closing' = [closing EXCEPT ![t] = "no"] /\ UNCHANGED overlapped
  ELSE /\ closing' = [closing EXCEPT ![t] = "tell"]
       /\ overlapped' = (overlapped \/ \E u \in Threads \ {t} : closing[u] \in Inside)

\* onDisconnect, unless the other thread has cleared state meanwhile.
Tell(t) ==
  /\ closing[t] = "tell"
  /\ closing' = [closing EXCEPT ![t] = "shut"]
  /\ reported' = IF ~hooked \/ state = "Disconnected" THEN reported
                 ELSE IF reported = "never" THEN "once" ELSE "again"
  /\ UNCHANGED <<link, running, overlapped, reader, opening, stream, writer, buffer>>

\* Mutant of Shut: connection->Close() is forgotten.
ShutNothing(t) ==
  /\ closing[t] = "shut"
  /\ closing' = [closing EXCEPT ![t] = "clear"]
  /\ UNCHANGED <<link, reported, running, overlapped, reader, opening, stream, writer, buffer>>

\* connection->Close().
Shut(t) ==
  /\ closing[t] = "shut"
  /\ closing' = [closing EXCEPT ![t] = "clear"]
  /\ isOpen' = FALSE
  /\ UNCHANGED <<state, hooked, reported, running, overlapped, reader, opening, stream,
                 writer, buffer>>

\* Mutant of Clear: state is not set.
ClearNothing(t) ==
  /\ closing[t] = "clear"
  /\ closing' = [closing EXCEPT ![t] = "no"]
  /\ UNCHANGED <<link, reported, running, overlapped, reader, opening, stream, writer, buffer>>

Clear(t) ==
  /\ closing[t] = "clear"
  /\ closing' = [closing EXCEPT ![t] = "no"]
  /\ state' = "Disconnected"
  /\ UNCHANGED <<isOpen, hooked, reported, running, overlapped, reader, opening, stream,
                 writer, buffer>>

\* A coroutine goes on when its Close() has returned; the others wait for it.
LoopIsFree == closing["loop"] = "no"

\* Mutant of SocketFails: the error of a read or a write is left to the next read.
SocketFailsQuietly == isOpen' = FALSE /\ UNCHANGED <<state, loss>>

\* BaseConnection closes its socket on an error, but not where it has read or
\* written a part; RpcConnection closes after it.
SocketFails ==
  /\ isOpen' = FALSE \/ UNCHANGED isOpen
  /\ Close("loop")
  /\ UNCHANGED <<state, reported>>

-----------------------------------------------------------------------------
(* The worker's loop, and AsyncOpen up to the first read. *)

\* while (*running).
NextTurn == reader' = IF running THEN "turn" ELSE "ended"

\* A read that starts on a socket that is gone dereferences a null pointer,
\* past the assert that says it cannot happen.
Read(where) == reader' = IF isOpen THEN where ELSE "crashed"

\* AsyncRead returns false at once when Disconnected, and the worker ends.
Turn ==
  /\ LoopIsFree
  /\ reader = "turn"
  /\ IF state = "Disconnected" THEN reader' = "ended" ELSE Read("header")
  /\ UNCHANGED <<link, loss, running, opening, stream, writer, buffer>>

\* AsyncRead or AsyncWrite has returned false after its Close().
Leave ==
  /\ LoopIsFree
  /\ reader = "leaving"
  /\ reader' = "ended"
  /\ UNCHANGED <<link, loss, running, opening, stream, writer, buffer>>

OpenFails ==
  /\ reader = "new"
  /\ reader' = "ended"
  /\ UNCHANGED <<link, loss, running, opening, stream, writer, buffer>>

Open ==
  /\ reader = "new"
  /\ isOpen' = TRUE
  /\ reader' = "handshake"
  /\ UNCHANGED <<state, hooked, loss, running, opening, stream, writer, buffer>>

HandshakeWritten ==
  /\ reader = "handshake"
  /\ state' = "SentHandshake"
  /\ reader' = "turn"
  /\ UNCHANGED <<isOpen, hooked, loss, running, opening, stream, writer, buffer>>

\* Close() does nothing, as state is still Disconnected; after a partial
\* write the socket stays open.
HandshakeFails ==
  /\ reader = "handshake"
  /\ isOpen' \in BOOLEAN
  /\ reader' = "ended"
  /\ UNCHANGED <<state, hooked, loss, running, opening, stream, writer, buffer>>

-----------------------------------------------------------------------------
(* AsyncRead. *)

\* Mutant of HeaderOpcodes: a header is not set before it is used.
HeaderOpcodesUnset == IF aligned THEN Opcodes \cup {"unset"} ELSE Misread

\* The opcodes the next eight bytes can be taken for.
HeaderOpcodes == IF aligned THEN Opcodes ELSE Misread

\* The system has read a header or a payload, or a part of it, or failed.
ReadCompletes ==
  /\ reader \in Reading
  /\ result = "none"
  /\ isOpen
  /\ result' \in {"full", "short", "error"}
  /\ opcode' \in IF reader = "payload" THEN {opcode} ELSE HeaderOpcodes
  /\ UNCHANGED <<link, loss, running, reader, opening, aligned, writer, buffer>>

\* A read the system had not completed is aborted when the socket is closed.
Resumes(outcome) ==
  /\ LoopIsFree
  /\ IF result = "none" THEN ~isOpen /\ outcome = "error" ELSE outcome = result
  /\ result' = "none"

ReadFails ==
  /\ reader \in Reading
  /\ \/ Resumes("error")
     \/ reader = "payload" /\ Resumes("short")
  /\ SocketFails
  /\ reader' = "leaving"
  /\ UNCHANGED <<hooked, running, opening, opcode, aligned, writer, buffer>>

\* Mutant of AfterCutShort: the worker reads on as initialize() lets it.
AfterCutShortReadOn == NextTurn /\ UNCHANGED <<closing, overlapped>>

AfterCutShort ==
  IF opening
  THEN NextTurn /\ UNCHANGED <<closing, overlapped>>
  ELSE reader' = "leaving" /\ Close("loop")

\* AsyncRead returns false without closing.  The worker's loop closes then,
\* but initialize() does not: the loop goes on to read the rest of the header
\* as if it were a header.
HeaderCutShort ==
  /\ reader = "header"
  /\ Resumes("short")
  /\ aligned' = FALSE
  /\ AfterCutShort
  /\ opening' = FALSE
  /\ UNCHANGED <<link, reported, running, opcode, writer, buffer>>

HeaderRead ==
  /\ reader = "header"
  /\ Resumes("full")
  /\ Read("payload")
  /\ UNCHANGED <<link, loss, running, opening, opcode, aligned, writer, buffer>>

\* The frame is complete: after its payload, or after a header of length 0.
Received(op) ==
  /\ reader \in Reading
  /\ opcode = op
  /\ Resumes("full")

\* AsyncOpen returns true, Connected only if the frame is Discord's READY;
\* the owner sets onDisconnect and writes the first request.
ReceiveFirstFrame ==
  /\ opening
  /\ Received("Frame")
  /\ state' \in {state, "Connected"}
  /\ opening' = FALSE
  /\ hooked' = TRUE
  /\ sendFrame' = "reader"
  /\ reader' = "auth"
  /\ UNCHANGED <<isOpen, loss, running, opcode, aligned, writer, wire>>

ReceiveFrame ==
  /\ ~opening
  /\ Received("Frame")
  /\ NextTurn
  /\ UNCHANGED <<link, loss, running, opening, opcode, aligned, writer, buffer>>

\* The payload of a frame is not the JSON it should be, or there is none and
\* the buffer that is parsed has not been written to.
ReceiveUnparsable ==
  /\ \E op \in {"Frame", "Close"} : Received(op)
  /\ reader' = "threw"
  /\ UNCHANGED <<link, loss, running, opening, opcode, aligned, writer, buffer>>

\* A Close frame, or an opcode the client must not receive.
ReceiveEnd ==
  /\ \E op \in Misread \ {"Frame", "Ping", "Pong"} : Received(op)
  /\ Close("loop")
  /\ reader' = "leaving"
  /\ UNCHANGED <<link, reported, running, opening, opcode, aligned, writer, buffer>>

\* Mutant of ReceivePing: the answer is put into sendFrame.
ReceivePingIntoSendFrame ==
  /\ Received("Ping")
  /\ reader' = IF isOpen THEN "pong" ELSE "again"
  /\ sendFrame' = "reader"
  /\ IF isOpen THEN UNCHANGED <<closing, overlapped>> ELSE Close("loop")
  /\ UNCHANGED <<link, reported, running, opening, opcode, aligned, writer, wire>>

\* The answer is written from the frame itself; without a socket that fails at once.
ReceivePing ==
  /\ Received("Ping")
  /\ IF isOpen
     THEN reader' = "pong" /\ UNCHANGED <<closing, overlapped>>
     ELSE reader' = "again" /\ Close("loop")
  /\ UNCHANGED <<link, reported, running, opening, opcode, aligned, writer, buffer>>

ReceivePong ==
  /\ Received("Pong")
  /\ Read("header")
  /\ UNCHANGED <<link, loss, running, opening, opcode, aligned, writer, buffer>>

PongWritten ==
  /\ LoopIsFree
  /\ reader = "pong"
  /\ isOpen
  /\ reader' = "header"
  /\ UNCHANGED <<link, loss, running, opening, stream, writer, buffer>>

PongFails ==
  /\ LoopIsFree
  /\ reader = "pong"
  /\ SocketFails
  /\ reader' = "again"
  /\ UNCHANGED <<hooked, running, opening, stream, writer, buffer>>

\* It has closed and leaves the switch, not the loop, which reads the next header
\* without another look at state.
ReadAgain ==
  /\ LoopIsFree
  /\ reader = "again"
  /\ Read("header")
  /\ UNCHANGED <<link, loss, running, opening, stream, writer, buffer>>

-----------------------------------------------------------------------------
(* AsyncWrite(json), and ~DiscordClient. *)

\* What is sent is what sendFrame holds by now.
Sent(whose) == wire' = IF wire = "clean" /\ sendFrame # whose THEN "garbled" ELSE wire

\* The request initialize() ends with.
FirstRequestWritten ==
  /\ LoopIsFree
  /\ reader = "auth"
  /\ isOpen
  /\ Sent("reader")
  /\ NextTurn
  /\ UNCHANGED <<link, loss, running, opening, stream, writer, sendFrame>>

\* Its Close() returns into initialize(), which ends; the loop finds Disconnected.
FirstRequestFails ==
  /\ LoopIsFree
  /\ reader = "auth"
  /\ SocketFails
  /\ reader' = "leaving"
  /\ UNCHANGED <<hooked, running, opening, stream, writer, buffer>>

\* AsyncWrite(data) fills sendFrame and starts to send it, which the system does
\* at once or, if the peer is slow to read, later.
StartWrite(w) ==
  /\ LoopIsFree
  /\ hooked
  /\ reader # "auth"
  /\ writer[w] = "idle"
  /\ isOpen
  /\ sendFrame' = w
  /\ wire' = IF \E v \in Writers : writer[v] = "writing" THEN "crowded" ELSE wire
  /\ \E how \in {"writing", "taken"} : writer' = [writer EXCEPT ![w] = how]
  /\ UNCHANGED <<link, loss, running, reader, opening, stream>>

\* Without a socket the write fails at once.
WriteRefused(w) ==
  /\ LoopIsFree
  /\ hooked
  /\ reader # "auth"
  /\ writer[w] = "idle"
  /\ ~isOpen
  /\ sendFrame' = w
  /\ Close("loop")
  /\ UNCHANGED <<link, reported, running, reader, opening, stream, writer, wire>>

WriteTaken(w) ==
  /\ writer[w] = "writing"
  /\ isOpen
  /\ writer' = [writer EXCEPT ![w] = "taken"]
  /\ Sent(w)
  /\ UNCHANGED <<link, loss, running, reader, opening, stream, sendFrame>>

Written(w) ==
  /\ LoopIsFree
  /\ writer[w] = "taken"
  /\ writer' = [writer EXCEPT ![w] = "idle"]
  /\ UNCHANGED <<link, loss, running, reader, opening, stream, buffer>>

\* The write was refused, partial, or aborted by a Close().
WriteFails(w) ==
  /\ LoopIsFree
  /\ writer[w] # "idle"
  /\ writer' = [writer EXCEPT ![w] = "idle"]
  /\ SocketFails
  /\ UNCHANGED <<hooked, running, reader, opening, stream, buffer>>

OwnerBegins ==
  /\ running
  /\ running' = FALSE
  /\ closing' = [closing EXCEPT !["owner"] = "test"]
  /\ UNCHANGED <<link, reported, overlapped, reader, opening, stream, writer, buffer>>

OwnerCloses ==
  /\ closing["owner"] = "test"
  /\ Close("owner")
  /\ UNCHANGED <<link, reported, running, reader, opening, stream, writer, buffer>>

-----------------------------------------------------------------------------
CloseStep(t) == Tell(t) \/ Shut(t) \/ Clear(t)

Resume ==
  \/ Turn \/ Leave \/ ReadAgain
  \/ ReadFails \/ HeaderCutShort \/ HeaderRead
  \/ ReceiveFirstFrame \/ ReceiveFrame \/ ReceiveUnparsable \/ ReceiveEnd
  \/ ReceivePing \/ ReceivePong \/ PongWritten \/ PongFails
  \/ FirstRequestWritten \/ FirstRequestFails

Next ==
  \/ OpenFails \/ Open \/ HandshakeWritten \/ HandshakeFails
  \/ ReadCompletes \/ Resume
  \/ \E w \in Writers : \/ StartWrite(w) \/ WriteRefused(w)
                         \/ WriteTaken(w) \/ Written(w) \/ WriteFails(w)
  \/ OwnerBegins \/ OwnerCloses
  \/ \E t \in Threads : CloseStep(t)

Spec == Init /\ [][Next]_vars

\* Both threads go on, and a coroutine whose operation has completed or was aborted
\* is resumed.  The peer need neither send nor take a byte.
Fairness ==
  /\ WF_vars(Resume /\ (reader \in Local \/ result # "none" \/ ~isOpen))
  /\ WF_vars(CloseStep("loop"))
  /\ WF_vars(CloseStep("owner") \/ OwnerCloses)
FairSpec == Spec /\ Fairness

-----------------------------------------------------------------------------
(* Properties. *)

\* Close() runs from failed reads, failed writes, Close frames and the owner, in any
\* order.  onDisconnect is called once, and has been when state says so; twice only
\* if the destructor's Close() was past its test together with a coroutine's, which
\* nothing in the code rules out.
LossReportedOnce ==
  /\ reported = "again" => overlapped /\ ~running
  /\ running /\ hooked /\ LoopIsFree => (reported = "once" <=> state = "Disconnected")

\* Until it is destroyed, a connection that takes itself for open has a socket, except
\* inside its own Close(); and once its callbacks are set one that is Disconnected has
\* none, so that no read of the coroutine stays pending behind a loss that was reported.
StateMeansOpen ==
  /\ running /\ state # "Disconnected" /\ LoopIsFree => isOpen
  /\ hooked /\ state = "Disconnected" => ~isOpen

\* Frames of a Connected connection are frames the peer sent: a stream read
\* out of step with its headers is never Connected, except by a reader that closes it.
ConnectedIsAligned == state = "Connected" => aligned \/ reader = "leaving"

\* A frame leaves as it was written, unless a request was begun while another one
\* had not been taken by the system: neither the handshake, the first request nor
\* the answer to a ping ever meets a request in sendFrame.
FramesAreIntact == wire # "garbled"

\* Where the reader is to its owner, to whom frames, pings and pongs are one read.
Place ==
  IF reader = "new" THEN "opening"
  ELSE IF reader = "handshake" THEN "handshake_write"
  ELSE IF reader = "auth" THEN "auth_write"
  ELSE IF reader \in Over THEN reader
  ELSE IF opening THEN "handshake_read" ELSE "reading"

\* To its owner the connection is what RpcLink says, whatever frames the peer sends.
Link == INSTANCE RpcLink WITH place <- Place, owned <- running
ImplementsRpcLink == Link!Spec

\* The owner's Close() came too early, before the handshake had been written: it found
\* Disconnected and returned, and the socket it left open stays open.
ClosedTooEarly == ~running /\ closing["owner"] = "no" /\ isOpen

\* Close() alone ends the reader, even if the peer never sends a byte again: after any
\* loss, and when the owner destroys the connection.  The exception is the owner's
\* Close() that came too early: the reader then waits for the peer's first frame.
CloseReleasesReader ==
  \/ state = "Disconnected" /\ reader \notin {"new", "handshake"}
  \/ ~running
  ~> \/ reader \in Over
     \/ reader \in {"new", "handshake"}
     \/ ClosedTooEarly

=============================================================================
