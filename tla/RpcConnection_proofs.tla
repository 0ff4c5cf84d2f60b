------------------------ MODULE RpcConnection_proofs ------------------------
(* Theorems about RpcConnection, for every set of writers. *)
EXTENDS RpcConnection, TLAPS

\* Nobody else is in Close() while the connection is not being destroyed, and what
\* onDisconnect has been told agrees with how far the coroutine's Close() has come.
ReportInv ==
  /\ ~hooked => reported = "never"
  /\ closing["owner"] # "no" \/ overlapped => ~running
  /\ running /\ hooked =>
       /\ closing["loop"] = "no" => (state = "Disconnected" <=> reported = "once")
       /\ closing["loop"] = "no" /\ state # "Disconnected" => reported = "never"
       /\ closing["loop"] = "tell" => state # "Disconnected" /\ reported = "never"
       /\ closing["loop"] \in {"shut", "clear"} => state # "Disconnected" /\ reported = "once"

\* Where no two threads were in Close() together, the one that has told clears state
\* before another one may tell.
OverlapInv ==
  ~overlapped =>
    /\ reported # "again"
    /\ ~(closing["loop"] \in Inside /\ closing["owner"] \in Inside)
    /\ state # "Disconnected" /\ reported # "never" =>
         closing["loop"] \in {"shut", "clear"} \/ closing["owner"] \in {"shut", "clear"}

\* Until AsyncOpen has returned true only the reader and the owner close, and nobody
\* before the handshake is written.
OpeningInv ==
  /\ reader \in {"new", "handshake"} =>
       /\ opening
       /\ state = "Disconnected"
       /\ closing["loop"] = "no"
       /\ closing["owner"] \in {"no", "test"}
  /\ reader = "handshake" => isOpen
  /\ opening => ~hooked
  /\ running /\ opening /\ reader \in Reading \cup {"pong", "turn"} =>
       state = "SentHandshake" /\ closing["loop"] = "no"
  /\ reader = "auth" => hooked
  /\ \A w \in Writers : writer[w] # "idle" => hooked
  /\ closing["loop"] # "test"
  /\ reader \in {"leaving", "again"} /\ closing["loop"] = "no" => state = "Disconnected"

\* Nor does an open connection, once its handshake is written, outlive its state.
SocketInv ==
  /\ running /\ state # "Disconnected" /\ closing["loop"] = "no" => isOpen
  /\ \/ hooked
     \/ reader \in Reading \cup Local \cup {"pong"}
     \/ closing["loop"] \in Inside
     \/ closing["owner"] \in Inside
     => (state = "Disconnected" => ~isOpen)
  /\ closing["loop"] = "clear" \/ closing["owner"] = "clear" => ~isOpen

\* A stream that is out of step has never been, and never gets, Connected.
AlignedInv ==
  /\ opening => aligned
  /\ state = "Connected" => ~opening /\ (aligned \/ reader = "leaving")

\* While it can be sent, sendFrame holds the one request that waits, or the reader's.
FrameInv ==
  /\ wire # "garbled"
  /\ isOpen /\ wire = "clean" => \A w \in Writers : writer[w] = "writing" => sendFrame = w
  /\ reader = "auth" => sendFrame = "reader" /\ \A w \in Writers : writer[w] # "writing"

IInv == ReportInv /\ OverlapInv /\ OpeningInv /\ SocketInv /\ AlignedInv /\ FrameInv

LEMMA CloseType ==
  ASSUME TypeOK, NEW t \in Threads, Close(t)
  PROVE  /\ closing' \in [Threads -> {"no", "test", "tell", "shut", "clear"}]
         /\ overlapped' \in BOOLEAN
  BY DEF TypeOK, Close

LEMMA LoopCloses ==
  ASSUME TypeOK, Close("loop")
  PROVE  /\ closing'["owner"] = closing["owner"]
         /\ closing'["loop"] = IF state = "Disconnected" THEN "no" ELSE "tell"
         /\ overlapped => overlapped'
         /\ state # "Disconnected" /\ closing["owner"] \in Inside => overlapped'
         /\ overlapped' => overlapped \/ closing["owner"] \in Inside
  BY DEF TypeOK, Close, Threads

LEMMA SocketFailsType ==
  ASSUME TypeOK, SocketFails
  PROVE  /\ closing' \in [Threads -> {"no", "test", "tell", "shut", "clear"}]
         /\ overlapped' \in BOOLEAN
         /\ isOpen' \in BOOLEAN
         /\ state' \in {"Disconnected", "SentHandshake", "Connected"}
         /\ reported' \in {"never", "once", "again"}
<1>1. "loop" \in Threads /\ Close("loop")
  BY DEF SocketFails, Threads
<1>2. /\ closing' \in [Threads -> {"no", "test", "tell", "shut", "clear"}]
      /\ overlapped' \in BOOLEAN
  BY <1>1, CloseType
<1>3. QED
  BY <1>2 DEF SocketFails, TypeOK

LEMMA TypeInit == Init => TypeOK
  BY DEF Init, TypeOK, Misread, Opcodes

LEMMA TypeStep == TypeOK /\ [Next]_vars => TypeOK'
<1> SUFFICES ASSUME TypeOK, [Next]_vars PROVE TypeOK'
  OBVIOUS
<1> USE DEF TypeOK, Misread, Opcodes, Reading, Local, Over, Threads, link, loss, stream, buffer, Sent
<1>1. CASE OpenFails
  BY <1>1 DEF OpenFails
<1>2. CASE Open
  BY <1>2 DEF Open
<1>3. CASE HandshakeWritten
  BY <1>3 DEF HandshakeWritten
<1>4. CASE HandshakeFails
  BY <1>4 DEF HandshakeFails
<1>5. CASE ReadCompletes
  BY <1>5 DEF ReadCompletes, HeaderOpcodes
<1>6. CASE Turn
  BY <1>6 DEF Turn, LoopIsFree, Read
<1>7. CASE Leave
  BY <1>7 DEF Leave, LoopIsFree
<1>8. CASE ReadFails
  BY <1>8, SocketFailsType DEF ReadFails, Resumes, LoopIsFree
<1>9. CASE HeaderCutShort
  <2>1. /\ closing' \in [Threads -> {"no", "test", "tell", "shut", "clear"}]
        /\ overlapped' \in BOOLEAN
    BY <1>9, CloseType DEF HeaderCutShort, AfterCutShort
  <2>2. opening' \in BOOLEAN /\ aligned' \in BOOLEAN
    BY <1>9, Zenon DEF HeaderCutShort
  <2>3. reader' \in Local \cup Over
    BY <1>9 DEF HeaderCutShort, AfterCutShort, NextTurn
  <2>4. QED
    BY <1>9, <2>1, <2>2, <2>3 DEF HeaderCutShort, Resumes
<1>10. CASE HeaderRead
  BY <1>10 DEF HeaderRead, Resumes, LoopIsFree, Read
<1>11. CASE ReceiveFirstFrame
  BY <1>11 DEF ReceiveFirstFrame, Received, Resumes, LoopIsFree
<1>12. CASE ReceiveFrame
  BY <1>12 DEF ReceiveFrame, Received, Resumes, LoopIsFree, NextTurn
<1>13. CASE ReceiveUnparsable
  BY <1>13 DEF ReceiveUnparsable, Received, Resumes, LoopIsFree
<1>14. CASE ReceiveEnd
  BY <1>14, CloseType DEF ReceiveEnd, Received, Resumes, LoopIsFree
<1>15. CASE ReceivePing
  BY <1>15, CloseType DEF ReceivePing, Received, Resumes, LoopIsFree
<1>16. CASE ReceivePong
  BY <1>16 DEF ReceivePong, Received, Resumes, LoopIsFree, Read
<1>17. CASE PongWritten
  BY <1>17 DEF PongWritten, LoopIsFree
<1>18. CASE PongFails
  BY <1>18, SocketFailsType DEF PongFails, LoopIsFree
<1>19. CASE ReadAgain
  BY <1>19 DEF ReadAgain, LoopIsFree, Read
<1>20. CASE FirstRequestWritten
  BY <1>20 DEF FirstRequestWritten, LoopIsFree, NextTurn
<1>21. CASE FirstRequestFails
  BY <1>21, SocketFailsType DEF FirstRequestFails, LoopIsFree
<1>22. CASE OwnerBegins
  <2>1. closing' \in [Threads -> {"no", "test", "tell", "shut", "clear"}]
    BY <1>22 DEF OwnerBegins
  <2>2. running' \in BOOLEAN
    BY <1>22, Zenon DEF OwnerBegins
  <2>3. QED
    BY <1>22, <2>1, <2>2 DEF OwnerBegins
<1>23. CASE OwnerCloses
  BY <1>23, CloseType DEF OwnerCloses
<1>24. ASSUME NEW w \in Writers, StartWrite(w)
      PROVE  TypeOK'
  BY <1>24 DEF StartWrite, LoopIsFree
<1>25. ASSUME NEW w \in Writers, WriteRefused(w)
      PROVE  TypeOK'
  BY <1>25, CloseType DEF WriteRefused, LoopIsFree
<1>26. ASSUME NEW w \in Writers, WriteTaken(w)
      PROVE  TypeOK'
  BY <1>26 DEF WriteTaken
<1>27. ASSUME NEW w \in Writers, Written(w)
      PROVE  TypeOK'
  BY <1>27 DEF Written, LoopIsFree
<1>28. ASSUME NEW w \in Writers, WriteFails(w)
      PROVE  TypeOK'
  <2>1. writer' \in [Writers -> {"idle", "writing", "taken"}]
    BY <1>28 DEF WriteFails
  <2>2. QED
    BY <1>28, <2>1, SocketFailsType DEF WriteFails
<1>29. ASSUME NEW t \in Threads, Tell(t)
      PROVE  TypeOK'
  BY <1>29 DEF Tell
<1>30. ASSUME NEW t \in Threads, Shut(t)
      PROVE  TypeOK'
  <2>1. closing' \in [Threads -> {"no", "test", "tell", "shut", "clear"}]
    BY <1>30 DEF Shut
  <2>2. isOpen' \in BOOLEAN
    BY <1>30, Zenon DEF Shut
  <2>3. QED
    BY <1>30, <2>1, <2>2 DEF Shut
<1>31. ASSUME NEW t \in Threads, Clear(t)
      PROVE  TypeOK'
  BY <1>31 DEF Clear
<1>32. CASE UNCHANGED vars
  BY <1>32 DEF vars
<1>33. QED
  BY <1>1, <1>2, <1>3, <1>4, <1>5, <1>6, <1>7, <1>8, <1>9, <1>10, <1>11, <1>12, <1>13, <1>14,
     <1>15, <1>16, <1>17, <1>18, <1>19, <1>20, <1>21, <1>22, <1>23, <1>24, <1>25, <1>26, <1>27,
     <1>28, <1>29, <1>30, <1>31, <1>32 DEF Next, Resume, CloseStep

\* Every reachable state of a connection is well typed.
THEOREM ConnectionTypeCorrect == Spec => []TypeOK
  BY TypeInit, TypeStep, PTL DEF Spec

LEMMA InvInit == Init => IInv
  BY DEF Init, IInv, ReportInv, OverlapInv, OpeningInv, SocketInv, AlignedInv, FrameInv,
         Reading, Local, Inside, Threads

LEMMA InvStep == TypeOK /\ IInv /\ [Next]_vars => IInv'
<1> SUFFICES ASSUME TypeOK, IInv, [Next]_vars PROVE IInv'
  OBVIOUS
<1> USE DEF TypeOK, IInv, ReportInv, OverlapInv, OpeningInv, SocketInv, AlignedInv, FrameInv,
            Misread, Opcodes, Reading, Local, Over, Inside, Threads, link, loss, stream, buffer, Sent
<1>1. CASE OpenFails
  BY <1>1 DEF OpenFails
<1>2. CASE Open
  BY <1>2 DEF Open
<1>3. CASE HandshakeWritten
  BY <1>3 DEF HandshakeWritten
<1>4. CASE HandshakeFails
  BY <1>4 DEF HandshakeFails
<1>5. CASE ReadCompletes
  BY <1>5 DEF ReadCompletes, HeaderOpcodes
<1>6. CASE Turn
  BY <1>6 DEF Turn, LoopIsFree, Read
<1>7. CASE Leave
  BY <1>7 DEF Leave, LoopIsFree
<1>8. CASE ReadFails
  <2>1. CASE state = "Disconnected"
    BY <1>8, <2>1 DEF ReadFails, Resumes, LoopIsFree, SocketFails, Close
  <2>2. CASE state # "Disconnected"
    <3>1. Close("loop")
      BY <1>8 DEF ReadFails, SocketFails
    <3>2. ReportInv'
      BY <1>8, <2>2, <3>1, LoopCloses DEF ReadFails, Resumes, LoopIsFree, SocketFails
    <3>3. OverlapInv'
      BY <1>8, <2>2, <3>1, LoopCloses DEF ReadFails, Resumes, LoopIsFree, SocketFails
    <3>4. OpeningInv'
      BY <1>8, <2>2, <3>1, LoopCloses DEF ReadFails, Resumes, LoopIsFree, SocketFails
    <3>5. SocketInv'
      BY <1>8, <2>2, <3>1, LoopCloses DEF ReadFails, Resumes, LoopIsFree, SocketFails
    <3>6. AlignedInv' /\ FrameInv'
      BY <1>8, <2>2, <3>1, LoopCloses DEF ReadFails, Resumes, LoopIsFree, SocketFails
    <3>7. QED
      BY <3>2, <3>3, <3>4, <3>5, <3>6
  <2>3. QED
    BY <2>1, <2>2
<1>9. CASE HeaderCutShort
  BY <1>9 DEF HeaderCutShort, Resumes, LoopIsFree, AfterCutShort, NextTurn, Close
<1>10. CASE HeaderRead
  BY <1>10 DEF HeaderRead, Resumes, LoopIsFree, Read
<1>11. CASE ReceiveFirstFrame
  BY <1>11 DEF ReceiveFirstFrame, Received, Resumes, LoopIsFree
<1>12. CASE ReceiveFrame
  BY <1>12 DEF ReceiveFrame, Received, Resumes, LoopIsFree, NextTurn
<1>13. CASE ReceiveUnparsable
  BY <1>13 DEF ReceiveUnparsable, Received, Resumes, LoopIsFree
<1>14. CASE ReceiveEnd
  BY <1>14 DEF ReceiveEnd, Received, Resumes, LoopIsFree, Close
<1>15. CASE ReceivePing
  BY <1>15 DEF ReceivePing, Received, Resumes, LoopIsFree, Close
<1>16. CASE ReceivePong
  BY <1>16 DEF ReceivePong, Received, Resumes, LoopIsFree, Read
<1>17. CASE PongWritten
  BY <1>17 DEF PongWritten, LoopIsFree
<1>18. CASE PongFails
  <2>1. CASE state = "Disconnected"
    BY <1>18, <2>1 DEF PongFails, LoopIsFree, SocketFails, Close
  <2>2. CASE state # "Disconnected"
    <3>1. Close("loop")
      BY <1>18 DEF PongFails, SocketFails
    <3>2. ReportInv'
      BY <1>18, <2>2, <3>1, LoopCloses DEF PongFails, LoopIsFree, SocketFails
    <3>3. OverlapInv'
      BY <1>18, <2>2, <3>1, LoopCloses DEF PongFails, LoopIsFree, SocketFails
    <3>4. OpeningInv'
      BY <1>18, <2>2, <3>1, LoopCloses DEF PongFails, LoopIsFree, SocketFails
    <3>5. SocketInv'
      BY <1>18, <2>2, <3>1, LoopCloses DEF PongFails, LoopIsFree, SocketFails
    <3>6. AlignedInv' /\ FrameInv'
      BY <1>18, <2>2, <3>1, LoopCloses DEF PongFails, LoopIsFree, SocketFails
    <3>7. QED
      BY <3>2, <3>3, <3>4, <3>5, <3>6
  <2>3. QED
    BY <2>1, <2>2
<1>19. CASE ReadAgain
  BY <1>19 DEF ReadAgain, LoopIsFree, Read
<1>20. CASE FirstRequestWritten
  BY <1>20 DEF FirstRequestWritten, LoopIsFree, NextTurn
<1>21. CASE FirstRequestFails
  <2>1. CASE state = "Disconnected"
    BY <1>21, <2>1 DEF FirstRequestFails, LoopIsFree, SocketFails, Close
  <2>2. CASE state # "Disconnected"
    <3>1. Close("loop")
      BY <1>21 DEF FirstRequestFails, SocketFails
    <3>2. ReportInv'
      BY <1>21, <2>2, <3>1, LoopCloses DEF FirstRequestFails, LoopIsFree, SocketFails
    <3>3. OverlapInv'
      BY <1>21, <2>2, <3>1, LoopCloses DEF FirstRequestFails, LoopIsFree, SocketFails
    <3>4. OpeningInv'
      BY <1>21, <2>2, <3>1, LoopCloses DEF FirstRequestFails, LoopIsFree, SocketFails
    <3>5. SocketInv'
      BY <1>21, <2>2, <3>1, LoopCloses DEF FirstRequestFails, LoopIsFree, SocketFails
    <3>6. AlignedInv' /\ FrameInv'
      BY <1>21, <2>2, <3>1, LoopCloses DEF FirstRequestFails, LoopIsFree, SocketFails
    <3>7. QED
      BY <3>2, <3>3, <3>4, <3>5, <3>6
  <2>3. QED
    BY <2>1, <2>2
<1>22. CASE OwnerBegins
  BY <1>22 DEF OwnerBegins
<1>23. CASE OwnerCloses
  BY <1>23 DEF OwnerCloses, Close
<1>24. ASSUME NEW w \in Writers, StartWrite(w)
      PROVE  IInv'
  BY <1>24 DEF StartWrite, LoopIsFree
<1>25. ASSUME NEW w \in Writers, WriteRefused(w)
      PROVE  IInv'
  BY <1>25 DEF WriteRefused, LoopIsFree, Close
<1>26. ASSUME NEW w \in Writers, WriteTaken(w)
      PROVE  IInv'
  BY <1>26 DEF WriteTaken
<1>27. ASSUME NEW w \in Writers, Written(w)
      PROVE  IInv'
  BY <1>27 DEF Written, LoopIsFree
<1>28. ASSUME NEW w \in Writers, WriteFails(w)
      PROVE  IInv'
  <2>1. CASE state = "Disconnected"
    BY <1>28, <2>1 DEF WriteFails, LoopIsFree, SocketFails, Close
  <2>2. CASE state # "Disconnected"
    BY <1>28, <2>2 DEF WriteFails, LoopIsFree, SocketFails, Close
  <2>3. QED
    BY <2>1, <2>2
<1>29. ASSUME NEW t \in Threads, Tell(t)
      PROVE  IInv'
  BY <1>29 DEF Tell
<1>30. ASSUME NEW t \in Threads, Shut(t)
      PROVE  IInv'
  BY <1>30 DEF Shut
<1>31. ASSUME NEW t \in Threads, Clear(t)
      PROVE  IInv'
  BY <1>31 DEF Clear
<1>32. CASE UNCHANGED vars
  BY <1>32 DEF vars
<1>33. QED
  BY <1>1, <1>2, <1>3, <1>4, <1>5, <1>6, <1>7, <1>8, <1>9, <1>10, <1>11, <1>12, <1>13, <1>14,
     <1>15, <1>16, <1>17, <1>18, <1>19, <1>20, <1>21, <1>22, <1>23, <1>24, <1>25, <1>26, <1>27,
     <1>28, <1>29, <1>30, <1>31, <1>32 DEF Next, Resume, CloseStep

LEMMA Invariants == Spec => [](TypeOK /\ IInv)
  BY TypeInit, TypeStep, InvInit, InvStep, PTL DEF Spec

\* Every step of a connection is a step of the link, or one its owner does not see.
LEMMA LinkStep == TypeOK /\ IInv /\ [Next]_vars => [Link!Next]_Link!vars
<1> SUFFICES ASSUME TypeOK, IInv, [Next]_vars PROVE [Link!Next]_Link!vars
  OBVIOUS
<1> USE DEF TypeOK, IInv, OpeningInv, SocketInv, Place, Reading, Local, Over, Inside, Threads, link, loss,
            stream, buffer, Link!Next, Link!vars, Link!Goto, Link!Closing
<1>1. CASE OpenFails
  BY <1>1 DEF OpenFails, Link!Open
<1>2. CASE Open
  BY <1>2 DEF Open, Link!Open
<1>3. CASE HandshakeWritten
  BY <1>3 DEF HandshakeWritten, Link!SendHandshake
<1>4. CASE HandshakeFails
  BY <1>4 DEF HandshakeFails, Link!SendHandshake
<1>5. CASE ReadCompletes
  BY <1>5 DEF ReadCompletes, HeaderOpcodes
<1>6. CASE Turn
  BY <1>6 DEF Turn, LoopIsFree, Read, Link!Lose, Link!Refuse, Link!Crash
<1>7. CASE Leave
  BY <1>7 DEF Leave, LoopIsFree, Link!Lose, Link!Refuse
<1>8. CASE ReadFails
  BY <1>8 DEF ReadFails, Resumes, LoopIsFree, SocketFails, Close, Link!Closes
<1>9. CASE HeaderCutShort
  BY <1>9 DEF HeaderCutShort, Resumes, LoopIsFree, AfterCutShort, NextTurn, Close, Link!Refuse, Link!NextTurn, Link!Closes
<1>10. CASE HeaderRead
  BY <1>10 DEF HeaderRead, Resumes, LoopIsFree, Read, Link!Crash
<1>11. CASE ReceiveFirstFrame
  BY <1>11 DEF ReceiveFirstFrame, Received, Resumes, LoopIsFree, Link!Accept
<1>12. CASE ReceiveFrame
  BY <1>12 DEF ReceiveFrame, Received, Resumes, LoopIsFree, NextTurn, Link!Turn, Link!NextTurn
<1>13. CASE ReceiveUnparsable
  BY <1>13 DEF ReceiveUnparsable, Received, Resumes, LoopIsFree, Link!Turn, Link!Refuse
<1>14. CASE ReceiveEnd
  BY <1>14 DEF ReceiveEnd, Received, Resumes, LoopIsFree, Close
<1>15. CASE ReceivePing
  BY <1>15 DEF ReceivePing, Received, Resumes, LoopIsFree, Close
<1>16. CASE ReceivePong
  BY <1>16 DEF ReceivePong, Received, Resumes, LoopIsFree, Read, Link!Crash
<1>17. CASE PongWritten
  BY <1>17 DEF PongWritten, LoopIsFree
<1>18. CASE PongFails
  BY <1>18 DEF PongFails, LoopIsFree, SocketFails, Close, Link!Closes
<1>19. CASE ReadAgain
  BY <1>19 DEF ReadAgain, LoopIsFree, Read, Link!Crash
<1>20. CASE FirstRequestWritten
  BY <1>20 DEF FirstRequestWritten, LoopIsFree, NextTurn, Link!FirstRequest, Link!NextTurn
<1>21. CASE FirstRequestFails
  BY <1>21 DEF FirstRequestFails, LoopIsFree, SocketFails, Close, Link!FirstRequest
<1>22. CASE OwnerBegins
  BY <1>22 DEF OwnerBegins, Link!OwnerBegins
<1>23. CASE OwnerCloses
  BY <1>23 DEF OwnerCloses, Close
<1>24. ASSUME NEW w \in Writers, StartWrite(w)
      PROVE  [Link!Next]_Link!vars
  BY <1>24 DEF StartWrite, LoopIsFree
<1>25. ASSUME NEW w \in Writers, WriteRefused(w)
      PROVE  [Link!Next]_Link!vars
  BY <1>25 DEF WriteRefused, LoopIsFree, Close
<1>26. ASSUME NEW w \in Writers, WriteTaken(w)
      PROVE  [Link!Next]_Link!vars
  BY <1>26 DEF WriteTaken
<1>27. ASSUME NEW w \in Writers, Written(w)
      PROVE  [Link!Next]_Link!vars
  BY <1>27 DEF Written, LoopIsFree
<1>28. ASSUME NEW w \in Writers, WriteFails(w)
      PROVE  [Link!Next]_Link!vars
  BY <1>28 DEF WriteFails, LoopIsFree, SocketFails, Close, Link!Closes
<1>29. ASSUME NEW t \in Threads, Tell(t)
      PROVE  [Link!Next]_Link!vars
  BY <1>29 DEF Tell
<1>30. ASSUME NEW t \in Threads, Shut(t)
      PROVE  [Link!Next]_Link!vars
  BY <1>30 DEF Shut, Link!Closes
<1>31. ASSUME NEW t \in Threads, Clear(t)
      PROVE  [Link!Next]_Link!vars
  BY <1>31 DEF Clear, Link!Closes
<1>32. CASE UNCHANGED vars
  BY <1>32 DEF vars
<1>33. QED
  BY <1>1, <1>2, <1>3, <1>4, <1>5, <1>6, <1>7, <1>8, <1>9, <1>10, <1>11, <1>12, <1>13, <1>14,
     <1>15, <1>16, <1>17, <1>18, <1>19, <1>20, <1>21, <1>22, <1>23, <1>24, <1>25, <1>26, <1>27,
     <1>28, <1>29, <1>30, <1>31, <1>32 DEF Next, Resume, CloseStep

-----------------------------------------------------------------------------
(* The theorems. *)

\* However the reader, any number of writers and the owner on its own thread interleave
\* the steps of their closes, a loss is never missed, and is reported twice only where
\* the destructor's Close() and a coroutine's were past their test together.
THEOREM LossIsReportedOnce == Spec => []LossReportedOnce
<1>1. IInv => LossReportedOnce
  BY DEF IInv, ReportInv, OverlapInv, LossReportedOnce, LoopIsFree
<1>2. QED
  BY <1>1, Invariants, PTL

\* No close by one coroutine leaves state behind the socket for another.
THEOREM StateHasSocket == Spec => []StateMeansOpen
<1>1. IInv => StateMeansOpen
  BY DEF IInv, SocketInv, StateMeansOpen, LoopIsFree
<1>2. QED
  BY <1>1, Invariants, PTL

\* A Connected connection hands over whole frames, from header to header, until it closes.
THEOREM ConnectedStreamIsAligned == Spec => []ConnectedIsAligned
<1>1. IInv => ConnectedIsAligned
  BY DEF IInv, AlignedInv, ConnectedIsAligned
<1>2. QED
  BY <1>1, Invariants, PTL

\* Requests garble each other only when one is begun while another waits; what the
\* reader sends never meets a request.
THEOREM FramesStayIntact == Spec => []FramesAreIntact
<1>1. IInv => FramesAreIntact
  BY DEF IInv, FrameInv, FramesAreIntact
<1>2. QED
  BY <1>1, Invariants, PTL

\* To the client that owns it a connection is what RpcLink says, whatever frames arrive
\* and however the closes of reader, writers and owner interleave with them.
THEOREM ConnectionImplementsLink == Spec => ImplementsRpcLink
<1>1. Init => Link!Init
  BY DEF Init, Link!Init, Place
<1>2. TypeOK /\ IInv /\ [Next]_vars => [Link!Next]_Link!vars
  BY LinkStep
<1>3. QED
  BY <1>1, <1>2, Invariants, PTL DEF Spec, ImplementsRpcLink, Link!Spec
=============================================================================
