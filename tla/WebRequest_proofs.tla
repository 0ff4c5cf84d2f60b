-------------------------- MODULE WebRequest_proofs --------------------------
(* Proofs about WebRequest, whatever WinInet reports on the way. *)
EXTENDS WebRequest, Integers, TLAPS

\* What has been reported, and what is known before the request is sent.
ReportInv ==
  /\ callback # "idle" => status \in reported
  /\ seen \subseteq reported
  /\ pc = "connect" => awaited = "HANDLE_CREATED" /\ reported = {} /\ pending = <<>>
  /\ pc = "send" => awaited = "HANDLE_CREATED"
  /\ pc \in {"read"} \cup Ended => awaited = "REQUEST_COMPLETE"
  /\ awaited = "HANDLE_CREATED" =>
       /\ "REQUEST_COMPLETE" \notin reported
       /\ \A i \in DOMAIN pending : pending[i] # "REQUEST_COMPLETE"

\* A promise is resolved by a report of its status, and only then is who waits woken.
PromiseInv ==
  /\ promise = "resolved" => awaited \in reported
  /\ pc = "woken" => promise = "resolved"
  /\ pc = "asleep" /\ ~armed => promise = "resolved"
  /\ callback = "cancel" /\ status = awaited =>
       \/ promise = "resolved"
       \/ promise = "none" /\ pc \in {"send", "read", "crashed"} \cup Ended

\* Where a report of the awaited status is, for each place of the coroutine, unless
\* it slipped through.
Begun(places) == status = awaited /\ callback \in places
DeliveryInv ==
  /\ pc = "test" /\ awaited \in reported => awaited \in seen \/ Begun({"look", "note"})
  /\ pc = "register" /\ awaited \in reported => Begun({"look"})
  /\ promise = "open" /\ awaited \in reported => Begun({"look", "resolve"})
  /\ promise = "resolved" /\ (pc = "arm" \/ (pc = "asleep" /\ armed)) => Begun({"cancel"})

\* What the coroutine waits for has been reported or is about to be.
Waits == pc \in {"test", "register"} \cup Waiting
Coming == \E i \in DOMAIN pending : pending[i] = awaited
ComingInv == Waits => awaited \in reported \/ Coming

IInv ==
  /\ TypeOK /\ ComingInv /\ ReportInv /\ PromiseInv /\ AnswerIsComplete
  /\ missed \/ DeliveryInv

-----------------------------------------------------------------------------
LEMMA ProgressType == Progress \in Seq(Statuses)
<1>1. \A S, T : S \subseteq T => Seq(S) \subseteq Seq(T)
  OBVIOUS
<1>2. QED
  BY <1>1, ProgressAssumption

\* A list of statuses stays one when it is extended or shortened.
LEMMA PendingType ==
  ASSUME NEW p \in Seq(Statuses)
  PROVE  /\ Append(p, "HANDLE_CREATED") \in Seq(Statuses)
         /\ Append(p \o Progress, "REQUEST_COMPLETE") \in Seq(Statuses)
         /\ p # <<>> => Head(p) \in Statuses /\ Tail(p) \in Seq(Statuses)
<1>1. Progress \in Seq(Statuses)
  BY ProgressType
<1>2. {"HANDLE_CREATED", "REQUEST_COMPLETE"} \subseteq Statuses
  BY DEF Statuses
<1>3. QED
  BY <1>1, <1>2

USE DEF Waiting, Ended

LEMMA InitInv == Init => IInv
<1> SUFFICES ASSUME Init PROVE IInv
  OBVIOUS
<1>1. TypeOK
  <2>1. pending \in Seq(Statuses) /\ status \in Statuses
    BY DEF Init, Statuses
  <2>2. armed \in BOOLEAN /\ missed \in BOOLEAN
    BY DEF Init
  <2>3. promise # "none" <=> pc \in Waiting
    BY DEF Init
  <2>4. QED
    BY <2>1, <2>2, <2>3 DEF Init, TypeOK
<1>2. ReportInv /\ PromiseInv /\ AnswerIsComplete /\ ComingInv
  BY DEF Init, ReportInv, PromiseInv, AnswerIsComplete, ComingInv, Waits
<1>3. DeliveryInv
  BY DEF Init, DeliveryInv
<1>4. QED
  BY <1>1, <1>2, <1>3 DEF IInv

\* Every step keeps the types.
LEMMA TypeStep ==
  ASSUME TypeOK, [Next]_vars PROVE TypeOK'
<1> USE DEF TypeOK, Statuses, Continue, request, winInet
<1>1. CASE Connect
  BY <1>1, PendingType DEF Connect
<1>2. CASE Send
  BY <1>2, PendingType DEF Send
<1>3. CASE TestSeen
  BY <1>3 DEF TestSeen
<1>4. CASE Register
  BY <1>4 DEF Register
<1>5. CASE CheckResolved
  BY <1>5 DEF CheckResolved
<1>6. CASE Arm
  BY <1>6 DEF Arm
<1>7. CASE Wake
  BY <1>7 DEF Wake
<1>8. CASE EndWait
  BY <1>8 DEF EndWait
<1>9. CASE ReadResponse
  BY <1>9 DEF ReadResponse
<1>10. CASE Report
  BY <1>10, PendingType DEF Report
<1>11. CASE Look
  BY <1>11 DEF Look, Dangles
<1>12. CASE Resolve
  BY <1>12 DEF Resolve
<1>13. CASE Cancel
  BY <1>13 DEF Cancel, Dangles
<1>14. CASE Note
  BY <1>14 DEF Note, Dangles
<1>15. CASE UNCHANGED vars
  BY <1>15 DEF vars
<1>16. QED
  BY <1>1, <1>2, <1>3, <1>4, <1>5, <1>6, <1>7, <1>8, <1>9, <1>10, <1>11, <1>12, <1>13,
     <1>14, <1>15 DEF Next, Coroutine, Callback

\* A report is noted as one before anything is done with it.
LEMMA ReportStep ==
  ASSUME IInv, [Next]_vars PROVE ReportInv'
<1> USE DEF IInv, TypeOK, ReportInv, PromiseInv, Continue, request, winInet
<1>1. CASE Connect
  BY <1>1 DEF Connect
<1>2. CASE Send
  BY <1>2 DEF Send
<1>3. CASE TestSeen
  BY <1>3 DEF TestSeen
<1>4. CASE Register
  BY <1>4 DEF Register
<1>5. CASE CheckResolved
  BY <1>5 DEF CheckResolved
<1>6. CASE Arm
  BY <1>6 DEF Arm
<1>7. CASE Wake
  BY <1>7 DEF Wake
<1>8. CASE EndWait
  BY <1>8 DEF EndWait
<1>9. CASE ReadResponse
  BY <1>9 DEF ReadResponse
<1>10. CASE Report
  BY <1>10 DEF Report
<1>11. CASE Look
  BY <1>11 DEF Look, Dangles
<1>12. CASE Resolve
  BY <1>12 DEF Resolve
<1>13. CASE Cancel
  BY <1>13 DEF Cancel, Dangles
<1>14. CASE Note
  BY <1>14 DEF Note, Dangles
<1>15. CASE UNCHANGED vars
  BY <1>15 DEF vars
<1>16. QED
  BY <1>1, <1>2, <1>3, <1>4, <1>5, <1>6, <1>7, <1>8, <1>9, <1>10, <1>11, <1>12, <1>13,
     <1>14, <1>15 DEF Next, Coroutine, Callback

\* A promise is resolved for a reason.
LEMMA PromiseStep ==
  ASSUME IInv, [Next]_vars PROVE PromiseInv'
<1> USE DEF IInv, TypeOK, ReportInv, PromiseInv, Continue, request, winInet
<1>1. CASE Connect
  BY <1>1 DEF Connect
<1>2. CASE Send
  BY <1>2 DEF Send
<1>3. CASE TestSeen
  BY <1>3 DEF TestSeen
<1>4. CASE Register
  BY <1>4 DEF Register
<1>5. CASE CheckResolved
  BY <1>5 DEF CheckResolved
<1>6. CASE Arm
  BY <1>6 DEF Arm
<1>7. CASE Wake
  BY <1>7 DEF Wake
<1>8. CASE EndWait
  BY <1>8 DEF EndWait
<1>9. CASE ReadResponse
  BY <1>9 DEF ReadResponse
<1>10. CASE Report
  BY <1>10 DEF Report
<1>11. CASE Look
  BY <1>11 DEF Look, Dangles
<1>12. CASE Resolve
  BY <1>12 DEF Resolve
<1>13. CASE Cancel
  BY <1>13 DEF Cancel, Dangles
<1>14. CASE Note
  BY <1>14 DEF Note, Dangles
<1>15. CASE UNCHANGED vars
  BY <1>15 DEF vars
<1>16. QED
  BY <1>1, <1>2, <1>3, <1>4, <1>5, <1>6, <1>7, <1>8, <1>9, <1>10, <1>11, <1>12, <1>13,
     <1>14, <1>15 DEF Next, Coroutine, Callback

\* The coroutine goes on for a reason.
LEMMA AnswerStep ==
  ASSUME IInv, [Next]_vars PROVE AnswerIsComplete'
<1> USE DEF IInv, TypeOK, ReportInv, PromiseInv, AnswerIsComplete, Continue, request, winInet
<1>1. CASE Connect
  BY <1>1 DEF Connect
<1>2. CASE Send
  BY <1>2 DEF Send
<1>3. CASE TestSeen
  BY <1>3 DEF TestSeen
<1>4. CASE Register
  BY <1>4 DEF Register
<1>5. CASE CheckResolved
  BY <1>5 DEF CheckResolved
<1>6. CASE Arm
  BY <1>6 DEF Arm
<1>7. CASE Wake
  BY <1>7 DEF Wake
<1>8. CASE EndWait
  BY <1>8 DEF EndWait
<1>9. CASE ReadResponse
  BY <1>9 DEF ReadResponse
<1>10. CASE Report
  BY <1>10 DEF Report
<1>11. CASE Look
  BY <1>11 DEF Look, Dangles
<1>12. CASE Resolve
  BY <1>12 DEF Resolve
<1>13. CASE Cancel
  BY <1>13 DEF Cancel, Dangles
<1>14. CASE Note
  BY <1>14 DEF Note, Dangles
<1>15. CASE UNCHANGED vars
  BY <1>15 DEF vars
<1>16. QED
  BY <1>1, <1>2, <1>3, <1>4, <1>5, <1>6, <1>7, <1>8, <1>9, <1>10, <1>11, <1>12, <1>13,
     <1>14, <1>15 DEF Next, Coroutine, Callback

\* A report that does not slip through is on its way to its waiter.
LEMMA DeliveryStep ==
  ASSUME IInv, [Next]_vars PROVE (missed \/ DeliveryInv)'
<1> USE DEF IInv, TypeOK, ReportInv, PromiseInv, DeliveryInv, Begun, Continue, request, winInet
<1>1. CASE Connect
  BY <1>1 DEF Connect
<1>2. CASE Send
  BY <1>2 DEF Send
<1>3. CASE TestSeen
  BY <1>3 DEF TestSeen
<1>4. CASE Register
  BY <1>4 DEF Register
<1>5. CASE CheckResolved
  BY <1>5 DEF CheckResolved
<1>6. CASE Arm
  BY <1>6 DEF Arm
<1>7. CASE Wake
  BY <1>7 DEF Wake
<1>8. CASE EndWait
  BY <1>8 DEF EndWait
<1>9. CASE ReadResponse
  BY <1>9 DEF ReadResponse
<1>10. CASE Report
  BY <1>10 DEF Report
<1>11. CASE Look
  <2>1. CASE pc \in Ended
    BY <1>11, <2>1 DEF Look, Dangles
  <2>2. CASE pc \notin Ended /\ pc = "register" /\ status = awaited
    BY <1>11, <2>2 DEF Look
  <2>3. CASE pc \notin Ended /\ ~(pc = "register" /\ status = awaited)
    <3>1. UNCHANGED <<pc, awaited, promise, armed, seen, status, reported, missed>>
      BY <1>11, <2>3 DEF Look
    <3>2. callback = "look" /\ callback' = IF promise # "none" /\ status = awaited
                                           THEN "resolve" ELSE "note"
      BY <1>11, <2>3 DEF Look
    <3>3. QED
      BY <3>1, <3>2, <2>3
  <2>4. QED
    BY <2>1, <2>2, <2>3
<1>12. CASE Resolve
  BY <1>12 DEF Resolve
<1>13. CASE Cancel
  BY <1>13 DEF Cancel, Dangles
<1>14. CASE Note
  BY <1>14 DEF Note, Dangles
<1>15. CASE UNCHANGED vars
  BY <1>15 DEF vars
<1>16. QED
  BY <1>1, <1>2, <1>3, <1>4, <1>5, <1>6, <1>7, <1>8, <1>9, <1>10, <1>11, <1>12, <1>13,
     <1>14, <1>15 DEF Next, Coroutine, Callback

\* Until it is reported, the awaited status stays in the list.
LEMMA ComingStep ==
  ASSUME IInv, [Next]_vars PROVE ComingInv'
<1> USE DEF IInv, ComingInv, Waits, Continue, request, winInet
<1>1. CASE Connect
  <2>1. pending' = Append(pending, "HANDLE_CREATED") /\ awaited' = "HANDLE_CREATED"
    BY <1>1 DEF Connect, ReportInv
  <2>2. pending \in Seq(Statuses)
    BY DEF TypeOK
  <2>3. Coming'
    BY <2>1, <2>2 DEF Coming
  <2>4. QED
    BY <2>3
<1>2. CASE Send
  <2>1. pending' = Append(pending \o Progress, "REQUEST_COMPLETE") /\ awaited' = "REQUEST_COMPLETE"
    BY <1>2 DEF Send
  <2>2. pending \in Seq(Statuses) /\ Progress \in Seq(Statuses)
    BY ProgressType DEF TypeOK
  <2>3. pending \o Progress \in Seq(Statuses)
    BY <2>2
  <2>4. Coming'
    BY <2>1, <2>3 DEF Coming
  <2>5. QED
    BY <2>4
<1>10. CASE Report
  <2>1. /\ pending # <<>> /\ pending' = Tail(pending) /\ reported' = reported \cup {Head(pending)}
        /\ UNCHANGED <<pc, awaited>>
    BY <1>10 DEF Report
  <2>2. pending \in Seq(Statuses)
    BY DEF TypeOK
  <2>3. Coming => awaited = Head(pending) \/ Coming'
    <3>1. SUFFICES ASSUME NEW i \in DOMAIN pending, pending[i] = awaited
                   PROVE  awaited = Head(pending) \/ Coming'
      BY DEF Coming
    <3>2. CASE i = 1
      BY <2>1, <2>2, <3>1, <3>2
    <3>3. CASE i # 1
      <4>1. i - 1 \in DOMAIN Tail(pending) /\ Tail(pending)[i - 1] = pending[i]
        BY <2>1, <2>2, <3>1, <3>3
      <4>2. QED
        BY <4>1, <2>1, <3>1 DEF Coming
    <3>4. QED
      BY <3>2, <3>3
  <2>4. QED
    BY <2>1, <2>3
<1>3. ASSUME UNCHANGED <<awaited, pending, reported>>, Waits' => Waits PROVE ComingInv'
  BY <1>3 DEF Coming
<1>4. CASE \/ TestSeen \/ Register \/ CheckResolved \/ Arm \/ Wake \/ EndWait \/ ReadResponse
           \/ UNCHANGED vars
  BY <1>3, <1>4 DEF TestSeen, Register, CheckResolved, Arm, Wake, EndWait, ReadResponse, vars
<1>5. CASE Look \/ Resolve \/ Cancel \/ Note
  BY <1>3, <1>5 DEF Look, Resolve, Cancel, Note, Dangles
<1>6. QED
  BY <1>1, <1>2, <1>4, <1>5, <1>10 DEF Next, Coroutine, Callback

\* The invariant of every behaviour.
THEOREM RequestInvariant == Spec => []IInv
<1>1. Init => IInv
  BY InitInv
<1>2. IInv /\ [Next]_vars => IInv'
  BY TypeStep, ComingStep, ReportStep, PromiseStep, AnswerStep, DeliveryStep DEF IInv
<1>3. QED
  BY <1>1, <1>2, PTL DEF Spec

\* Types, and a promise in the map exactly while the coroutine waits.
THEOREM RequestTypeCorrect == Spec => []TypeOK
BY RequestInvariant, PTL DEF IInv

\* A wait ends with the report it is for: the coroutine goes on only after it, and does
\* not sleep through it, or for want of one, unless it slipped in between two steps.
THEOREM WaitsEnd == Spec => []WaitsEndWithReports
<1>1. IInv => SleeperIsWoken
  <2>1. SUFFICES ASSUME IInv, pc = "asleep", armed, callback = "idle", ~missed
                 PROVE  awaited \notin reported /\ pending # <<>>
    BY DEF SleeperIsWoken
  <2>2. awaited \notin reported
    BY <2>1 DEF IInv, TypeOK, DeliveryInv, PromiseInv, Begun
  <2>3. Coming
    BY <2>1, <2>2 DEF IInv, ComingInv, Waits
  <2>4. pending # <<>>
    BY <2>3 DEF Coming
  <2>5. QED
    BY <2>2, <2>4
<1>2. IInv => WaitsEndWithReports
  BY <1>1 DEF IInv, WaitsEndWithReports
<1>3. QED
  BY <1>2, RequestInvariant, PTL
=============================================================================
