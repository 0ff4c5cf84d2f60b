----------------------------- MODULE WebRequest -----------------------------
(***************************************************************************)
(* The OAuth request on Windows: co_http_post of DiscordClientWin.cpp, a   *)
(* coroutine of the io_context, and WinInet, which calls                   *)
(* internet_status_callback on a thread of its own.  They meet in an       *)
(* InternetCallbackContext and in the AwaitablePromise the coroutine       *)
(* awaits, which is a flag and a timer: resolve() sets the one and cancels *)
(* the other.  Neither is protected by a lock, so the steps below are the  *)
(* single reads and writes of the two threads.                             *)
(***************************************************************************)
EXTENDS Sequences

\* What WinInet reports while it sends the request, before the request is complete.
CONSTANT Progress

Statuses == {"HANDLE_CREATED", "REQUEST_COMPLETE", "OTHER"}

ASSUME ProgressAssumption == Progress \in Seq(Statuses \ {"REQUEST_COMPLETE"})

VARIABLES
  pc,       \* where co_http_post is, or async_wait_for and async_wait inside it
  awaited,  \* the status it asks for
  promise,  \* the promise in `promises`: "none", "open" or "resolved"
  armed,    \* its timer is waited for
  seen,     \* statuses reported and not yet asked for
  pending,  \* what WinInet is going to report
  callback, \* where internet_status_callback is
  status,   \* the status it is called with
  reported, \* history: statuses whose callback has begun
  missed    \* history: a report slipped through, see Misses

request == <<pc, awaited, promise, armed>>
winInet == <<pending, callback, status, reported>>
vars == <<request, seen, winInet, missed>>

Waiting == {"check", "arm", "asleep", "woken"}
Ended == {"parsed", "threw"}

\* Every variable holds a value it can hold in the code, and the context has a
\* promise exactly while its coroutine waits.
TypeOK ==
  /\ pc \in {"connect", "test", "register", "send", "read", "crashed"} \cup Waiting \cup Ended
  /\ awaited \in {"HANDLE_CREATED", "REQUEST_COMPLETE"}
  /\ promise \in {"none", "open", "resolved"}
  /\ pc # "crashed" => (promise # "none" <=> pc \in Waiting)
  /\ armed \in BOOLEAN /\ missed \in BOOLEAN
  /\ seen \subseteq Statuses /\ reported \subseteq Statuses
  /\ pending \in Seq(Statuses)
  /\ callback \in {"idle", "look", "resolve", "cancel", "note"}
  /\ status \in Statuses

Init ==
  /\ pc = "connect" /\ awaited = "HANDLE_CREATED"
  /\ promise = "none" /\ armed = FALSE
  /\ seen = {} /\ pending = <<>>
  /\ callback = "idle" /\ status = "OTHER"
  /\ reported = {} /\ missed = FALSE

-----------------------------------------------------------------------------
(* The coroutine. *)

\* InternetConnectA, of which the handle is awaited.
Connect ==
  /\ pc = "connect"
  /\ pc' = "test"
  /\ pending' = Append(pending, "HANDLE_CREATED")
  /\ UNCHANGED <<awaited, promise, armed, seen, callback, status, reported, missed>>

\* HttpOpenRequestA and HttpSendRequestA, of which the end is awaited.
Send ==
  /\ pc = "send"
  /\ pc' = "test"
  /\ awaited' = "REQUEST_COMPLETE"
  /\ pending' = Append(pending \o Progress, "REQUEST_COMPLETE")
  /\ UNCHANGED <<promise, armed, seen, callback, status, reported, missed>>

Continue == IF awaited = "HANDLE_CREATED" THEN "send" ELSE "read"

\* async_wait_for asks whether the status came before it.  One that is between its
\* look at the promises and its note is missed.
TestSeen ==
  /\ pc = "test"
  /\ IF awaited \in seen
     THEN pc' = Continue /\ seen' = {} /\ UNCHANGED missed
     ELSE /\ pc' = "register"
          /\ missed' = (missed \/ (callback = "note" /\ status = awaited))
          /\ UNCHANGED seen
  /\ UNCHANGED <<awaited, promise, armed, winInet>>

\* A new promise takes its place in the map.
Register ==
  /\ pc = "register"
  /\ pc' = "check"
  /\ promise' = "open" /\ armed' = FALSE
  /\ UNCHANGED <<awaited, seen, winInet, missed>>

\* AwaitablePromise::async_wait reads the flag, then waits for the timer.
CheckResolved ==
  /\ pc = "check"
  /\ pc' = IF promise = "resolved" THEN "woken" ELSE "arm"
  /\ UNCHANGED <<awaited, promise, armed, seen, winInet, missed>>

Arm ==
  /\ pc = "arm"
  /\ pc' = "asleep"
  /\ armed' = TRUE
  /\ UNCHANGED <<awaited, promise, seen, winInet, missed>>

Wake ==
  /\ pc = "asleep" /\ ~armed
  /\ pc' = "woken"
  /\ UNCHANGED <<awaited, promise, armed, seen, winInet, missed>>

\* Mutant of EndWait: the destroyed promise stays in the map.
EndWaitWithPromise ==
  /\ pc = "woken"
  /\ pc' = Continue
  /\ seen' = {}
  /\ UNCHANGED <<awaited, promise, armed, winInet, missed>>

\* The promise is erased and destroyed.  No other waits for the status, as the
\* coroutine makes one wait after another.
EndWait ==
  /\ pc = "woken"
  /\ pc' = Continue
  /\ promise' = "none" /\ armed' = FALSE
  /\ seen' = {}
  /\ UNCHANGED <<awaited, winInet, missed>>

\* InternetReadFile until it reads nothing; json::parse throws on what is cut short
\* or is not JSON.  The context ends with the coroutine.
ReadResponse ==
  /\ pc = "read"
  /\ pc' \in Ended
  /\ UNCHANGED <<awaited, promise, armed, seen, winInet, missed>>

-----------------------------------------------------------------------------
(* WinInet's thread. *)

\* The callback uses a promise or a context that is gone: it does no harm, or ends
\* the process.  Either way the report was not in time.
Dangles ==
  /\ missed' = TRUE
  /\ pc' \in {pc, "crashed"}
  /\ UNCHANGED <<awaited, promise, armed, seen>>

Report ==
  /\ callback = "idle" /\ pending # <<>> /\ pc # "crashed"
  /\ callback' = "look"
  /\ status' = Head(pending) /\ pending' = Tail(pending)
  /\ reported' = reported \cup {Head(pending)}
  /\ UNCHANGED <<request, seen, missed>>

\* internet_status_callback looks for a promise.
Look ==
  /\ callback = "look"
  /\ IF pc \in Ended THEN Dangles /\ callback' = "note"
     ELSE /\ callback' = IF promise # "none" /\ status = awaited THEN "resolve" ELSE "note"
          /\ missed' = (missed \/ (pc = "register" /\ status = awaited))
          /\ UNCHANGED <<request, seen>>
  /\ UNCHANGED <<pending, status, reported>>

\* AwaitablePromise::resolve returns early or sets the flag.
Resolve ==
  /\ callback = "resolve"
  /\ IF promise = "open" /\ status = awaited
     THEN callback' = "cancel" /\ promise' = "resolved"
     ELSE callback' = "note" /\ UNCHANGED promise
  /\ UNCHANGED <<pc, awaited, armed, seen, pending, status, reported, missed>>

\* Mutant of Cancel: the flag is all.
CancelNothing ==
  /\ callback = "cancel"
  /\ callback' = "note"
  /\ UNCHANGED <<request, seen, pending, status, reported, missed>>

\* It cancels the timer, which concerns only who waits for it by now.
Cancel ==
  /\ callback = "cancel"
  /\ callback' = "note"
  /\ IF promise = "none" \/ status # awaited THEN Dangles
     ELSE /\ armed' = FALSE
          /\ missed' = (missed \/ pc = "arm")
          /\ UNCHANGED <<pc, awaited, promise, seen>>
  /\ UNCHANGED <<pending, status, reported>>

\* Mutant of Note: only who waits already is told.
NoteNothing ==
  /\ callback = "note"
  /\ callback' = "idle"
  /\ UNCHANGED <<request, seen, pending, status, reported, missed>>

Note ==
  /\ callback = "note"
  /\ callback' = "idle"
  /\ IF pc \in Ended THEN Dangles
     ELSE seen' = seen \cup {status} /\ UNCHANGED <<request, missed>>
  /\ UNCHANGED <<pending, status, reported>>

-----------------------------------------------------------------------------
Coroutine ==
  \/ Connect \/ Send \/ TestSeen \/ Register \/ CheckResolved \/ Arm \/ Wake
  \/ EndWait \/ ReadResponse
Callback == Report \/ Look \/ Resolve \/ Cancel \/ Note

Next == Coroutine \/ Callback
Spec == Init /\ [][Next]_vars

\* The io_context resumes what is ready, and WinInet completes every request, be it
\* with an error.
FairSpec == Spec /\ WF_vars(Coroutine) /\ WF_vars(Callback)

-----------------------------------------------------------------------------
(* Properties. *)

\* The coroutine goes on only after WinInet has reported what it waits for: the handle
\* is there before the request is sent, and the response is read, and the login goes
\* on, only at the end of this request, whatever else was reported before.
AnswerIsComplete ==
  /\ pc = "send" \/ awaited = "REQUEST_COMPLETE" => "HANDLE_CREATED" \in reported
  /\ pc \in {"read"} \cup Ended => "REQUEST_COMPLETE" \in reported

\* A report finds its waiter before or after it falls asleep: nobody sleeps through
\* one whose callback is over, or when there is none to come, unless it slipped in
\* between a test and what the code does next, where no lock keeps it out.
SleeperIsWoken ==
  pc = "asleep" /\ armed /\ callback = "idle" =>
    missed \/ (awaited \notin reported /\ pending # <<>>)

\* Both: a wait ends with the report it is for, neither before it nor without it.
WaitsEndWithReports == AnswerIsComplete /\ SleeperIsWoken

\* The request ends, and with it the worker's nested poll.
RequestEnds == <>(pc \in Ended \/ missed)
=============================================================================
