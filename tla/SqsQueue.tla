------------------------------ MODULE SqsQueue ------------------------------
(***************************************************************************)
(* The SQS queue (internal/queue/sqs.go): one polling goroutine takes a    *)
(* batch of messages, starts a goroutine for each, and waits for all of    *)
(* them before it polls again.  A handler is represented by its two        *)
(* outcomes for the container limiter: it returns with its element given   *)
(* back, or early with its element left behind (Loader shows both).        *)
(***************************************************************************)
EXTENDS Naturals, FiniteSets

CONSTANTS
  Message,       \* messages of the queue
  EmptyBody,     \* those without a body
  Worker,        \* goroutines that handle a message
  MaxInFlight,   \* MaxNumberOfMessages, and capacity of the limiter
  MaxCrashes,    \* bound on restarts of the loader
  None

ASSUME SqsAssumption ==
  /\ EmptyBody \subseteq Message
  /\ MaxInFlight \in Nat \ {0} /\ MaxCrashes \in Nat
  /\ None \notin Message

VARIABLES
  queue,      \* SQS: visible, hidden (received), deleted
  loop,       \* startPollingMessages: check, receive, launch, wait, ended
  batch,      \* output.Messages still to be launched
  pending,    \* the counter of the wait group
  work,       \* a goroutine's message and position
  limiter,    \* elements in the container limiter
  handled,    \* messages for which a handler has returned
  stopFlag,   \* the copy of the flag that the polling goroutine reads
  stopping,   \* Stop was called
  crashes

loopVars == <<loop, batch, pending>>
stopVars == <<stopFlag, stopping>>
vars == <<queue, loopVars, work, limiter, handled, stopVars, crashes>>

Idle == [msg |-> None, at |-> "none"]

\* newSqsQueue starts the goroutine, with a copy of the queue object.
Init ==
  /\ queue = [m \in Message |-> "visible"]
  /\ loop = "check"
  /\ batch = {}
  /\ pending = 0
  /\ work = [w \in Worker |-> Idle]
  /\ limiter = 0
  /\ handled = {}
  /\ stopFlag = FALSE
  /\ stopping = FALSE
  /\ crashes = 0

-----------------------------------------------------------------------------
(* The polling goroutine *)

CheckStop ==
  /\ loop = "check"
  /\ loop' = IF stopFlag THEN "ended" ELSE "receive"
  /\ UNCHANGED <<queue, batch, pending, work, limiter, handled, stopVars, crashes>>

\* ReceiveMessage: some visible messages, none after its wait time or an error.
Receive ==
  /\ loop = "receive"
  /\ \E ms \in SUBSET {m \in Message : queue[m] = "visible"} :
       /\ Cardinality(ms) <= MaxInFlight
       /\ batch' = ms
       /\ queue' = [m \in Message |-> IF m \in ms THEN "hidden" ELSE queue[m]]
  /\ pending' = 0
  /\ loop' = "launch"
  /\ UNCHANGED <<work, limiter, handled, stopVars, crashes>>

\* Mutant: the counter is incremented before the body is looked at.
SkipEmpty_Counted(m) ==
  /\ loop = "launch" /\ m \in batch /\ m \in EmptyBody
  /\ batch' = batch \ {m}
  /\ pending' = pending + 1
  /\ UNCHANGED <<queue, loop, work, limiter, handled, stopVars, crashes>>

\* A message without a body is passed over, and stays in the queue.
SkipEmpty(m) ==
  /\ loop = "launch" /\ m \in batch /\ m \in EmptyBody
  /\ batch' = batch \ {m}
  /\ UNCHANGED <<queue, loop, pending, work, limiter, handled, stopVars, crashes>>

Launch(m, w) ==
  /\ loop = "launch" /\ m \in batch /\ m \notin EmptyBody /\ work[w] = Idle
  /\ batch' = batch \ {m}
  /\ pending' = pending + 1
  /\ work' = [work EXCEPT ![w] = [msg |-> m, at |-> "acquire"]]
  /\ UNCHANGED <<queue, loop, limiter, handled, stopVars, crashes>>

Launched ==
  /\ loop = "launch" /\ batch = {}
  /\ loop' = "wait"
  /\ UNCHANGED <<queue, batch, pending, work, limiter, handled, stopVars, crashes>>

\* Mutant: the loop does not wait for its batch.
Wait_Skipped ==
  /\ loop = "wait"
  /\ loop' = "check"
  /\ UNCHANGED <<queue, batch, pending, work, limiter, handled, stopVars, crashes>>

\* wg.Wait
Wait ==
  /\ loop = "wait" /\ pending = 0
  /\ loop' = "check"
  /\ UNCHANGED <<queue, batch, pending, work, limiter, handled, stopVars, crashes>>

-----------------------------------------------------------------------------
(* The goroutine of a message *)

At(w, p) == work[w].at = p

\* HandleIncomingRequest gets past the limiter of AddContainer.
Acquire(w) ==
  /\ At(w, "acquire") /\ limiter < MaxInFlight
  /\ limiter' = limiter + 1
  /\ work' = [work EXCEPT ![w].at = "handle"]
  /\ UNCHANGED <<queue, loopVars, handled, stopVars, crashes>>

\* It returns after RemoveContainer.
Handled(w) ==
  /\ At(w, "handle")
  /\ limiter' = limiter - 1
  /\ handled' = handled \cup {work[w].msg}
  /\ work' = [work EXCEPT ![w].at = "delete"]
  /\ UNCHANGED <<queue, loopVars, stopVars, crashes>>

\* It returns after an error or its timeout; the error is only logged.
HandledEarly(w) ==
  /\ At(w, "handle")
  /\ handled' = handled \cup {work[w].msg}
  /\ work' = [work EXCEPT ![w].at = "delete"]
  /\ UNCHANGED <<queue, loopVars, limiter, stopVars, crashes>>

\* Mutant: the messages of a batch are deleted when the first is handled.
Delete_Batch(w) ==
  /\ At(w, "delete")
  /\ queue' = [m \in Message |-> IF queue[m] = "hidden" THEN "deleted" ELSE queue[m]]
  /\ pending' = pending - 1
  /\ work' = [work EXCEPT ![w] = Idle]
  /\ UNCHANGED <<loop, batch, limiter, handled, stopVars, crashes>>

\* The deferred function: DeleteMessage, which may fail, then wg.Done.
Delete(w) ==
  /\ At(w, "delete")
  /\ queue' \in {queue, [queue EXCEPT ![work[w].msg] = "deleted"]}
  /\ pending' = pending - 1
  /\ work' = [work EXCEPT ![w] = Idle]
  /\ UNCHANGED <<loop, batch, limiter, handled, stopVars, crashes>>

-----------------------------------------------------------------------------
(* The rest of the system *)

\* Stop has a value receiver: the flag is set on a copy that nobody reads.
Stop ==
  /\ ~stopping
  /\ stopping' = TRUE
  /\ UNCHANGED <<queue, loopVars, work, limiter, handled, stopFlag, crashes>>

\* SQS shows a received message again after its visibility timeout.
Reappear(m) ==
  /\ queue[m] = "hidden"
  /\ queue' = [queue EXCEPT ![m] = "visible"]
  /\ UNCHANGED <<loopVars, work, limiter, handled, stopVars, crashes>>

\* The loader ends at any point and is started again.
Restart ==
  /\ crashes < MaxCrashes
  /\ crashes' = crashes + 1
  /\ loop' = "check"
  /\ batch' = {}
  /\ pending' = 0
  /\ work' = [w \in Worker |-> Idle]
  /\ limiter' = 0
  /\ stopFlag' = FALSE
  /\ stopping' = FALSE
  /\ UNCHANGED <<queue, handled>>

-----------------------------------------------------------------------------
PollStep ==
  \/ CheckStop \/ Receive \/ Launched \/ Wait
  \/ \E m \in Message : SkipEmpty(m) \/ \E w \in Worker : Launch(m, w)

WorkerStep(w) == Acquire(w) \/ Handled(w) \/ HandledEarly(w) \/ Delete(w)

Next ==
  \/ PollStep
  \/ \E w \in Worker : WorkerStep(w)
  \/ Stop \/ Restart
  \/ \E m \in Message : Reappear(m)

Spec == Init /\ [][Next]_vars

\* Goroutines are scheduled, and a handler past the limiter returns.
FairSpec ==
  /\ Spec
  /\ WF_vars(PollStep)
  /\ \A w \in Worker : WF_vars(WorkerStep(w))
-----------------------------------------------------------------------------
(* Properties *)

Busy == {w \in Worker : work[w] # Idle}

\* Variables have the types of the code; the wait group counts the goroutines
\* of the batch, and never goes below zero, which would panic.
TypeOK ==
  /\ queue \in [Message -> {"visible", "hidden", "deleted"}]
  /\ loop \in {"check", "receive", "launch", "wait", "ended"}
  /\ batch \subseteq Message
  /\ pending = Cardinality(Busy)
  /\ work \in [Worker -> [msg : Message \cup {None},
                          at : {"none", "acquire", "handle", "delete"}]]
  /\ limiter \in 0 .. MaxInFlight
  /\ handled \subseteq Message
  /\ stopFlag \in BOOLEAN /\ stopping \in BOOLEAN
  /\ crashes \in 0 .. MaxCrashes

\* The visibility timeout makes a message visible while its handler is still
\* at work; within one loader it is nevertheless never handled twice at a time.
NoOverlap ==
  \A v, w \in Busy : v # w => work[v].msg # work[w].msg

\* Whatever fails, and wherever the loader stops, a message leaves the queue
\* only after a handler has returned for it.
DeletedMeansHandled ==
  \A m \in Message : queue[m] = "deleted" => m \in handled

\* Every element of the limiter was left behind by a handler that returned
\* early, and all goroutines of the batch wait for one at AddContainer.
Stuck ==
  /\ loop = "wait" /\ Busy # {} /\ \A w \in Busy : At(w, "acquire")
  /\ limiter = MaxInFlight

\* The wait for a batch ends, whatever fails in its handlers and deletes and
\* whichever of its messages have no body, or the loop is stuck for good: a
\* limiter full of elements left behind is the only thing that stops polling
\* (sqs.go:95).
BatchEnds ==
  loop = "wait" ~> (loop = "check" \/ []Stuck)

\* "the stop flag for each iteration to check" (sqs.go:34-36): once Stop was
\* called, the next check of the flag ends the goroutine, unless the process
\* ends first.
StopEndsPolling ==
  (stopping /\ loop = "check") ~> (loop = "ended" \/ ~stopping)
=============================================================================
