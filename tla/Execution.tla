----------------------------- MODULE Execution -----------------------------
(***************************************************************************)
(* What the queue and the loader promise to the rest of the system about   *)
(* the execution of a request, without containers, limiter, or Docker: how *)
(* a delivery of the message moves the row of the executions table and the *)
(* output files.  Loader implements this specification; Api composes it    *)
(* with the server that submits requests and reads results.                *)
(***************************************************************************)
EXTENDS Naturals, FiniteSets

CONSTANTS
  Request,       \* CompileMessage.ID values
  Delivery,      \* handler invocations
  Tested,        \* the requests that carry a sandbox.Test
  RunnerStatus,  \* statuses cars-runner reports
  File,          \* output files of the language: two, three if it compiles
  MaxAttempts,   \* deliveries of a message before go-nsq gives it up, 5
  Faults,        \* "files", "repo", "redeliver", "crash", "remove"; the server's: "queue"
  None

Cut == "cut"     \* a file that os.Create has emptied and nobody has filled

\* The row CreateCompileRequest inserts.
NewRow == [status |-> "NotRan", test |-> "TestNotRan", measured |-> None]

VARIABLES
  msg,      \* the message: none, ready, inflight or finished
  reqOf,    \* the request of a delivery
  attempt,  \* how far the delivery's handler is
  result,   \* the Response it has collected
  writing,  \* the files whose write has not come to its end
  record,   \* the row of the request, None before the insert
  files     \* for each request and output file, the delivery that wrote it

execVars == <<msg, reqOf, attempt, result, writing, record, files>>

Init ==
  /\ msg \in [Request -> {"none", "ready"}]
  /\ reqOf = [d \in Delivery |-> None]
  /\ attempt = [d \in Delivery |-> "idle"]
  /\ result = [d \in Delivery |-> None]
  /\ writing = [d \in Delivery |-> {}]
  /\ record \in [Request -> {None, NewRow}]
  /\ files = [r \in Request |-> [f \in File |-> None]]

Goto(d, next) == attempt' = [attempt EXCEPT ![d] = next]

\* An update of a row that is not there changes nothing, and neither does one
\* that fails: its error is dropped.
Change(r, row) ==
  \/ record' = IF record[r] = None THEN record ELSE [record EXCEPT ![r] = row]
  \/ "repo" \in Faults /\ UNCHANGED record

SetStatus(r, s) == Change(r, [record[r] EXCEPT !.status = s])

\* Zero measurements do not overwrite those of an earlier attempt.
SetResult(r, res) ==
  Change(r, [res EXCEPT !.measured = IF @ = None THEN record[r].measured ELSE @])

\* nil finishes the in-flight message, an error queues it again.
Answer(r, state) ==
  msg' = IF msg[r] = "inflight" THEN [msg EXCEPT ![r] = state] ELSE msg

\* The attempts that NSQ has counted for a message.
Attempts(r) == Cardinality({d \in Delivery : reqOf[d] = r})

-----------------------------------------------------------------------------
\* SubmitMessageToQueue
Submit(r) ==
  /\ msg[r] = "none"
  /\ msg' = [msg EXCEPT ![r] = "ready"]
  /\ UNCHANGED <<reqOf, attempt, result, writing, record, files>>

\* InsertExecution
Insert(r) ==
  /\ record[r] = None
  /\ record' = [record EXCEPT ![r] = NewRow]
  /\ UNCHANGED <<msg, reqOf, attempt, result, writing, files>>

\* The message is delivered and the row is Created.
Take(d, r) ==
  /\ attempt[d] = "idle" /\ msg[r] = "ready" /\ Attempts(r) < MaxAttempts
  /\ msg' = [msg EXCEPT ![r] = "inflight"]
  /\ reqOf' = [reqOf EXCEPT ![d] = r]
  /\ SetStatus(r, "Created")
  /\ Goto(d, "waiting")
  /\ UNCHANGED <<result, writing, files>>

\* After MaxAttempts the consumer finishes the message and calls no handler.
Discard(r) ==
  /\ msg[r] = "ready" /\ Attempts(r) >= MaxAttempts
  /\ msg' = [msg EXCEPT ![r] = "finished"]
  /\ UNCHANGED <<reqOf, attempt, result, writing, record, files>>

\* The handler's turn has come, if it ever does.
Enter(d) ==
  /\ attempt[d] = "waiting"
  /\ Goto(d, "taken")
  /\ UNCHANGED <<msg, reqOf, result, writing, record, files>>

\* The program runs.
Run(d) ==
  /\ attempt[d] = "taken"
  /\ SetStatus(reqOf[d], "Running")
  /\ Goto(d, "running")
  /\ UNCHANGED <<msg, reqOf, result, writing, files>>

\* Mutant: the error does not reach the queue, which waits for an answer.
Fail_Drops(d) ==
  /\ attempt[d] = "taken"
  /\ SetStatus(reqOf[d], "NonDeterministicError")
  /\ Goto(d, "ended")
  /\ UNCHANGED <<msg, reqOf, result, writing, files>>

\* The container could not be started: an error, and the message comes again.
Fail(d) ==
  /\ attempt[d] = "taken"
  /\ SetStatus(reqOf[d], "NonDeterministicError")
  /\ Answer(reqOf[d], "ready")
  /\ Goto(d, "ended")
  /\ UNCHANGED <<reqOf, result, writing, files>>

\* The run took too long for the handler: no result, and no other delivery.
GiveUp(d) ==
  /\ attempt[d] = "running"
  /\ Answer(reqOf[d], "finished")
  /\ Goto(d, "ended")
  /\ UNCHANGED <<reqOf, result, writing, record, files>>

\* The outcomes of writing some files: all of it, or, when the store fails,
\* nothing or an emptied file.
Written(d, w) ==
  \E v \in [w -> IF "files" \in Faults THEN {d, Cut, None} ELSE {d}] :
    files' = [files EXCEPT ![reqOf[d]] =
                [f \in File |-> IF f \in w /\ v[f] # None THEN v[f] ELSE @[f]]]

Response == [status : RunnerStatus \cup {"NotRan"},
             test : {"NoTest", "TestPassed", "TestFailed"},
             measured : Delivery \cup {None}]

\* Whose output a handler finds: its own container's, unless an attempt of the
\* same request was abandoned with its container still running, or its
\* directory could not be removed.
Source(d, r) ==
  IF Faults \cap {"redeliver", "crash", "remove"} = {} THEN {d}
  ELSE {x \in Delivery : reqOf[x] = r}

\* The responses a run can have: a test is judged exactly for a finished run,
\* and only a run with a result was measured.
Result(d, r) ==
  {res \in Response :
     /\ res.test # "NoTest" <=> res.status = "Finished" /\ r \in Tested
     /\ IF res.status = "NotRan" THEN res.measured = None
        ELSE res.measured \in Source(d, r)}

\* The response is there and WriteFiles has begun, or even ended.
Collect(d) ==
  /\ attempt[d] = "running"
  /\ \E res \in Result(d, reqOf[d]) : result' = [result EXCEPT ![d] = res]
  /\ \E w \in SUBSET File :
       Written(d, w) /\ writing' = [writing EXCEPT ![d] = File \ w]
  /\ Goto(d, "storing")
  /\ UNCHANGED <<msg, reqOf, record>>

\* os.Create empties a file that is still to be written.
CreateFile(d, f) ==
  /\ f \in writing[d]
  /\ files' = [files EXCEPT ![reqOf[d]][f] = Cut]
  /\ UNCHANGED <<msg, reqOf, attempt, result, writing, record>>

\* One of the concurrent writes ends.
WriteFile(d, f) ==
  /\ f \in writing[d]
  /\ Written(d, {f})
  /\ writing' = [writing EXCEPT ![d] = @ \ {f}]
  /\ UNCHANGED <<msg, reqOf, attempt, result, record>>

\* Mutant: nobody waits for the goroutines that write the files.
Publish_NoWait(d) ==
  /\ attempt[d] = "storing"
  /\ SetResult(reqOf[d], result[d])
  /\ Goto(d, "published")
  /\ UNCHANGED <<msg, reqOf, result, writing, files>>

\* All writes are over (wg.Wait) before the row gets the result.
Publish(d) ==
  /\ attempt[d] = "storing" /\ writing[d] = {}
  /\ SetResult(reqOf[d], result[d])
  /\ Goto(d, "published")
  /\ UNCHANGED <<msg, reqOf, result, writing, files>>

Finish(d) ==
  /\ attempt[d] = "published"
  /\ Answer(reqOf[d], "finished")
  /\ Goto(d, "ended")
  /\ UNCHANGED <<reqOf, result, writing, record, files>>

\* The queue delivers a message again although its handler is at work.
Redeliver(r) ==
  /\ "redeliver" \in Faults /\ msg[r] = "inflight"
  /\ msg' = [msg EXCEPT ![r] = "ready"]
  /\ UNCHANGED <<reqOf, attempt, result, writing, record, files>>

\* The loader ends: its handlers are gone, their messages come again.
Crash ==
  /\ "crash" \in Faults
  /\ attempt' = [d \in Delivery |-> IF attempt[d] = "idle" THEN "idle" ELSE "ended"]
  /\ writing' = [d \in Delivery |-> {}]
  /\ msg' = [r \in Request |-> IF msg[r] = "inflight" THEN "ready" ELSE msg[r]]
  /\ UNCHANGED <<reqOf, result, record, files>>

-----------------------------------------------------------------------------
\* What the loader does with a delivery it has taken.
Handle(d) ==
  \/ Enter(d) \/ Run(d) \/ Fail(d) \/ GiveUp(d) \/ Collect(d) \/ Publish(d) \/ Finish(d)
  \/ \E f \in File : CreateFile(d, f) \/ WriteFile(d, f)

\* What the queue does by itself.
Disturb == Crash \/ \E r \in Request : Redeliver(r)

Next ==
  \/ \E r \in Request : Submit(r) \/ Insert(r) \/ Discard(r) \/ \E d \in Delivery : Take(d, r)
  \/ \E d \in Delivery : Handle(d)
  \/ Disturb

Spec == Init /\ [][Next]_execVars
=============================================================================
