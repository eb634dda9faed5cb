------------------------------- MODULE Loader -------------------------------
(***************************************************************************)
(* The cars-loader process: the queue handler (internal/queue/queue.go),   *)
(* the container manager with its limiter and its Docker event loop        *)
(* (internal/sandbox/manager.go) and the sandbox container                 *)
(* (internal/sandbox/sandbox.go).  The NSQ daemon, the Docker daemon and   *)
(* the program in the container are external: they are modelled by what    *)
(* the loader can observe of them.                                         *)
(*                                                                         *)
(* A delivery is one invocation of handleNewCompileRequest.  It owns one   *)
(* sandbox.Container object and creates at most one Docker container, so   *)
(* the delivery also stands for that object and for the Docker id.         *)
(* A goroutine's local program position is pc[d]; every value of pc names  *)
(* the call the handler is about to make.                                  *)
(***************************************************************************)
EXTENDS Naturals, Sequences, FiniteSets

CONSTANTS
  Request,                  \* CompileMessage.ID values, one message each
  Delivery,                 \* handler invocations (bounds the deliveries)
  Tested,                   \* the requests that carry a sandbox.Test
  Late,                     \* requests whose row the API has yet to insert
  RunnerStatus,             \* statuses cars-runner writes in runner-out.json
  MaxConcurrentContainers,  \* capacity of the limiter and NSQ MaxInFlight
  MaxAttempts,              \* go-nsq's limit on the deliveries of a message, 5
  MaxCrashes,               \* bound on restarts of the loader
  Faults,                   \* the failures of the environment to consider
  None

FaultKind == {"error", "lostReply", "kill", "stream", "redeliver", "files", "repo", "remove"}

\* The file the runner leaves behind: who wrote it, the status in it, and
\* whether its output lines equal Test.ExpectedStdoutData.  A file cut short
\* does not parse: json.Unmarshal leaves the zero status, NotRan.
Output == [by : Delivery, status : RunnerStatus \cup {"NotRan"}, match : BOOLEAN]

TestStatus == {"NoTest", "TestNotRan", "TestFailed", "TestPassed"}

\* sandbox.Response: the status, the test status, and the attempt whose times
\* and memory it carries (they are zero when there is no result).
Response == [status : RunnerStatus \cup {"NotRan"}, test : TestStatus,
             measured : Delivery \cup {None}]

ContainerStatus == {"NotRan", "Created", "Running", "Killing", "Killed"}
                     \cup RunnerStatus

\* The columns of a row of the executions table.
Row == [status : ContainerStatus \cup {"NonDeterministicError"},
        test : TestStatus, measured : Delivery \cup {None}]

\* The row that CreateCompileRequest inserts.
NewRow == [status |-> "NotRan", test |-> "TestNotRan", measured |-> None]

ASSUME LoaderAssumption ==
  /\ IsFiniteSet(Delivery)
  /\ Tested \subseteq Request
  /\ Late \subseteq Request
  /\ RunnerStatus \subseteq {"Finished", "MemoryConstraintExceeded",
                             "TimeLimitExceeded", "RunTimeError"}
  /\ MaxConcurrentContainers \in Nat \ {0}
  /\ MaxAttempts \in Nat \ {0}
  /\ MaxCrashes \in Nat
  /\ Faults \subseteq FaultKind
  /\ None \notin Delivery \cup Request \cup Output \cup Row

VARIABLES
  msg,         \* NSQ: the state of each request's message
  pc,          \* the handler's next call
  reqOf,       \* the request a delivery is about
  expired,     \* deliveries whose 10 s context has expired
  limiter,     \* occupancy of ContainerManager.limiter
  containers,  \* the keys of ContainerManager.containers
  listening,   \* the event loop is running and its stream is open
  cleaning,    \* the container whose directory the event loop is removing
  status,      \* Container.status
  response,    \* Container.executionResponse
  closed,      \* Container.complete is closed
  resp,        \* the handler's local Response
  docker,      \* Docker: the life of each container
  events,      \* Docker events not yet taken by the loop, per container
  mounted,     \* containers whose /input is still the host directory
  dir,         \* the host directory of a request: Request.Path
  out,         \* runner-out.json in that directory
  record,      \* the row of the executions table
  files,       \* the delivery whose output files are stored
  crashes

nsqVars       == <<msg, reqOf, expired>>
managerVars   == <<limiter, containers>>
loopVars      == <<listening, cleaning>>
containerVars == <<status, response, closed>>
dockerVars    == <<docker, events>>
dirVars       == <<mounted, dir, out>>
storeVars     == <<record, files>>

vars == <<nsqVars, pc, managerVars, loopVars, containerVars, resp, dockerVars,
          dirVars, storeVars, crashes>>

-----------------------------------------------------------------------------
(* Values *)

\* updateStatusFromDockerEvent: the status each event but "destroy" sets.
StatusOf == [create |-> "Created", start |-> "Running",
             kill |-> "Killing", die |-> "Killed"]
Event == (DOMAIN StatusOf) \cup {"destroy"}

\* Calls made while this delivery's element is in the limiter.
InHand   == {"prepare", "create", "start", "store", "running", "select",
             "respond", "remove", "fail"}
Returned == {"done", "timedout", "errored", "lost"}
PC       == {"none", "acquire", "publish", "answer"} \cup InHand \cup Returned

Active == {d \in Delivery : pc[d] \in InHand \cup {"acquire", "publish", "answer"}}

Init ==
  /\ msg = [r \in Request |-> "ready"]
  /\ pc = [d \in Delivery |-> "none"]
  /\ reqOf = [d \in Delivery |-> None]
  /\ expired = {}
  /\ limiter = 0
  /\ containers = {}
  /\ listening = TRUE
  /\ cleaning = None
  /\ status = [d \in Delivery |-> "NotRan"]
  /\ response = [d \in Delivery |-> None]
  /\ closed = [d \in Delivery |-> FALSE]
  /\ resp = [d \in Delivery |-> None]
  /\ docker = [d \in Delivery |-> "none"]
  /\ events = [d \in Delivery |-> <<>>]
  /\ mounted = {}
  /\ dir = [r \in Request |-> "none"]
  /\ out = [r \in Request |-> None]
  /\ record = [r \in Request |-> IF r \in Late THEN None ELSE NewRow]
  /\ files = [r \in Request |-> None]
  /\ crashes = 0

Goto(d, next) == pc' = [pc EXCEPT ![d] = next]

\* An update of a row that is not there changes nothing, and neither does one
\* that fails: its error is dropped.
Change(r, row) ==
  \/ record' = IF record[r] = None THEN record ELSE [record EXCEPT ![r] = row]
  \/ "repo" \in Faults /\ UNCHANGED record

\* UpdateExecutionStatus
SetStatus(r, s) == Change(r, [record[r] EXCEPT !.status = s])

\* UpdateExecution: gorm's Updates leaves the columns alone for which the
\* struct has zero values, so without measurements the row keeps the old ones.
SetResult(r, res) ==
  Change(r, [res EXCEPT !.measured = IF @ = None THEN record[r].measured ELSE @])

\* Mutant: every message is answered as if the handler had failed.
Answer_Requeues(r, state) == msg' = [msg EXCEPT ![r] = "ready"]

\* Mutant: HandleMessage logs the error and returns nil.
Answer_SwallowsErrors(r, state) == msg' = [msg EXCEPT ![r] = "finished"]

\* What the handler's return value does to the message: nil finishes the
\* in-flight message, an error requeues it.  Discard ends that.
Answer(r, state) ==
  msg' = IF msg[r] = "inflight" THEN [msg EXCEPT ![r] = state] ELSE msg

\* Docker publishes an event; nobody buffers it for a closed stream.
Emit(d, e) ==
  events' = IF listening THEN [events EXCEPT ![d] = Append(@, e)] ELSE events

\* Mutant: cleanup does not remove the directory.
RemoveAll_Skipped(r, using) == mounted' = using /\ UNCHANGED <<dir, out>>

\* The host directory, empty if it was not there.
Present(r) == [dir EXCEPT ![r] = IF @ = "none" THEN "bare" ELSE @]

\* os.RemoveAll(Request.Path): the containers using it keep only the deleted
\* directory, in which no file can be created any more.  It can fail half-way,
\* with or without runner-out.json gone; the error is dropped by all callers.
RemoveAll(r, using) ==
  \/ /\ dir' = [dir EXCEPT ![r] = "none"]
     /\ out' = [out EXCEPT ![r] = None]
     /\ mounted' = {x \in using : reqOf[x] # r}
  \/ /\ "remove" \in Faults
     /\ dir' = Present(r)
     /\ out' \in {out, [out EXCEPT ![r] = None]}
     /\ mounted' = using

\* Mutant: a full channel does not block.
Push_Unbounded == limiter' = limiter + 1

\* s.limiter <- request.ID blocks while the channel is full.
Push == limiter < MaxConcurrentContainers /\ limiter' = limiter + 1

\* Mutant: the element stays in the channel.
Pop_Forgotten == UNCHANGED limiter

\* <-s.limiter blocks while the channel is empty.
Pop == limiter > 0 /\ limiter' = limiter - 1

-----------------------------------------------------------------------------
(* The handler *)

\* The attempts that NSQ has counted for a message.
Attempts(r) == Cardinality({d \in Delivery : reqOf[d] = r})

\* A message waits for a free handler goroutine, of which there are MaxInFlight.
Deliverable(r) == msg[r] = "ready" /\ Cardinality(Active) < MaxConcurrentContainers

\* The handler builds the sandbox.Request and marks the row.
Receive(d, r) ==
  /\ pc[d] = "none" /\ Deliverable(r) /\ Attempts(r) < MaxAttempts
  /\ msg' = [msg EXCEPT ![r] = "inflight"]
  /\ reqOf' = [reqOf EXCEPT ![d] = r]
  /\ SetStatus(r, "Created")
  /\ Goto(d, "acquire")
  /\ UNCHANGED <<expired, managerVars, loopVars, containerVars, resp,
                 dockerVars, dirVars, files, crashes>>

\* nsq.NewConfig's MaxAttempts: the goroutine finishes the message without a
\* call of HandleMessage.
Discard(r) ==
  /\ Deliverable(r) /\ Attempts(r) >= MaxAttempts
  /\ msg' = [msg EXCEPT ![r] = "finished"]
  /\ UNCHANGED <<pc, reqOf, expired, managerVars, loopVars, containerVars, resp,
                 dockerVars, dirVars, storeVars, crashes>>

\* AddContainer waits for its turn.
Acquire(d) ==
  /\ pc[d] = "acquire"
  /\ Push
  /\ Goto(d, "prepare")
  /\ UNCHANGED <<nsqVars, containers, loopVars, containerVars, resp,
                 dockerVars, dirVars, storeVars, crashes>>

\* prepare: the directory with the source, the input and runner.json.
Prepare(d) ==
  /\ pc[d] = "prepare"
  /\ dir' = [dir EXCEPT ![reqOf[d]] = "ready"]
  /\ Goto(d, "create")
  /\ UNCHANGED <<nsqVars, managerVars, loopVars, containerVars, resp,
                 dockerVars, mounted, out, storeVars, crashes>>

\* Run failed: cleanup closes the channel and removes the directory, and
\* AddContainer returns the error without taking its element back.
RunFails(d, using) ==
  /\ closed' = [closed EXCEPT ![d] = TRUE]
  /\ RemoveAll(reqOf[d], using)
  /\ Goto(d, "fail")
  /\ UNCHANGED <<nsqVars, managerVars, loopVars, status, response, resp,
                 storeVars, crashes>>

PrepareFails(d) ==
  /\ pc[d] = "prepare" /\ "error" \in Faults
  /\ RunFails(d, mounted)
  /\ UNCHANGED dockerVars

\* Docker refuses a name that is in use; the name is the request ID.
NameInUse(r) == \E x \in Delivery : reqOf[x] = r /\ docker[x] \notin {"none", "removed"}

Create(d) ==
  /\ pc[d] = "create" /\ d \notin expired /\ ~NameInUse(reqOf[d])
  /\ docker' = [docker EXCEPT ![d] = "created"]
  /\ Emit(d, "create")
  /\ Goto(d, "start")
  /\ UNCHANGED <<nsqVars, managerVars, loopVars, containerVars, resp,
                 dirVars, storeVars, crashes>>

\* The call fails for a name in use, an expired context or a daemon error.
CreateFails(d) ==
  /\ pc[d] = "create"
  /\ d \in expired \/ NameInUse(reqOf[d]) \/ "error" \in Faults
  /\ RunFails(d, mounted)
  /\ UNCHANGED dockerVars

\* The context expires after the daemon has acted: only the reply is lost.
CreateReplyLost(d) ==
  /\ pc[d] = "create" /\ "lostReply" \in Faults
  /\ d \notin expired /\ ~NameInUse(reqOf[d])
  /\ docker' = [docker EXCEPT ![d] = "created"]
  /\ Emit(d, "create")
  /\ RunFails(d, mounted)

\* The container starts and binds the directory, which Docker makes when it
\* is not there.
Start(d) ==
  /\ pc[d] = "start"
  /\ docker' = [docker EXCEPT ![d] = "running"]
  /\ Emit(d, "start")
  /\ mounted' = mounted \cup {d}
  /\ dir' = Present(reqOf[d])
  /\ Goto(d, "store")
  /\ UNCHANGED <<nsqVars, managerVars, loopVars, containerVars, resp, out,
                 storeVars, crashes>>

\* The call does not reach the daemon, or the daemon cannot start the
\* container and removes it because of AutoRemove.
StartFails(d) ==
  /\ pc[d] = "start" /\ "error" \in Faults
  /\ RunFails(d, mounted)
  /\ \/ UNCHANGED dockerVars
     \/ docker' = [docker EXCEPT ![d] = "removed"] /\ Emit(d, "destroy")

StartReplyLost(d) ==
  /\ pc[d] = "start" /\ "lostReply" \in Faults
  /\ docker' = [docker EXCEPT ![d] = "running"]
  /\ Emit(d, "start")
  /\ RunFails(d, mounted \cup {d})

\* Only now does the event loop know the container.
Store(d) ==
  /\ pc[d] = "store"
  /\ containers' = containers \cup {d}
  /\ Goto(d, "running")
  /\ UNCHANGED <<nsqVars, limiter, loopVars, containerVars, resp, dockerVars,
                 dirVars, storeVars, crashes>>

ReportRunning(d) ==
  /\ pc[d] = "running"
  /\ SetStatus(reqOf[d], "Running")
  /\ Goto(d, "select")
  /\ UNCHANGED <<nsqVars, managerVars, loopVars, containerVars, resp,
                 dockerVars, dirVars, files, crashes>>

ReportError(d) ==
  /\ pc[d] = "fail"
  /\ SetStatus(reqOf[d], "NonDeterministicError")
  /\ Answer(reqOf[d], "ready")
  /\ Goto(d, "errored")
  /\ UNCHANGED <<reqOf, expired, managerVars, loopVars, containerVars, resp,
                 dockerVars, dirVars, files, crashes>>

\* case <-complete
Completed(d) ==
  /\ pc[d] = "select" /\ closed[d]
  /\ Goto(d, "respond")
  /\ UNCHANGED <<nsqVars, managerVars, loopVars, containerVars, resp,
                 dockerVars, dirVars, storeVars, crashes>>

\* Mutant: the select has no timeout case.
WaitTimeout_Never(d) == FALSE

\* case <-time.After(maxTimeout): the handler returns nil and leaves the
\* container, its map entry and its limiter element behind.
WaitTimeout(d) ==
  /\ pc[d] = "select"
  /\ Answer(reqOf[d], "finished")
  /\ Goto(d, "timedout")
  /\ UNCHANGED <<reqOf, expired, managerVars, loopVars, containerVars, resp,
                 dockerVars, dirVars, storeVars, crashes>>

\* Mutant: the output is compared whatever the status of the run.
GetResponse_Unfinished(d) ==
  [status |-> IF response[d] = None THEN "NotRan" ELSE response[d].status,
   test   |-> IF response[d] # None /\ reqOf[d] \in Tested
              THEN IF response[d].match THEN "TestPassed" ELSE "TestFailed"
              ELSE "NoTest",
   measured |-> IF response[d] = None \/ response[d].status = "NotRan"
                THEN None ELSE response[d].by]

\* Container.GetResponse: a missing file counts as the zero ExecutionResponse.
GetResponse(d) ==
  [status |-> IF response[d] = None THEN "NotRan" ELSE response[d].status,
   test   |-> IF status[d] = "Finished" /\ reqOf[d] \in Tested
              THEN IF response[d].match THEN "TestPassed" ELSE "TestFailed"
              ELSE "NoTest",
   measured |-> IF response[d] = None \/ response[d].status = "NotRan"
                THEN None ELSE response[d].by]

\* Mutant: the output files are not written.
WriteFiles_Skipped(d) == UNCHANGED files

\* fileHandler.WriteFiles, whose error is ignored.
WriteFiles(d) ==
  \/ files' = [files EXCEPT ![reqOf[d]] = d]
  \/ "files" \in Faults /\ UNCHANGED files

\* manager.GetResponse, then WriteFiles.  For an unregistered container
\* GetResponse is nil and resp.Output would panic.
Collect(d) ==
  /\ pc[d] = "respond" /\ d \in containers
  /\ resp' = [resp EXCEPT ![d] = GetResponse(d)]
  /\ WriteFiles(d)
  /\ Goto(d, "remove")
  /\ UNCHANGED <<nsqVars, managerVars, loopVars, containerVars, dockerVars,
                 dirVars, record, crashes>>

\* RemoveContainer, which the handler only calls with kill = false.
Remove(d) ==
  /\ pc[d] = "remove"
  /\ Pop
  /\ containers' = containers \ {d}
  /\ Goto(d, "publish")
  /\ UNCHANGED <<nsqVars, loopVars, containerVars, resp, dockerVars, dirVars,
                 storeVars, crashes>>

\* UpdateExecution with the response.
Publish(d) ==
  /\ pc[d] = "publish"
  /\ SetResult(reqOf[d], resp[d])
  /\ Goto(d, "answer")
  /\ UNCHANGED <<nsqVars, managerVars, loopVars, containerVars, resp,
                 dockerVars, dirVars, files, crashes>>

\* The nil return, after which HandleMessage has the message finished.
Finish(d) ==
  /\ pc[d] = "answer"
  /\ Answer(reqOf[d], "finished")
  /\ Goto(d, "done")
  /\ UNCHANGED <<reqOf, expired, managerVars, loopVars, containerVars, resp,
                 dockerVars, dirVars, storeVars, crashes>>

-----------------------------------------------------------------------------
(* The event loop: ContainerManager.Start *)

NextEvent(d) == listening /\ cleaning = None /\ events[d] # <<>>

Take(d) == events' = [events EXCEPT ![d] = Tail(@)]

\* Mutant: "die" falls through to handleContainerRemoved.
IsRemoval_Dies(e) == e \in {"die", "destroy"}

\* The event that updateStatusFromDockerEvent takes for the removal.
IsRemoval(e) == e = "destroy"

\* getContainer finds nothing: the event is lost.
DropEvent(d) ==
  /\ NextEvent(d) /\ d \notin containers
  /\ Take(d)
  /\ UNCHANGED <<nsqVars, pc, managerVars, loopVars, containerVars, resp,
                 docker, dirVars, storeVars, crashes>>

UpdateStatus(d) ==
  /\ NextEvent(d) /\ d \in containers /\ ~IsRemoval(Head(events[d]))
  /\ Take(d)
  /\ status' = [status EXCEPT ![d] = StatusOf[Head(events[d])]]
  /\ UNCHANGED <<nsqVars, pc, managerVars, loopVars, response, closed, resp,
                 docker, dirVars, storeVars, crashes>>

\* Mutant: the output that was read is not kept.
GetSandboxRunnerOutput_NotKept(d) ==
  /\ status' = [status EXCEPT ![d] = IF out[reqOf[d]] = None THEN @ ELSE out[reqOf[d]].status]
  /\ UNCHANGED response

\* getSandboxRunnerOutput reads runner-out.json, if there is one, and takes
\* the status over; handleContainerRemoved keeps what was read.
GetSandboxRunnerOutput(d) ==
  LET file == out[reqOf[d]] IN
    /\ response' = [response EXCEPT ![d] = file]
    /\ status' = [status EXCEPT ![d] = IF file = None THEN @ ELSE file.status]

\* Mutant: the event loop deletes the removed container from the map.
HandleRemoved_Deletes(d) ==
  /\ NextEvent(d) /\ d \in containers /\ IsRemoval(Head(events[d]))
  /\ Take(d)
  /\ containers' = containers \ {d}
  /\ GetSandboxRunnerOutput(d)
  /\ closed' = [closed EXCEPT ![d] = TRUE]
  /\ cleaning' = d
  /\ UNCHANGED <<nsqVars, pc, limiter, listening, resp, docker, dirVars,
                 storeVars, crashes>>

\* handleContainerRemoved: the output is read, then cleanup closes the channel.
HandleRemoved(d) ==
  /\ NextEvent(d) /\ d \in containers /\ IsRemoval(Head(events[d]))
  /\ Take(d)
  /\ GetSandboxRunnerOutput(d)
  /\ closed' = [closed EXCEPT ![d] = TRUE]
  /\ cleaning' = d
  /\ UNCHANGED <<nsqVars, pc, managerVars, listening, resp, docker, dirVars,
                 storeVars, crashes>>

\* The rest of cleanup runs after the handler has been woken.
RemoveDir ==
  /\ cleaning # None
  /\ RemoveAll(reqOf[cleaning], mounted)
  /\ cleaning' = None
  /\ UNCHANGED <<nsqVars, pc, managerVars, listening, containerVars, resp,
                 dockerVars, storeVars, crashes>>

\* The stream ends with an error.  Its error channel is closed from then on,
\* always ready, and the loop never opens another stream.
StreamFails ==
  /\ listening /\ "stream" \in Faults
  /\ listening' = FALSE
  /\ events' = [d \in Delivery |-> <<>>]
  /\ UNCHANGED <<nsqVars, pc, managerVars, cleaning, containerVars, resp,
                 docker, dirVars, storeVars, crashes>>

\* SIGTERM: main stops the manager first; handlers go on until the exit.
Stop ==
  /\ listening /\ crashes < MaxCrashes
  /\ listening' = FALSE
  /\ events' = [d \in Delivery |-> <<>>]
  /\ UNCHANGED <<nsqVars, pc, managerVars, cleaning, containerVars, resp,
                 docker, dirVars, storeVars, crashes>>

\* The process ends and is started again: handlers, limiter and map are gone,
\* the new stream begins with the events of now, and NSQ requeues what was in
\* flight on the lost connection.
Restart ==
  /\ crashes < MaxCrashes
  /\ crashes' = crashes + 1
  /\ pc' = [d \in Delivery |-> IF pc[d] \in {"none", "done"} THEN pc[d] ELSE "lost"]
  /\ limiter' = 0
  /\ containers' = {}
  /\ listening' = TRUE
  /\ cleaning' = None
  /\ events' = [d \in Delivery |-> <<>>]
  /\ msg' = [r \in Request |-> IF msg[r] = "inflight" THEN "ready" ELSE msg[r]]
  /\ UNCHANGED <<reqOf, expired, containerVars, resp, docker, dirVars,
                 storeVars>>

-----------------------------------------------------------------------------
(* The environment *)

\* The API inserts the row after it has submitted the message.
Insert(r) ==
  /\ record[r] = None
  /\ record' = [record EXCEPT ![r] = NewRow]
  /\ UNCHANGED <<nsqVars, pc, managerVars, loopVars, containerVars, resp,
                 dockerVars, dirVars, files, crashes>>

\* The 10 s context, made before AddContainer, runs out at the full limiter.
Expire(d) ==
  /\ pc[d] = "acquire" /\ d \notin expired
  /\ limiter = MaxConcurrentContainers
  /\ expired' = expired \cup {d}
  /\ UNCHANGED <<msg, pc, reqOf, managerVars, loopVars, containerVars, resp,
                 dockerVars, dirVars, storeVars, crashes>>

\* NSQ's message timeout (60 s) while the handler still waits there: the
\* message is queued again although its handler has not given up.
Redeliver(d) ==
  /\ pc[d] = "acquire" /\ d \in expired /\ "redeliver" \in Faults
  /\ limiter = MaxConcurrentContainers
  /\ msg[reqOf[d]] = "inflight"
  /\ msg' = [msg EXCEPT ![reqOf[d]] = "ready"]
  /\ UNCHANGED <<pc, reqOf, expired, managerVars, loopVars, containerVars, resp,
                 dockerVars, dirVars, storeVars, crashes>>

Kill(d) ==
  /\ docker[d] = "running" /\ "kill" \in Faults
  /\ docker' = [docker EXCEPT ![d] = "killing"]
  /\ Emit(d, "kill")
  /\ UNCHANGED <<nsqVars, pc, managerVars, loopVars, containerVars, resp,
                 dirVars, storeVars, crashes>>

\* What a runner can leave behind: nothing when it was killed or found no
\* runner.json, otherwise its result in the directory it has mounted.
RunnerFile(d) ==
  {out[reqOf[d]]} \cup
    IF d \in mounted /\ dir[reqOf[d]] = "ready"
    THEN {o \in Output : o.by = d /\ (o.match => o.status = "Finished")}
    ELSE {}

\* The container's process ends.
Exit(d) ==
  /\ docker[d] \in {"running", "killing"}
  /\ docker' = [docker EXCEPT ![d] = "exited"]
  /\ Emit(d, "die")
  /\ \E file \in RunnerFile(d) : out' = [out EXCEPT ![reqOf[d]] = file]
  /\ mounted' = mounted \ {d}
  /\ UNCHANGED <<nsqVars, pc, managerVars, loopVars, containerVars, resp, dir,
                 storeVars, crashes>>

\* HostConfig.AutoRemove, which every profile sets.
AutoRemove(d) ==
  /\ docker[d] = "exited"
  /\ docker' = [docker EXCEPT ![d] = "removed"]
  /\ Emit(d, "destroy")
  /\ UNCHANGED <<nsqVars, pc, managerVars, loopVars, containerVars, resp,
                 dirVars, storeVars, crashes>>

-----------------------------------------------------------------------------
HandlerStep(d) ==
  \/ Acquire(d) \/ Prepare(d) \/ PrepareFails(d)
  \/ Create(d) \/ CreateFails(d) \/ CreateReplyLost(d)
  \/ Start(d) \/ StartFails(d) \/ StartReplyLost(d)
  \/ Store(d) \/ ReportRunning(d) \/ ReportError(d)
  \/ Completed(d) \/ WaitTimeout(d)
  \/ Collect(d) \/ Remove(d) \/ Publish(d) \/ Finish(d)

LoopStep == RemoveDir \/ \E d \in Delivery : DropEvent(d) \/ UpdateStatus(d) \/ HandleRemoved(d)

DockerStep(d) == Exit(d) \/ AutoRemove(d)

Next ==
  \/ \E d \in Delivery : \/ \E r \in Request : Receive(d, r)
                         \/ HandlerStep(d) \/ DockerStep(d)
                         \/ Expire(d) \/ Redeliver(d) \/ Kill(d)
  \/ LoopStep \/ StreamFails \/ Stop \/ Restart
  \/ \E r \in Request : Insert(r) \/ Discard(r)

Spec == Init /\ [][Next]_vars

\* Goroutines are scheduled, the loop polls every 50 ms, and the runner's own
\* 10 s context ends every container.  Nothing makes messages arrive, calls
\* fail, or the process stop.
Fairness ==
  /\ \A d \in Delivery : WF_vars(HandlerStep(d)) /\ WF_vars(DockerStep(d))
  /\ WF_vars(LoopStep)

FairSpec == Spec /\ Fairness
-----------------------------------------------------------------------------
(* Properties *)

\* Every variable has the type the code gives it; the executions row never
\* holds a status that ContainerStatus.String() does not produce.
TypeOK ==
  /\ msg \in [Request -> {"ready", "inflight", "finished"}]
  /\ pc \in [Delivery -> PC]
  /\ reqOf \in [Delivery -> Request \cup {None}]
  /\ expired \subseteq Delivery
  /\ limiter \in 0 .. MaxConcurrentContainers
  /\ containers \subseteq Delivery
  /\ listening \in BOOLEAN
  /\ cleaning \in Delivery \cup {None}
  /\ status \in [Delivery -> ContainerStatus]
  /\ response \in [Delivery -> Output \cup {None}]
  /\ closed \in [Delivery -> BOOLEAN]
  /\ resp \in [Delivery -> Response \cup {None}]
  /\ docker \in [Delivery -> {"none", "created", "running", "killing",
                               "exited", "removed"}]
  /\ events \in [Delivery -> Seq(Event)]
  /\ mounted \subseteq Delivery
  /\ dir \in [Request -> {"none", "bare", "ready"}]
  /\ out \in [Request -> Output \cup {None}]
  /\ record \in [Request -> Row \cup {None}]
  /\ files \in [Request -> Delivery \cup {None}]
  /\ crashes \in 0 .. MaxCrashes

\* A handler that was woken by the complete channel finds its container in
\* the manager's map: manager.GetResponse is not nil, and resp.Output in
\* handleNewCompileRequest does not panic.
ResponseRegistered ==
  \A d \in Delivery : pc[d] = "respond" => d \in containers

\* The event loop never closes Container.complete a second time (a panic that
\* would end the loader): a "destroy" event that is still to be handled for a
\* registered container finds the channel open.
NoDoubleClose ==
  \A d \in containers :
    (\E i \in DOMAIN events[d] : events[d][i] = "destroy") => ~closed[d]

\* The handler never judges a run by a status that is not the runner's: once
\* complete is closed, the Container status GetResponse compares with Finished
\* is the one in the file it was read with, late Docker events
\* notwithstanding; so executionResponse is there when it is dereferenced.
VerdictFaithful ==
  \A d \in containers : closed[d] =>
    /\ response[d] # None => status[d] = response[d].status
    /\ status[d] = "Finished" => response[d] # None

\* The elements of the limiter are exactly those of the handlers between
\* AddContainer and RemoveContainer and of the handlers that returned early,
\* after an error or a timeout.  In particular <-s.limiter in RemoveContainer
\* never takes another handler's element and never blocks.
Leaked == {d \in Delivery : pc[d] \in {"timedout", "errored"}}
Holding == {d \in Delivery : pc[d] \in InHand} \cup Leaked
SlotAccounting == limiter = Cardinality(Holding)

\* A handler can only be stuck at the limiter of AddContainer because of
\* earlier handlers that returned without RemoveContainer, since NSQ runs no
\* more than MaxConcurrentContainers handlers at a time.
BlockedOnlyByLeak ==
  \A d \in Delivery :
    pc[d] = "acquire" /\ limiter = MaxConcurrentContainers => Leaked # {}

\* What the handler publishes was computed from the output of its own
\* container, not from a file another attempt left in the directory that all
\* attempts of a request share: if NSQ redelivers only after the answer, the
\* loader does not crash, and cleanup's os.RemoveAll does not fail.
ResultIsOwn ==
  \A d \in Delivery : response[d] # None => response[d].by = d

\* The API reads the row before the files, so a row with a result of the
\* runner promises that the output files are already stored.
FilesBeforeRecord ==
  \A r \in Request :
    record[r] # None /\ record[r].status \in RunnerStatus => files[r] # None

\* GetResponse reads the Container without a lock while the event loop may
\* still run: after complete is closed no step changes what it reads.
ClosedFrozen ==
  [][\A d \in Delivery : closed[d] =>
       status'[d] = status[d] /\ response'[d] = response[d]]_vars

\* A result that a handler has published in the row is never overwritten by
\* another handler of the same request, as long as NSQ redelivers only after
\* the handler's answer.
ResultStable ==
  [][\A d \in Delivery :
       pc[d] \in {"answer", "done"} => record'[reqOf[d]] = record[reqOf[d]]]_vars

\* A message that NSQ considers handled has the result of a handler in its
\* row, with two exceptions: its handler timed out, and the row says Running;
\* or all of its MaxAttempts handlers returned an error, and the row says
\* NonDeterministicError.
AnsweredMeansReported ==
  \A r \in Request : msg[r] = "finished" =>
    \/ \E d \in Delivery :
         /\ reqOf[d] = r
         /\ \/ pc[d] = "done" /\ record[r] = resp[d]
            \/ pc[d] = "timedout" /\ record[r].status = "Running"
    \/ /\ Attempts(r) >= MaxAttempts
       /\ \A d \in Delivery : reqOf[d] = r => pc[d] = "errored"
       /\ record[r].status = "NonDeterministicError"

\* A handler that got past the limiter returns: no call it makes can wait for
\* ever, neither on the complete channel nor in RemoveContainer.
HandlerReturns ==
  \A d \in Delivery : pc[d] \in InHand ~> pc[d] \in Returned

\* A registered container, even one whose handler has timed out, is told of
\* its removal: complete is closed, and its directory is removed if cleanup's
\* os.RemoveAll does not fail.
RemovalHandled ==
  \A d \in Delivery :
    (d \in containers /\ docker[d] # "removed")
      ~> (closed[d] /\ ("remove" \in Faults \/ dir[reqOf[d]] = "none"))

-----------------------------------------------------------------------------
(* The inductive invariant behind the safety properties *)

\* A delivery that has begun is about a request; only such deliveries are
\* cleaned up after, registered, or known to Docker.
Assigned ==
  \A d \in Delivery :
    /\ pc[d] # "none" => reqOf[d] \in Request
    /\ cleaning = d => pc[d] # "none"
    /\ pc[d] \in {"remove", "publish", "answer"} => resp[d] # None

\* How far the handler is tells what Docker, the map and the channel can be.
Phase ==
  \A d \in Delivery :
    /\ pc[d] \in {"none", "acquire", "prepare", "create"} => docker[d] = "none"
    /\ pc[d] = "start" => docker[d] = "created"
    /\ pc[d] \in {"none", "acquire", "prepare", "create", "start", "store"}
         => ~closed[d] /\ d \notin containers
    /\ pc[d] \in {"running", "select", "respond", "remove"} => d \in containers

\* Docker's "destroy" is the last event of a container.
EventOrder ==
  \A d \in Delivery : \A i \in 1 .. Len(events[d]) :
    events[d][i] = "destroy" => i = Len(events[d]) /\ docker[d] = "removed"

\* A registered container whose channel is closed has no event to come.
ClosedDrained ==
  \A d \in containers : closed[d] => docker[d] = "removed" /\ events[d] = <<>>

\* Only handleContainerRemoved gives a container a status of the runner.
Unjudged == \A d \in Delivery : ~closed[d] => status[d] # "Finished"

\* All of it.  SlotAccounting and the bound on handlers need no more than
\* TypeOK and are proved apart.
IInv == TypeOK /\ Assigned /\ Phase /\ EventOrder /\ ClosedDrained
             /\ Unjudged /\ VerdictFaithful

\* NSQ never runs more handlers than MaxInFlight.
ActiveBound == Cardinality(Active) <= MaxConcurrentContainers

-----------------------------------------------------------------------------
(* What the loader promises to the API *)

OutputFiles == {"output", "outputErr", "compilerOutput"}

\* The handler's calls, seen from outside.
AttemptOf(p) ==
  CASE p = "none"                           -> "idle"
    [] p = "acquire"                        -> "waiting"
    [] p \in {"select", "respond"}          -> "running"
    [] p \in {"remove", "publish"}          -> "storing"
    [] p = "answer"                         -> "published"
    [] p \in Returned                       -> "ended"
    [] OTHER                                -> "taken"

Exec == INSTANCE Execution WITH
  File    <- OutputFiles,
  Faults  <- Faults \cup (IF MaxCrashes > 0 THEN {"crash"} ELSE {}),
  attempt <- [d \in Delivery |-> AttemptOf(pc[d])],
  result  <- resp,
  writing <- [d \in Delivery |-> {}],
  files   <- [r \in Request |-> [f \in OutputFiles |-> files[r]]]

\* Limiter, map, event loop, directories and Docker, with all their failures,
\* never make the handler do anything to the message, the row or the output
\* files that Execution does not allow: results only for runs that went on
\* to their end, tests judged exactly for finished runs, rows after files.
Implements == Exec!Spec

-----------------------------------------------------------------------------
(* What comments of the code promise, and the runs refute *)

\* sandbox.go:268-270, "Everything after this point will be based on the
\* stream of data being produced by the docker stream": for a container that
\* was started, the stream leads to the end of the execution.
StreamCompletes ==
  \A d \in Delivery : docker[d] = "running" ~> closed[d]
=============================================================================
