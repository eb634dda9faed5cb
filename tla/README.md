# A verification of cars (compile and run sandbox)

TLA+ models of the parts of cars that carry its logic, the TLC runs that check
them on small instances, and TLAPS proofs of the safety results for every
instance. Source references are to files under `src/`.

## The system

A client asks the API to compile and run a program. The API stores the source,
puts a message on a queue and inserts a row in the `executions` table. A
loader takes the message, prepares a directory, starts a Docker container on
it and waits for Docker's event stream to say that the container is gone; then
it reads the result that the runner in the container left in the directory,
stores the output files and updates the row, which the client polls.

| Component | Source | State | Operations | Talks to |
|---|---|---|---|---|
| API server | `internal/api/consumer/server.go`, `cmd/services/cars-api/main.go` | calls under way | `CreateCompileRequest`, `GetCompileResultRequest`, `GetTemplate`, `GetSupportedLanguages`, `Ping` | file store, queue, repository |
| gRPC and validation | `internal/gen/pb/content/consumer/v1` | lookups of languages | dispatch, `validate` | API server |
| Queue handler | `internal/queue/queue.go` | one goroutine per message | `handleNewCompileRequest` | manager, repository, file store |
| NSQ consumer | `internal/queue/nsq.go` | messages in flight | `HandleMessage` | NSQ |
| SQS consumer | `internal/queue/sqs.go` | poll loop, stop flag | `startPollingMessages`, `Stop` | SQS |
| Container manager | `internal/sandbox/manager.go` | limiter channel, container map, stop flag | `AddContainer`, `RemoveContainer`, `GetResponse`, `Start`, `Stop` | containers, Docker |
| Sandbox container | `internal/sandbox/sandbox.go` | status, response, complete channel, directory | `Run`, `AddDockerEventMessage`, `GetResponse` | Docker |
| Runner | `cmd/services/cars-runner/main.go`, `internal/pid/pid.go` | three goroutines, three contexts | `compileProject`, `runProject`, `StreamPid` | the program, the directory |
| Repository | `internal/repository` | rows | insert, update, get | Postgres |
| File store | `internal/files` | files per request | `WriteFile(s)`, `GetFile` | disk or S3 |
| Languages and templates | `internal/sandbox/compiler.go` | `Compilers`, templates | `LoadEmbeddedTemplateFiles` | embedded files |
| Profiles and environment | `internal/sandbox/profile.go`, `internal/config`, `internal/docker` | two `sync.Once`, current environment, profiles | `GetProfileForMachine`, `GetCurrentEnvironment`, `IsGvisorInstalled` | environment, `daemon.json` |
| Flags, units, paths, container-builder | `internal/parser`, `internal/memory`, `cmd/tools` | none | parsing | |

What is hard about it: handlers run concurrently with the single event loop
and share the limiter, the map and, without a lock, the `Container`; Docker
events can arrive before the container is registered; a call can fail although
Docker has acted; every wait has a timeout after which somebody else must clean
up; NSQ repeats messages, and gives them up after five attempts; all attempts of a message share one directory and one
container name; and nearly every error of a store is ignored, so the order of
the calls is all that a reader can rely on. In the runner, a kill, a reap, a
closed channel and a sample race each other. The API makes its three stores one
after the other without a transaction, while the loader is already at work on
the first of them, and reads them in the same way. The SQS loop waits for its
whole batch. Profiles are shared through a pointer that the first handler
changes.

Correct means: the loader does not panic; a result belongs to the run it is
reported for and is not overwritten; a row with a result has its files; a
message is not answered without a result in its row (except after the
handler's timeout, and when NSQ has given the message up); the limiter counts what it should; waits end. For the runner: every status it
writes is justified by what the program did, and it always ends. For the API:
an id that was given out can be used, its request comes to an end, and a
response does not mix two runs. For SQS: nothing is deleted unhandled, and
only a limiter full of leaked elements stops the polling.
`PROJECT.json` lists each hazard at its line with the properties about it.

## Modules

### `Loader`: handler, manager, container

A *delivery* is one call of `handleNewCompileRequest`. It makes one `Container`
object and at most one Docker container, so the delivery names all three.

| Variable | Code |
|---|---|
| `pc[d]` | the call the handler makes next; `done`, `timedout`, `errored` are its returns, `lost` a handler that ended with the process |
| `msg`, `reqOf`, `expired` | NSQ's message states, `compileMsg.ID`, the 10 s context of `queue.go:101` |
| `limiter`, `containers` | number of elements in `ContainerManager.limiter`, keys of `ContainerManager.containers` |
| `listening`, `cleaning` | the loop of `Start` is running on an open stream; it is between `close(d.complete)` and `os.RemoveAll` |
| `status`, `response`, `closed` | `Container.status`, `.executionResponse`, `.complete` |
| `resp` | the handler's local `Response` |
| `docker`, `events`, `mounted` | Docker's view of the container, the events not yet taken, whether `/input` is still the host directory |
| `dir`, `out` | `Request.Path` (absent, made by Docker, or prepared), and `runner-out.json` in it |
| `record`, `files` | the row's status and test status, whose output files are stored |

The actions follow the code in order: `Receive` (or `Discard`: the consumer is
made with `nsq.NewConfig()`, `nsq.go:76`, so go-nsq finishes a message that has
had `MaxAttempts` deliveries without a call of the handler), `Acquire` (the
blocking send),
`Prepare`, `Create`, `Start`, `Store`, `ReportRunning`, then the `select`:
`Completed` or `WaitTimeout`; `Collect` (`GetResponse` and `WriteFiles`),
`Remove`, `Publish`, `Finish`. Each Docker call has its failing form: refused
(`...Fails`) or done but not reported (`...ReplyLost`); all go through
`RunFails`, the code's `cleanup`, and `ReportError`. The event loop takes one
event at a time: `DropEvent` (container not in the map), `UpdateStatus`,
`HandleRemoved` and then `RemoveDir`, since the channel is closed before the
directory is removed. `RemoveAll` can fail (`"remove" \in Faults`) and leave the
directory, with or without `runner-out.json`; all three callers of `cleanup` drop
its error (`sandbox.go:174`, `:179`, `:398`). `StreamFails`, `Stop` and `Restart` are the loop's and
the process's ends. `Redeliver`, `Kill`, `Exit` and `AutoRemove` are NSQ and
Docker. Which faults can happen is the constant `Faults`.

Abstractions: files and rows have no text; a file of the runner is its writer,
its status and whether its lines equal the expected ones. Time is abstract: a
timeout may happen whenever its wait is on. `RemoveContainer`'s `<-limiter` and
`Delete` are one step: nothing reads the entry in between. The order of waiting
senders of the limiter is left open (Go serves them first come, first served);
no property depends on it. The zero response that `GetResponse` stores is not
kept, as it is read only by that call. The three output files are written in
one step here; `Execution` takes them apart. `Late` are the requests whose row
is inserted after their message was delivered. An update of a row that is not
there, or that fails, changes nothing, and a zero measurement does not
overwrite an older one (gorm's `Updates`).

### `Execution`: what the loader promises

The same handler seen by the rest of the system: message, row and output files,
and no limiter, map, directory or Docker. A delivery is *waiting* (for the
limiter of `AddContainer`, perhaps for ever), *taken*, *running*, *storing*,
*published*, *ended*. Files are single: `os.Create` empties one
before it is filled, the writes of a delivery run concurrently, and only
`Publish` waits for them. `Loader` defines `Exec == INSTANCE Execution WITH`
positions mapped by `AttemptOf`, its `resp` as `result` and its one-step writes
as writes of all files; `Implements == Exec!Spec` is checked as a property and
proved (`Refinement`).
Names of actions are those of the calls; `Fail` and `GiveUp` are the two early
returns of `handleNewCompileRequest`, `Discard` is go-nsq's. Whose output a result
comes from (`Source`) is left open when the loader can crash, NSQ redelivers, or a
directory cannot be removed, as it is in the code.

### `Api`: server, reader, queue and loader together

`Api` extends `Execution`. `create[r]` is how far `CreateCompileRequest` is:
write the source (error ignored), submit, insert, answer; each store can refuse
or do its work and lose the reply. `read[c]` and `view[c]` are
`GetCompileResultRequest`: the row first, then three files, one step each.
`loaded[d]` is the source the handler got. Because `Loader` implements
`Execution`, what `Api` shows of rows and files holds with the real loader.

### `Rpc`: the calls that keep no state

Start-up of `cars-api` (templates are loaded before the server listens), the
handlers generated for the service, the validation of each request (lengths and
the two lookups of language codes) and the methods of `Server`. A code is a
name and a source is its length. A method of the interface that `Server` does
not have is answered by `UnimplementedConsumerServiceServer`.

### `SqsQueue`: polling, batches, deletion

The goroutine of `startPollingMessages` with its wait group, one goroutine per
message, the deferred delete, and SQS's visibility timeout. A handler is its two
outcomes for the limiter: it gives its element back, or returned early and
leaves it there, as often as it likes; with a full limiter the loop is `Stuck`.
`Stop` sets the flag on a copy: no variable of the loop changes.

### `Verdict`: output lines and comparison

The scanner loop of `runProject` and the comparison loop of `GetResponse`,
step by step, over all outputs and expectations of a few lines, against their
definitions on whole sequences. A line is its text, whether it ends in `\r`, and
whether it fits into the scanner's buffer.

### `Startup`: environment, profile, gVisor check

The first handlers of a loader in `GetProfileForMachine`, which a handler calls
when a message arrives (`CallGetProfile`): two `sync.Once` with
goroutines waiting in them, the raw environment value stored before it is
validated, and the profile that the first handler changes through a pointer.
The environment variable and `daemon.json` may change under way.

### `Runner`: the process in the container

`pc` is the main goroutine, `waiter` the goroutine around `cmd.Wait`, `stream`
that of `StreamPid`. A `Wait` (reap, `ProcessState` set) is separate from
`CloseDone` (`pidDone` closed) because the sampler may find `/proc` empty in
between. A send of the sampler and the receive of the loop are one step
(`Watch`), or `SendDone` wins. `ExpireMain`, `ExpireCompile` and `ExpireRun` are the three timers;
a derived context is also done with its parent (`Done`). The program uses any
amount of memory up to `MaxMemory`, ends at any time or never; `peak` is what
the kernel reports as `Maxrss`. Command templates are constants of the
repository and always parse, so that error is left out. A compile command is
one step: it ends by itself or is killed at its deadline. (`CombinedOutput`
also waits for the pipe; a compiler that leaves a child behind with the pipe
open would hold it up. That is not modelled.) A sample is what `statFromProc`
makes of the line in `/proc/<pid>/stat`: `ProcStat` has the line as tokens, the
positions of the fields, and the page size with and without `getconf`. Memory is
counted in pages of 4096 bytes. `Rename` lets the program put blanks in its name.

### Proof and `MC` modules

`LoaderProofs` and `LoaderRefinement` prove about `Loader`; `RunnerProofs`,
`ApiProofs`, `RpcProofs`, `SqsProofs`, `VerdictProofs` and `StartupProofs` about
the module in their name; see *Proofs*. `MCLoader` and `MCApi` hold the sets that
the configurations of `Loader` and `Api` choose from.

Definitions whose name has a suffix after an underscore, with a comment that
starts with *Mutant*, are variants of the definition below them with a
plausible mistake; they are in no specification. Each property is violated when
one of them takes the place of the original, as listed in `PROJECT.json`.

## Runs

| Run | Instance | Checks |
|---|---|---|
| `loader` | 2 requests, 3 deliveries, limiter 2, refused and lost calls, kills | `ResponseRegistered`, `VerdictFaithful`, `ClosedFrozen`: no panic, and no verdict from anything but the runner's status; `AnsweredMeansReported`, `ResultIsOwn`, `FilesBeforeRecord`, `ResultStable`: what is published, through retries, up to the last one |
| `loader_liveness` | 2 requests, 3 deliveries, limiter 1, the same faults and redelivery, fair | `HandlerReturns`, `RemovalHandled`, `BlockedOnlyByLeak` with a limiter that is full at once, and `Implements` for two requests |
| `loader_implements` | 1 request with a late row, 2 deliveries, limiter 2, every fault but redelivery (failing removals included), one stop or crash | `Implements`, `IInv`, `SlotAccounting`, `NoDoubleClose` through a retry and a restart that finds old containers |
| `runner` | 2 compile steps, up to 2 pages of 4096 or 8192 bytes and a limit of 8192 bytes, names of up to 3 words | `UsageAfterWait`, `FinishedIsClean`, `MemoryVerdictSound`, `KilledIsReported`, `RunnerEnds` |
| `api` | 1 request, 2 deliveries, 1 reader, 1 file, failing queue and repository, redelivery, crashes, fair | `ReadConsistent`, `SourceLoaded`, `RowHasMessage`, `IdIsUsable`, `Handled` |
| `rpc` | 2 concurrent calls, 4 codes, lengths around both limits | `ListedIsServed` |
| `sqs` | 3 messages, one without a body, 3 workers, batches of 2, any number of early returns, 1 restart, fair | `NoOverlap`, `DeletedMeansHandled`, `BatchEnds`, and in `TypeOK` the balance of the wait group |
| `verdict` | outputs and expectations of a few lines, two lines kept of up to three written, one line too long for the buffer | `KeptExact`, `VerdictExact` |
| `startup` | 2 handlers, 2 changes from outside, fair | `ProfileFound`, `RuntimeInstalled`, `OneProfile`, `ProfileReturned` |

Three runs show where code and comments disagree:

- `loader_stream`: `sandbox.go:268` says that everything after the start is
  driven by Docker's stream. The container is stored in the map after it was
  started; if it is gone before that, its events are dropped, and only the
  timeout ends the handler.
- `api_late_insert`: the message is submitted (`server.go:97`) before the row is
  inserted (`:104`). If the loader is faster, its updates find no row, and the
  insert leaves `NotRan` for a request that was executed and answered.
- `sqs_stop`: `sqs.go:34-36` speaks of "a stop flag for each iteration to check",
  and `:46` of breaking out of the goroutine when told to stop. `Stop` has a value
  receiver and sets the flag on a copy; the goroutine checks its own and polls on.

Other disagreements the models contain, without a run of their own:

- a handler that returns early never pops the limiter, although `manager.go:23`
  says it is popped when the container is removed (`Leaked`, `SlotAccounting`,
  `BlockedOnlyByLeak` say exactly what follows);
- a program whose `runner-out.json` is missing is published as `NotRan`, "has
  not yet executed" (`sandbox.go:37`);
- an attempt without a result leaves the measurements of an earlier one in the
  row (`SetResult`);
- `consumer.proto:140-143` and `ENDPOINTS.md:41` promise `NoTest` when no
  expected output was given, and otherwise "a value related to the test result".
  The code differs in both directions: a request with input and no expected
  output is compared with an empty list (`HasTest`, `queue.go:113`), and a run
  that was stopped is `NoTest` whatever was expected (`sandbox.go:412`).
  `VerdictExact` says nothing of these two cases, except that a test that passed
  was a finished run with exactly the expected output;
- output cut at 1000 lines or at a line that is too long can pass a test (`Scan`);
- `cars-runner/main.go:324` maps an error of the compiler by way of `runtimeErr`,
  which is nil there, so a compilation stopped at its deadline is written as
  `RunTimeError` (`ResponseCode`), although `main.go:97-99` asks the context
  "to see if the timeout was executed";
- a blank in the program's name shifts the fields of `/proc/<pid>/stat`, so
  that the virtual size is taken for the resident pages (`MemoryVerdictSound`
  excludes such names);
- `Server` has methods `CreateCompileRequest` and `GetCompileResultRequest`, the
  generated interface `CreateCompile` and `GetCompileResult`: these calls are
  answered `Unimplemented` (`Resolves`). `Api` models the two methods as called
  under the names they have.

Properties that hold only without some faults are checked without them:
`ResultStable` and `AnsweredMeansReported` do not hold when NSQ redelivers
while a handler is still waiting, or after a crash between `UpdateExecution`
and the answer; `ResultIsOwn` does not hold after a crash, when a killed
container's attempt can find the file of the attempt before it, nor when the
directory of that attempt could not be removed: a lost-reply container that still
writes there, or root-owned files a compiler left in `/input`, are enough. The
mutant `RemoveAll_Skipped` shows what follows. `RemovalHandled` promises the close
of the channel always, and the removal of the directory only if `os.RemoveAll`
succeeds. `AnsweredMeansReported` has two exceptions that are part of it: the
handler's timeout, after which the row says `Running`, and go-nsq's give-up, after
which it says `NonDeterministicError`; a container that a lost reply left in
`created` makes every retry fail at its name, so the second is no rarity.
`FilesBeforeRecord` and `SourceLoaded` need a file store that works, since its
error is ignored. `ReadConsistent` is about requests of which one attempt had a
result: the reader of a second one's row can find the first one's files.

**Bounds.** Two requests and two handlers are enough for every interference in
`Loader`: handlers meet in the limiter, in the event loop, and, for the same
request, in the directory and the container name. A third delivery lets a
handler wait behind two other elements of a limiter of two, and gives a failed
attempt a retry while another request is running. `Delivery` bounds the
deliveries, `MaxCrashes` the restarts. `MaxAttempts` is 2, go-nsq's default is 5:
with 2 a message is given up after a retry within the deliveries there are. Two statuses of the runner stand for
those with a verdict and those without. Two compile steps let the second
overwrite the first's error; memory below, at and above the limit, in both page
sizes, is all that the runner compares. In `Api` one
status of the runner is enough next to the loader's own, as no property there
tells them apart; a second delivery is a retry or a concurrent redelivery, and requests share nothing there but the deliveries;
one file is empty, written or missing when it is read, and the two reads after
it find nothing. `Faults` gives `Crash` and
`Redeliver` no bound. In `SqsQueue` three workers are one more than a batch, so
an overlap could happen; handlers return early without a bound, so the limiter of
two can fill up and the loop get stuck. Deadlock is not checked where the system may
stop: the loader has no more messages, the runner's end is its purpose, the
calls of `Api` and `Rpc` are over, a verdict is given; `SqsQueue`
can get `Stuck`, and `BatchEnds` says that nothing else stops it. Deliveries
are interchangeable, so `loader` and `loader_implements`, whose properties are
safety properties (the refinement too), use symmetry; runs with liveness
properties do not.

**Fairness.** `Loader`: weak fairness of each handler's goroutine, of the event
loop, and of each container's end and removal. Go schedules its goroutines, the
loop polls, and a container ends because the runner does (`RunnerEnds`) and is
removed because every profile sets `AutoRemove`. No message is promised to
arrive, no call to succeed, and a handler at a full limiter is not promised to
get in. `Runner`: weak fairness of its goroutines, of the timers, and of the
kill by `exec.CommandContext`; none for the program. `Api`: a call that has begun
goes on. A delivery past the limiter goes on, which is `HandlerReturns` of
`Loader`; one that waits there (`"waiting"`) is promised nothing, and keeps its
goroutine. NSQ delivers what is ready while nobody waits; `Handled` is therefore
stated for behaviours in which, again and again, nobody does. No client has to
call. `SqsQueue`: the polling goroutine and the workers, so that a handler past the
limiter returns; a worker at a full limiter has no step to take. Neither is
`Receive` promised to return messages, nor the visibility timeout to pass.
`Startup`: only the goroutines inside `GetProfileForMachine`. Nobody has to call it,
as no message has to arrive, and no container has to be created.

## Proofs

Every safety property that a passing run checks is a theorem, for every value of
the constants that the module's `ASSUME` admits; TLC evaluates that assumption
in each run of the module. A theorem with hypotheses of its own has them as
`ASSUME` in its statement, and they are the ones under which the run checks the
property. Each module proves one inductive invariant, from which its theorems
follow; each was checked with TLC before it was proved.

| Module | Theorem | States |
|---|---|---|
| `LoaderProofs` | `TypeCorrect` | `Spec => []TypeOK`; the limiter never exceeds its capacity |
| | `Invariance` | `Spec => []IInv` |
| | `NoPanic`, `WokenIsRegistered`, `VerdictIsFaithful` | `ResponseRegistered`, `NoDoubleClose` and `VerdictFaithful` always hold |
| | `Frozen` | `Spec => ClosedFrozen` |
| | `LimiterAccounting` | `Spec => []SlotAccounting` |
| | `OnlyLeaksBlock` | `Spec => []BlockedOnlyByLeak` |
| `LoaderRefinement` | `ResultInvariance` | `Spec => []ResultInv` |
| | `Refinement` | `Spec => Implements`, with every fault and any number of crashes |
| | `OwnResult` | `[]ResultIsOwn`, if `Quiet` and directories can be removed (`"remove" \notin Faults`) |
| | `FilesComeFirst` | `[]FilesBeforeRecord`, if the file store works |
| | `AnsweredIsReported` | `[]AnsweredMeansReported` (a result, a timeout, or `MaxAttempts` errors), if `Quiet`, no row is late and the repository works |
| | `StableResult` | `ResultStable`, if `Quiet` and no row is late |
| `ApiProofs` | `ApiInvariance` | `ApiSpec => []ApiInv` |
| | `RowsAreQueued`, `IdsAreUsable` | `[]RowHasMessage`, `[]IdIsUsable`, with every fault |
| | `SourceIsLoaded`, `ReadsAreConsistent` | `[]SourceLoaded`, `[]ReadConsistent`, if the file store works |
| `RunnerProofs` | `RunnerInvariance`, `RunnerTypeCorrect` | `[]RunnerInv`, `[]TypeOK` |
| | `UsageIsSafe`, `FinishedIsJustified`, `MemoryIsJustified`, `KillIsReported` | `UsageAfterWait`, `FinishedIsClean`, `MemoryVerdictSound`, `KilledIsReported` always hold |
| `RpcProofs` | `ListedHasTemplate` | `[]ListedIsServed` |
| `SqsProofs` | `SqsTypeCorrect`, `OneHandlerPerMessage`, `DeletedAfterHandled`, `DeletedForGood` | `[]TypeOK`, `[]NoOverlap`, `[]DeletedMeansHandled`; a deleted message stays deleted |
| `VerdictProofs` | `OutputIsExact`, `VerdictIsExact` | `[]KeptExact`, `[]VerdictExact` |
| `StartupProofs` | `EveryoneHasProfile`, `RuntimeIsInstalled`, `ProfileIsUnique` | `[]ProfileFound`, `[]RuntimeInstalled`, `[]OneProfile` |

`Quiet` is `"redeliver" \notin Faults /\ MaxCrashes = 0`: NSQ redelivers only
after the handler's answer, and the loader does not crash. Without it the
property is false, see *Runs*.

**The loader does not panic** (`LoaderProofs`). That a channel is not closed
twice does not follow from itself: one needs that "destroy" is the last event
of a container (`EventOrder`), that a registered container with a closed channel
has had all its events (`ClosedDrained`), and for the moment of registration
that a handler on its way there has not closed the channel (`Phase`, which ties
the handler's position to Docker, the map and the channel). `Unjudged` adds that
before the close the status is never the runner's, so a missing file cannot
leave an old `Finished`. `Assigned` is what typing needs: whoever touches a row
or a directory has a request, and whoever publishes has collected. `IInv` is
their conjunction with `TypeOK` and `VerdictFaithful`. `Frozen` follows because
an event changes a container only if one is waiting, which `ClosedDrained`
excludes. The limiter's theorems count: each action leaves the set `Holding`
alone, adds its handler or takes it out; `ActiveBound` limits the handlers at
work, so a full limiter in front of a waiting handler must hold a leaked element.

**Results** (`LoaderRefinement`). All attempts of a request share a directory, a
container name and a row, so that a result is one's own is a statement about the
other attempts. `Provenance`, which holds with every fault, says that a file and
what was read from it come from some attempt of the same request, that a woken
handler's channel is closed, and that a row with a result comes after the files.
`OneAttempt`, which needs `Quiet`, says that all attempts of a request but one
have failed and given the message back, that the message tells how far that one
is, or that all of them have failed and NSQ has given the message up.
`OwnDirectory`, which also needs that removals succeed, says that only that one
attempt uses the directory: a failed attempt may leave a container behind, but
`cleanup` has taken the directory away from it, so a file in it is the
attempt's own. `Reported` follows the row through that attempt,
`Running` until it publishes, `NonDeterministicError` while the message waits for
the next. `ResultInv` is the four with `IInv`.

**Refinement** (`LoaderRefinement`). One lemma per action that `Execution` sees
(`ReceiveTakes`, `DiscardDiscards`, `AcquireEnters`, `RunningRuns`, `ErrorFails`, `TimeoutGivesUp`,
`CollectCollects`, `PublishPublishes`, `FinishFinishes`, `RestartCrashes`) shows
that it is the step of that name there; all others move the handler within a
phase or do not move it (`PhaseKept`, `SeenStutters`). `Collect` is the hard one:
that the response is one `Execution` allows (`ResponseIsResult`) needs
`VerdictFaithful`, because the code takes the status from the file and decides
from `Container.status` whether to compare, and `Provenance` and `OneAttempt`,
because the measurements may be another attempt's only after a redelivery, a
crash or a removal that failed. `Stop`, the loop, Docker and the limiter are invisible.

**The API** (`ApiProofs`). Every step of the server is a step of `Execution` or
leaves its variables alone (`ServerSteps`), so `ExecInv` is an invariant of
`Execution`. A reader holds a row it read several steps ago; `Settled(r, s)` is
what makes that safe: a status `s` of the runner comes from an attempt with a
response, and if there is only one, the status is that attempt's and its files
are complete for good. It is preserved by every step (`SettledStep`), because
whoever changes a file has a response (`WriterIsCollected`); it is established
by `Publish`, because nothing is left to write by then (`FilesKept`). `Reading`
says that what a reader has of the files agrees with it. `Submitted` and
`Stored` follow the order of the calls of `CreateCompileRequest`.

**The runner** (`RunnerProofs`). `Stages` ties the positions of main, waiter and
sampler to the state of the program; `Causes` says what an error that
`runProject` returned stands for; `Measured` bounds what the samples show by
what the program had, through the parsing of the line of `/proc` and both page
sizes.

**The others.** `SqsInv`: the wait group counts the goroutines, each of which has
a message that is no longer in the batch, and there is none while the loop
polls; that is why a message that SQS shows again is not received by the same
loader. `VerdictInv`: what was kept is a prefix of the output, the scan ends at
the first obstacle, and the comparison has found no difference so far; this is
an induction over the steps of the two loops, so outputs of every length are
covered, and expectations of up to `MaxLines` lines. `StartupInv`: each `Once` is
a lock with a result. `RpcInv`: calls are served after the templates were
loaded, and clients are told only of languages with a compiler.

Only model-checked: liveness (`HandlerReturns`, `RemovalHandled`, `RunnerEnds`,
`Handled`, `BatchEnds`, `ProfileReturned`), which is out of the prover's
reach. The three runs that expect a violation have nothing to prove.

## Plan

1. `Loader` with runs and proofs, `Runner` with runs: done.
2. `Execution`, and `Loader` shown to implement it; `Api` on top of it: done.
3. `Verdict`, `SqsQueue`, `Rpc`, `Startup`, `ProcStat` within `Runner`: done.
4. Proofs of all safety properties that are checked, and of the refinement: done.
5. Left: what can still be said with every fault, for example which rows a
   handler may overwrite after a redelivery or a crash, and action properties
   of the row (a published result is replaced only by another attempt).

## Not modelled

- Flags (`internal/parser`): sequential parsing into a struct. The flag
  `wait-time-seconds` is bound to the capacity of the limiter
  (`arguments.go:26`); the models hold for every capacity.
- Reflection, accessors, error types and client stubs of the generated code;
  the connection to Postgres and its migration; logging.
- `internal/memory` and path conversion, stateless helpers, and the
  container-builder, a developer's tool.
- Messages that do not parse: the API does not send any.
- S3 apart from its outcomes: a write there is all or nothing, which is a special
  case of the file store of `Execution`.
