------------------------------- MODULE Runner -------------------------------
(***************************************************************************)
(* cars-runner, the process in the container (cmd/services/cars-runner):   *)
(* the main goroutine that compiles, runs and reports, the goroutine that  *)
(* waits for the program, the goroutine of pid.StreamPid that samples its  *)
(* memory, and the three nested contexts.  The submitted program, the      *)
(* compiler and the kernel are external.                                   *)
(*                                                                         *)
(* pc is the main goroutine's next call; waiter and stream are the         *)
(* positions of the other two.  Time is abstract: a context may expire at  *)
(* any moment while it is in use.                                          *)
(***************************************************************************)
EXTENDS Naturals, ProcStat

CONSTANTS
  CompileSteps,     \* number of compile steps of the language
  ExecutionMemory,  \* the limit on the program's memory
  MaxMemory,        \* bound on the pages the program can use
  Page,             \* the page sizes of the machines to consider
  MaxWords          \* bound on the words in the program's name

ASSUME RunnerAssumption ==
  /\ CompileSteps \in Nat
  /\ ExecutionMemory \in Nat
  /\ MaxMemory \in Nat
  /\ Page \subseteq Nat \ {0}
  /\ MaxWords \in Nat \ {0}

VARIABLES
  pc,           \* main: the next call
  step,         \* compile steps done
  compileErr,
  runtimeErr,
  expired,      \* the contexts whose own timer has fired
  waiter,       \* the goroutine around cmd.Wait
  stream,       \* the goroutine of StreamPid
  sample,       \* what it read last
  consumption,  \* resp.memoryConsumption
  file,         \* the status in runner-out.json
  child,        \* the program: its process
  mem,          \* its resident pages
  peak,         \* the most memory it ever had (Maxrss)
  killed,       \* it was ended by the runner
  words,        \* words in its name
  machine       \* the kernel's page size, and what getconf says of it

mainVars  == <<pc, step, compileErr, runtimeErr, file>>
watchVars == <<waiter, stream, sample, consumption>>
childVars == <<child, mem, peak, killed, words, machine>>
vars      == <<mainVars, expired, watchVars, childVars>>

Status  == {"Finished", "MemoryConstraintExceeded", "TimeLimitExceeded", "RunTimeError"}
Context == {"main", "compile", "run"}
Vsize   == 4096   \* the virtual size of a running program, in bytes
Error   == {"nil", "exit", "deadline", "start", "memory"}

Init ==
  /\ pc = "read"
  /\ step = 0
  /\ compileErr = "nil"
  /\ runtimeErr = "nil"
  /\ expired = {}
  /\ waiter = "none"
  /\ stream = "none"
  /\ sample = 0
  /\ consumption = 0
  /\ file = "none"
  /\ child = "none"
  /\ mem = 0
  /\ peak = 0
  /\ killed = FALSE
  /\ words = 1
  /\ machine \in [page : Page, getconf : Page \cup {Unset}]
  /\ machine.getconf \in {machine.page, Unset}

\* A derived context is done when its own timer or its parent's has fired.
Done(c) == expired \cap {c, "main"} # {}

Larger(m, n) == IF m < n THEN n ELSE m

-----------------------------------------------------------------------------
(* The main goroutine *)

\* A missing or unreadable runner.json is fatal.
ReadConfig ==
  /\ pc = "read"
  /\ pc' \in {"compile", "exited"}
  /\ UNCHANGED <<step, compileErr, runtimeErr, file, expired, watchVars, childVars>>

\* One command of compileProject.  The deadline ends the loop, another error
\* does not: the next command overwrites it.
CompileStep ==
  /\ pc = "compile" /\ step < CompileSteps
  /\ \/ /\ Done("compile")
        /\ compileErr' = "deadline" /\ pc' = "compiled"
        /\ UNCHANGED step
     \/ /\ ~Done("compile")
        /\ compileErr' \in {"nil", "exit"}
        /\ step' = step + 1
        /\ UNCHANGED pc
  /\ UNCHANGED <<runtimeErr, file, expired, watchVars, childVars>>

CompileEnds ==
  /\ pc = "compile" /\ step = CompileSteps
  /\ pc' = "compiled"
  /\ UNCHANGED <<step, compileErr, runtimeErr, file, expired, watchVars, childVars>>

\* The program is run only when compileProject returned no error.
Decide ==
  /\ pc = "compiled"
  /\ pc' = IF compileErr = "nil" THEN "launch" ELSE "report"
  /\ UNCHANGED <<step, compileErr, runtimeErr, file, expired, watchVars, childVars>>

\* runProject leaves with an error, or with nil.
Return(err) == runtimeErr' = err /\ pc' = "report"

\* cmd.Start, and the two goroutines.
Launch ==
  /\ pc = "launch" /\ ~Done("run")
  /\ child' = "running"
  /\ waiter' = "waiting" /\ stream' = "stat"
  /\ pc' = "watch"
  /\ UNCHANGED <<step, compileErr, runtimeErr, file, expired, sample,
                 consumption, mem, peak, killed, words, machine>>

\* A command that cannot be started, or a context that is already done.
LaunchFails ==
  /\ pc = "launch"
  /\ Return(IF Done("run") THEN "deadline" ELSE "start")
  /\ UNCHANGED <<step, compileErr, file, expired, watchVars, childVars>>

\* The loop over pidStats takes a sample; over the limit it kills the program
\* and returns while the other goroutines go on.
Watch ==
  /\ pc = "watch" /\ stream = "send"
  /\ stream' = "stat"
  /\ consumption' = Larger(consumption, sample)
  /\ \/ /\ consumption' > ExecutionMemory
        /\ Return("memory")
        /\ IF child = "running" THEN child' = "zombie" /\ mem' = 0 /\ killed' = TRUE
                                ELSE UNCHANGED <<child, mem, killed>>
     \/ /\ consumption' <= ExecutionMemory
        /\ UNCHANGED <<pc, runtimeErr, child, mem, killed>>
  /\ UNCHANGED <<step, compileErr, file, expired, waiter, sample, peak, words, machine>>

WatchEnds ==
  /\ pc = "watch" /\ stream = "closed"
  /\ pc' = "usage"
  /\ UNCHANGED <<step, compileErr, runtimeErr, file, expired, watchVars, childVars>>

\* Mutant: the last check of the memory is left out.
LastCheck_Skipped(used) == pc' = "collect" /\ UNCHANGED runtimeErr

\* Mutant: memory equal to the limit is refused.
LastCheck_AtLimit(used) ==
  \/ used >= ExecutionMemory /\ Return("memory")
  \/ used < ExecutionMemory /\ pc' = "collect" /\ UNCHANGED runtimeErr

\* The check after the loop, for what no sample has seen.
LastCheck(used) ==
  \/ used > ExecutionMemory /\ Return("memory")
  \/ used <= ExecutionMemory /\ pc' = "collect" /\ UNCHANGED runtimeErr

\* cmd.ProcessState.SysUsage, which panics while ProcessState is nil.
Usage ==
  /\ pc = "usage" /\ child = "reaped"
  /\ consumption' = Larger(consumption, peak)
  /\ LastCheck(consumption')
  /\ UNCHANGED <<step, compileErr, file, expired, waiter, stream, sample, childVars>>

\* Mutant: the output is reported without a look at the context.
Collect_IgnoresDeadline ==
  /\ pc = "collect"
  /\ Return("nil")
  /\ UNCHANGED <<step, compileErr, file, expired, watchVars, childVars>>

\* The output files are read, then the context decides.
Collect ==
  /\ pc = "collect"
  /\ Return(IF Done("run") THEN "deadline" ELSE "nil")
  /\ UNCHANGED <<step, compileErr, file, expired, watchVars, childVars>>

\* Mutant: another default status.
determineExecutionError_Default(err) ==
  CASE err = "memory"   -> "MemoryConstraintExceeded"
    [] err = "deadline" -> "TimeLimitExceeded"
    [] OTHER            -> "NonDeterministicError"

\* The status for an error; an error that is no timeout and not the memory
\* limit, nil included, is a RunTimeError.
determineExecutionError(err) ==
  CASE err = "memory"   -> "MemoryConstraintExceeded"
    [] err = "deadline" -> "TimeLimitExceeded"
    [] OTHER            -> "RunTimeError"

\* responseCode: an error of the compiler is mapped by way of runtimeErr,
\* which is nil at that point.
ResponseCode ==
  IF compileErr = "nil" /\ runtimeErr = "nil"
  THEN "Finished" ELSE determineExecutionError(runtimeErr)

\* os.WriteFile, and the end of the process.
Report ==
  /\ pc = "report"
  /\ file' = ResponseCode
  /\ pc' = "exited"
  /\ UNCHANGED <<step, compileErr, runtimeErr, expired, watchVars, childVars>>

-----------------------------------------------------------------------------
(* The other goroutines; they end with the process *)

Alive == pc # "exited"

\* cmd.Wait reaps the program and sets ProcessState ...
Wait ==
  /\ Alive /\ waiter = "waiting" /\ child = "zombie"
  /\ waiter' = "reaped" /\ child' = "reaped"
  /\ UNCHANGED <<mainVars, expired, stream, sample, consumption, mem, peak, killed,
                 words, machine>>

\* ... and only then is pidDone closed.
CloseDone ==
  /\ Alive /\ waiter = "reaped"
  /\ waiter' = "closed"
  /\ UNCHANGED <<mainVars, expired, stream, sample, consumption, childVars>>

\* GetStat reads the line of the process while it is there; a zombie has no
\* memory.
Stat ==
  /\ Alive /\ stream = "stat" /\ child \in {"running", "zombie"}
  /\ sample' = statFromProc(words, mem, IF child = "zombie" THEN 0 ELSE Vsize,
                            machine.getconf)
  /\ stream' = "send"
  /\ UNCHANGED <<mainVars, expired, waiter, consumption, childVars>>

\* Mutant: the stream ends at the first error.
StatFails_Ends ==
  /\ Alive /\ stream = "stat" /\ child \in {"zombie", "reaped"}
  /\ stream' = "closed"
  /\ UNCHANGED <<mainVars, expired, waiter, sample, consumption, childVars>>

\* Without the process GetStat fails; it is tried again until done is closed.
StatFails ==
  /\ Alive /\ stream = "stat" /\ child = "reaped" /\ waiter = "closed"
  /\ stream' = "closed"
  /\ UNCHANGED <<mainVars, expired, waiter, sample, consumption, childVars>>

\* The select prefers neither the receiver nor done.
SendDone ==
  /\ Alive /\ stream = "send" /\ waiter = "closed"
  /\ stream' = "closed"
  /\ UNCHANGED <<mainVars, expired, waiter, sample, consumption, childVars>>

\* The timer of a context fires.
Fires(c) ==
  /\ Alive /\ c \notin expired
  /\ expired' = expired \cup {c}
  /\ UNCHANGED <<mainVars, watchVars, childVars>>

\* The timers of main, compileProject and runProject, each while its context is
\* in use.
ExpireMain    == pc # "read" /\ Fires("main")
ExpireCompile == pc = "compile" /\ Fires("compile")
ExpireRun     == pc \in {"launch", "watch", "usage", "collect"} /\ Fires("run")
Expire        == ExpireMain \/ ExpireCompile \/ ExpireRun

\* Mutant: exec.Command instead of exec.CommandContext.
CommandContext_NoKill == FALSE

\* exec.CommandContext kills the program when its context is done.  The
\* deferred cancel does the same when runProject returns, but then the
\* process is about to exit.
CommandContext ==
  /\ Alive /\ child = "running" /\ Done("run")
  /\ child' = "zombie" /\ mem' = 0 /\ killed' = TRUE
  /\ UNCHANGED <<mainVars, expired, watchVars, peak, words, machine>>

-----------------------------------------------------------------------------
(* The environment *)

\* The program allocates and frees memory.
Use ==
  /\ Alive /\ child = "running"
  /\ mem' \in 0 .. MaxMemory
  /\ peak' = Larger(peak, mem' * machine.page)
  /\ UNCHANGED <<mainVars, expired, watchVars, child, killed, words, machine>>

\* It gives itself a name with blanks (prctl, process.title); that it does not
\* take it back is a bound.
Rename ==
  /\ Alive /\ child = "running" /\ words < MaxWords
  /\ words' = words + 1
  /\ UNCHANGED <<mainVars, expired, watchVars, child, mem, peak, killed, machine>>

\* It ends by itself, with any exit code: cmd.Wait's error is ignored.
ProgramExits ==
  /\ Alive /\ child = "running"
  /\ child' = "zombie" /\ mem' = 0
  /\ UNCHANGED <<mainVars, expired, watchVars, peak, killed, words, machine>>

\* The container is killed, from outside or for its memory.
ContainerKilled ==
  /\ Alive
  /\ pc' = "exited"
  /\ UNCHANGED <<step, compileErr, runtimeErr, file, expired, watchVars, childVars>>

-----------------------------------------------------------------------------
MainStep ==
  \/ ReadConfig \/ CompileStep \/ CompileEnds \/ Decide
  \/ Launch \/ LaunchFails \/ Watch \/ WatchEnds \/ Usage \/ Collect \/ Report

WaiterStep == Wait \/ CloseDone

StreamStep == Stat \/ StatFails \/ SendDone

Next ==
  \/ MainStep \/ WaiterStep \/ StreamStep
  \/ Expire \/ CommandContext \/ Use \/ Rename \/ ProgramExits \/ ContainerKilled

Spec == Init /\ [][Next]_vars

\* Goroutines are scheduled, timers fire and the kernel delivers SIGKILL; the
\* program itself may run for ever.
Fairness ==
  /\ WF_vars(MainStep) /\ WF_vars(WaiterStep) /\ WF_vars(StreamStep)
  /\ WF_vars(CommandContext)
  /\ WF_vars(ExpireMain) /\ WF_vars(ExpireCompile) /\ WF_vars(ExpireRun)

FairSpec == Spec /\ Fairness

-----------------------------------------------------------------------------
(* Properties *)

\* Every variable has its type; runner-out.json holds one of four statuses.
TypeOK ==
  /\ pc \in {"read", "compile", "compiled", "launch", "watch", "usage",
             "collect", "report", "exited"}
  /\ step \in 0 .. CompileSteps
  /\ compileErr \in Error /\ runtimeErr \in Error
  /\ expired \subseteq Context
  /\ waiter \in {"none", "waiting", "reaped", "closed"}
  /\ stream \in {"none", "stat", "send", "closed"}
  /\ sample \in Nat /\ consumption \in Nat
  /\ file \in Status \cup {"none"}
  /\ child \in {"none", "running", "zombie", "reaped"}
  /\ mem \in 0 .. MaxMemory /\ peak \in Nat
  /\ killed \in BOOLEAN
  /\ words \in 1 .. MaxWords
  /\ machine.page \in Page /\ machine.getconf \in {machine.page, Unset}

\* When the loop over the samples ends, cmd.Wait has returned: ProcessState
\* is set, and runProject does not dereference nil (main.go:207).
UsageAfterWait == pc = "usage" => child = "reaped"

\* A run reported as Finished ended by itself and never had more memory than
\* allowed, whatever the samples saw of it and whatever page size they were
\* computed with.
FinishedIsClean ==
  file = "Finished" => ~killed /\ child = "reaped" /\ peak <= ExecutionMemory

\* A run is reported over its memory only if it was: samples of a zombie, and
\* of a machine whose page size getconf did not tell, are never too large.  It
\* takes a name of one word: a blank shifts the fields statFromProc reads, and
\* it takes the virtual size in bytes for the resident pages.
MemoryVerdictSound ==
  file = "MemoryConstraintExceeded" /\ words = 1 => peak > ExecutionMemory

\* A program killed at its deadline is reported as over its time, unless it
\* was over its memory as well.
KilledIsReported ==
  killed /\ file # "none" =>
    file \in {"TimeLimitExceeded", "MemoryConstraintExceeded"}

\* Whatever the program does, the process in the container ends: nothing but
\* this ends a container.
RunnerEnds == <>(pc = "exited")
=============================================================================
