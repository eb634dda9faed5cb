-------------------------------- MODULE Api --------------------------------
(***************************************************************************)
(* The consumer service (internal/api/consumer/server.go) at work with the *)
(* queue and the loader: CreateCompileRequest stores the source, submits   *)
(* the message and inserts the row; GetCompileResultRequest reads the row  *)
(* and then three files, one call after the other.  The loader is          *)
(* Execution, which Loader implements.                                     *)
(*                                                                         *)
(* A request id is made by one call of CreateCompileRequest, so the        *)
(* request also stands for that call.                                      *)
(***************************************************************************)
EXTENDS Execution

CONSTANT Call   \* calls of GetCompileResultRequest

\* The files in the order they are read.  Execution writes those in File: the
\* third is missing for an interpreter.
Output == {"output", "outputErr", "compilerOutput"}
After == [output |-> "outputErr", outputErr |-> "compilerOutput", compilerOutput |-> "done"]

\* The columns of a row of the executions table.
Row == [status : RunnerStatus \cup {"NotRan", "Created", "Running", "NonDeterministicError"},
        test : {"TestNotRan", "NoTest", "TestPassed", "TestFailed"},
        measured : Delivery \cup {None}]

ASSUME ApiAssumption ==
  /\ IsFiniteSet(Delivery)
  /\ RunnerStatus \subseteq {"Finished", "MemoryConstraintExceeded",
                             "TimeLimitExceeded", "RunTimeError"}
  /\ File \subseteq Output
  /\ MaxAttempts \in Nat \ {0}
  /\ None \notin Request \cup Delivery \cup Response \cup Row \cup {Cut}

VARIABLES
  source,   \* the source file in the store
  loaded,   \* the source a delivery's handler got from the store
  create,   \* how far CreateCompileRequest is
  read,     \* how far GetCompileResultRequest is
  view      \* the response it has put together

serverVars == <<source, create>>
readerVars == <<read, view>>

vars == <<execVars, loaded, serverVars, readerVars>>

ApiInit ==
  /\ Init
  /\ msg = [r \in Request |-> "none"]
  /\ record = [r \in Request |-> None]
  /\ source = [r \in Request |-> "missing"]
  /\ loaded = [d \in Delivery |-> "missing"]
  /\ create = [r \in Request |-> "idle"]
  /\ read = [c \in Call |-> "idle"]
  /\ view = [c \in Call |-> None]

-----------------------------------------------------------------------------
(* CreateCompileRequest *)

Step(r, next) == create' = [create EXCEPT ![r] = next]

\* Mutant: the source is written in the background.
WriteSource_Later(r) ==
  /\ create[r] = "idle"
  /\ Step(r, "submit")
  /\ UNCHANGED <<execVars, loaded, source, readerVars>>

\* WriteFile, whose error is ignored.
WriteSource(r) ==
  /\ create[r] = "idle"
  /\ \E s \in {"stored"} \cup (IF "files" \in Faults THEN {"missing", Cut} ELSE {}) :
       source' = [source EXCEPT ![r] = s]
  /\ Step(r, "submit")
  /\ UNCHANGED <<execVars, loaded, readerVars>>

SubmitMessage(r) ==
  /\ create[r] = "submit"
  /\ Submit(r)
  /\ Step(r, "insert")
  /\ UNCHANGED <<loaded, source, readerVars>>

\* Mutant: the error of SubmitMessageToQueue is only logged.
SubmitFails_Ignored(r) ==
  /\ create[r] = "submit" /\ "queue" \in Faults
  /\ Step(r, "insert")
  /\ UNCHANGED <<execVars, loaded, source, readerVars>>

\* The queue refuses the message, or only its reply is lost.
SubmitFails(r) ==
  /\ create[r] = "submit" /\ "queue" \in Faults
  /\ Step(r, "error")
  /\ Submit(r) \/ UNCHANGED execVars
  /\ UNCHANGED <<loaded, source, readerVars>>

InsertRow(r) ==
  /\ create[r] = "insert"
  /\ Insert(r)
  /\ Step(r, "ok")
  /\ UNCHANGED <<loaded, source, readerVars>>

\* Mutant: the error of InsertExecution is only logged.
InsertFails_Ignored(r) ==
  /\ create[r] = "insert" /\ "repo" \in Faults
  /\ Step(r, "ok")
  /\ UNCHANGED <<execVars, loaded, source, readerVars>>

\* The client gets an error, although its program will be run.
InsertFails(r) ==
  /\ create[r] = "insert" /\ "repo" \in Faults
  /\ Step(r, "error")
  /\ Insert(r) \/ UNCHANGED execVars
  /\ UNCHANGED <<loaded, source, readerVars>>

-----------------------------------------------------------------------------
(* GetCompileResultRequest *)

ReadStep(c, next, v) ==
  /\ read' = [read EXCEPT ![c] = next]
  /\ view' = [view EXCEPT ![c] = v]
  /\ UNCHANGED <<execVars, loaded, serverVars>>

\* GetExecution: without a row the answer is an error.
GetRow(c, r) ==
  /\ read[c] = "idle"
  /\ IF record[r] = None THEN ReadStep(c, "error", None)
     ELSE ReadStep(c, "output", [req |-> r, row |-> record[r],
                                 file |-> [f \in Output |-> None]])

\* Any other error of the repository: the zero Execution has no language, its
\* compiler is nil, and compiler.OutputFile panics.
GetRowFails(c) ==
  /\ read[c] = "idle" /\ "repo" \in Faults
  /\ ReadStep(c, "panic", None)

\* What GetFile finds: the contents, nothing for a file that is not there,
\* or, when the store fails, an error.  An error leaves the field empty.
GetFile(r, f) ==
  {IF f \in File THEN files[r][f] ELSE None} \cup
    (IF "files" \in Faults THEN {None} ELSE {})

\* Mutant: the row is read again after the files.
ReadFile_RowLast(c) ==
  /\ read[c] \in Output
  /\ \E data \in GetFile(view[c].req, read[c]) :
       ReadStep(c, After[read[c]],
                [view[c] EXCEPT !.file[read[c]] = data, !.row = record[view[c].req]])

ReadFile(c) ==
  /\ read[c] \in Output
  /\ \E data \in GetFile(view[c].req, read[c]) :
       ReadStep(c, After[read[c]], [view[c] EXCEPT !.file[read[c]] = data])

-----------------------------------------------------------------------------
(* The loader, which loads the source when it takes the message *)

LoaderTakes(d, r) ==
  /\ Take(d, r)
  /\ loaded' = [loaded EXCEPT ![d] = source[r]]
  /\ UNCHANGED <<serverVars, readerVars>>

LoaderDiscards(r) == Discard(r) /\ UNCHANGED <<loaded, serverVars, readerVars>>

LoaderHandles(d) == Handle(d) /\ UNCHANGED <<loaded, serverVars, readerVars>>

QueueDisturbs == Disturb /\ UNCHANGED <<loaded, serverVars, readerVars>>

-----------------------------------------------------------------------------
CreateStep(r) ==
  \/ WriteSource(r) \/ SubmitMessage(r) \/ SubmitFails(r)
  \/ InsertRow(r) \/ InsertFails(r)

ApiNext ==
  \/ \E r \in Request : CreateStep(r) \/ LoaderDiscards(r) \/ \E d \in Delivery : LoaderTakes(d, r)
  \/ \E c \in Call : GetRowFails(c) \/ ReadFile(c) \/ \E r \in Request : GetRow(c, r)
  \/ \E d \in Delivery : LoaderHandles(d)
  \/ QueueDisturbs

ApiSpec == ApiInit /\ [][ApiNext]_vars

\* No handler is at the limiter of AddContainer, which may be full for ever.
NobodyWaits == \A d \in Delivery : attempt[d] # "waiting"

\* A started call goes on.  A handler past the limiter returns (HandlerReturns of
\* Loader), and then its goroutine is free for what is ready; one that waits
\* keeps it.  Nobody has to call the service.
ApiFairSpec ==
  /\ ApiSpec
  /\ \A r \in Request : WF_vars(create[r] # "idle" /\ CreateStep(r))
  /\ \A r \in Request : WF_vars(/\ NobodyWaits
                                /\ LoaderDiscards(r) \/ \E d \in Delivery : LoaderTakes(d, r))
  /\ \A d \in Delivery : WF_vars(attempt[d] # "waiting" /\ LoaderHandles(d))
-----------------------------------------------------------------------------
(* Properties *)

\* The handlers that have had a response for a request.
Collected(r) == {d \in Delivery : reqOf[d] = r /\ result[d] # None}

\* GetCompileResultRequest reads the row and the files without a transaction,
\* while the loader writes them: a response with a result of the runner has
\* the status and the complete files of one attempt.  Only a second attempt
\* that got as far as a result, after a redelivery or a crash, can mix them.
ReadConsistent ==
  \A c \in Call :
    /\ read[c] = "done" /\ view[c].row.status \in RunnerStatus
    /\ Cardinality(Collected(view[c].req)) = 1
    => \E d \in Collected(view[c].req) :
         /\ view[c].row.status = result[d].status
         /\ \A f \in File : view[c].file[f] = d

\* The handler ignores an error of GetFile, so it relies on the API having
\* written the source before it submits the message.
SourceLoaded ==
  \A d \in Delivery : attempt[d] # "idle" => loaded[d] = "stored"

\* A row stands for a program that was handed to the queue: a client that
\* finds one does not wait for something nobody will do.
RowHasMessage ==
  \A r \in Request : record[r] # None => msg[r] # "none"

\* A client that was given an id finds its row, and its program was queued.
IdIsUsable ==
  \A r \in Request : create[r] = "ok" => record[r] # None /\ msg[r] # "none"

\* A request whose id was given out is handled to the end, through failed
\* attempts, crashes and redeliveries, by a handler or by NSQ's giving it up,
\* unless some handler stays at the limiter for ever.
Handled ==
  \A r \in Request :
    []<>NobodyWaits => (create[r] = "ok" ~> msg[r] = "finished")

\* consumer.proto:33-35, "all details about the running state and the final
\* output of the compiling and execution are from this": once the handler has
\* published the result, the row of an id the client knows has it.
ResultVisible ==
  \A d \in Delivery :
    attempt[d] = "published" /\ create[reqOf[d]] = "ok"
      => record[reqOf[d]].status = result[d].status
=============================================================================
