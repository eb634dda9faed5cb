-------------------------- MODULE LoaderRefinement --------------------------
(***************************************************************************)
(* What the loader promises about results, and that it implements          *)
(* Execution, for every set of requests and deliveries and every set of    *)
(* faults.                                                                 *)
(*                                                                         *)
(* Four invariants are added to IInv of Loader.  Provenance ties a file, a *)
(* response and a row to the request they belong to.  OneAttempt holds     *)
(* where NSQ redelivers only after the handler's answer and the loader     *)
(* does not crash: at most one attempt of a request goes on, so nobody     *)
(* else writes into its row.  If a directory can also always be removed,   *)
(* OwnDirectory says that nobody else writes there either.  Reported       *)
(* follows the row through such an attempt.                                *)
(***************************************************************************)
EXTENDS LoaderProofs

\* NSQ redelivers only after the handler's answer, and the loader goes on.
Quiet == "redeliver" \notin Faults /\ MaxCrashes = 0

\* A handler whose container was started, or that has ended after that.
Started == {"store", "running", "select", "respond", "remove", "publish", "answer", "done",
            "timedout"}

\* An attempt that has begun and was not given back to the queue.
Principal(d) == pc[d] \notin {"none", "errored"}

\* A handler is woken by its own channel; a file, and a response read from it,
\* was written by an attempt of the same request; a row has a result only after
\* the output files are there.
Provenance ==
  /\ \A d \in Delivery :
       /\ pc[d] = "none" => reqOf[d] = None /\ response[d] = None
       /\ pc[d] = "respond" => closed[d]
       /\ response[d] # None => reqOf[response[d].by] = reqOf[d]
       /\ pc[d] \in {"remove", "publish"} /\ "files" \notin Faults => files[reqOf[d]] # None
  /\ \A r \in Request :
       /\ out[r] # None => reqOf[out[r].by] = r
       /\ Late = {} => record[r] # None
  /\ "files" \notin Faults => FilesBeforeRecord

\* One attempt at a time, of which the message tells how far it is, unless NSQ
\* has given up on it; a container that is known is the one of that attempt.
OneAttempt ==
  /\ \A d, e \in Delivery : Principal(d) /\ Principal(e) /\ reqOf[d] = reqOf[e] => d = e
  /\ \A d \in Delivery :
       /\ pc[d] # "lost"
       /\ Principal(d) => msg[reqOf[d]] = IF pc[d] \in {"done", "timedout"} THEN "finished"
                                          ELSE "inflight"
       /\ d \in containers => pc[d] \in Started
  /\ \A r \in Request : msg[r] = "finished" =>
       \/ \E d \in Delivery : reqOf[d] = r /\ pc[d] \in {"done", "timedout"}
       \/ Attempts(r) >= MaxAttempts /\ \A d \in Delivery : reqOf[d] = r => ~Principal(d)

\* A container that uses the directory, or has written there, is the one of the
\* attempt that goes on.
OwnDirectory ==
  /\ \A d \in mounted : pc[d] \in Started
  /\ \A r \in Request : out[r] # None => pc[out[r].by] \in Started
  /\ ResultIsOwn

\* The row follows the handler: Running until it publishes, then its response,
\* with measurements only from it; an error stays until the next attempt.
Reported ==
  /\ \A d \in Delivery :
       /\ pc[d] \in {"select", "respond", "remove", "publish", "timedout"}
            => record[reqOf[d]].status = "Running"
       /\ pc[d] \in {"answer", "done"} => record[reqOf[d]] = resp[d]
       /\ pc[d] = "errored" =>
            \/ record[reqOf[d]].status = "NonDeterministicError"
            \/ \E e \in Delivery : Principal(e) /\ reqOf[e] = reqOf[d]
  /\ \A r \in Request :
       record[r].measured # None
         => \E d \in Delivery : reqOf[d] = r /\ pc[d] \in {"answer", "done"}

ResultInv ==
  /\ IInv
  /\ Provenance
  /\ Quiet => OneAttempt
  /\ Quiet /\ "remove" \notin Faults => OwnDirectory
  /\ Quiet /\ Late = {} /\ "repo" \notin Faults => Reported

-----------------------------------------------------------------------------
(* Lemmas about results *)

\* What an update of a row's status does, if anything: no column of another
\* row, and no other column, changes.
LEMMA StatusEffect ==
  ASSUME TypeOK, NEW r \in Request, NEW s \in {"Created", "Running", "NonDeterministicError"},
         SetStatus(r, s)
  PROVE  /\ \A q \in Request : q # r \/ record[r] = None => record'[q] = record[q]
         /\ \/ record'[r] = record[r] /\ (record[r] = None \/ "repo" \in Faults)
            \/ /\ record[r] # None /\ record'[r] # None
               /\ record'[r].status = s /\ record'[r].measured = record[r].measured
<1>1. record \in [Request -> Row \cup {None}]  BY DEF TypeOK
<1>2. \A q \in Request : q # r \/ record[r] = None => record'[q] = record[q]
  BY <1>1 DEF SetStatus, Change
<1>3. ASSUME record[r] # None, record' = [record EXCEPT ![r] = [record[r] EXCEPT !.status = s]]
      PROVE  /\ record'[r] # None
             /\ record'[r].status = s /\ record'[r].measured = record[r].measured
  <2>1. record[r] \in Row  BY <1>1, <1>3
  <2>2. record'[r] = [record[r] EXCEPT !.status = s]  BY <1>1, <1>3
  <2>3. [record[r] EXCEPT !.status = s] \in Row  BY <2>1 DEF Row, ContainerStatus
  <2> QED BY <2>1, <2>2, <2>3, LoaderAssumption DEF Row
<1>4. \/ record' = record /\ (record[r] = None \/ "repo" \in Faults)
      \/ record[r] # None /\ record' = [record EXCEPT ![r] = [record[r] EXCEPT !.status = s]]
  BY DEF SetStatus, Change
<1> QED BY <1>2, <1>3, <1>4

\* What publishing a response does, if anything.
LEMMA ResultEffect ==
  ASSUME TypeOK, NEW r \in Request, NEW res \in Response, SetResult(r, res)
  PROVE  /\ \A q \in Request : q # r \/ record[r] = None => record'[q] = record[q]
         /\ \/ record'[r] = record[r] /\ (record[r] = None \/ "repo" \in Faults)
            \/ /\ record[r] # None /\ record'[r] # None
               /\ record'[r].status = res.status
               /\ record[r].measured = None => record'[r] = res
<1> DEFINE new == [res EXCEPT !.measured = IF @ = None THEN record[r].measured ELSE @]
<1>1. record \in [Request -> Row \cup {None}]  BY DEF TypeOK
<1>2. \A q \in Request : q # r \/ record[r] = None => record'[q] = record[q]
  BY <1>1 DEF SetResult, Change
<1>3. ASSUME record[r] # None, record' = [record EXCEPT ![r] = new]
      PROVE  /\ record'[r] # None /\ record'[r].status = res.status
             /\ record[r].measured = None => record'[r] = res
  <2>1. record[r] \in Row  BY <1>1, <1>3
  <2>2. new \in Row /\ new.status = res.status
    BY <2>1 DEF Row, Response, ContainerStatus
  <2>3. record[r].measured = None => new = res  BY DEF Response
  <2>4. record'[r] = new  BY <1>1, <1>3
  <2> QED BY <2>2, <2>3, <2>4, LoaderAssumption
<1>4. \/ record' = record /\ (record[r] = None \/ "repo" \in Faults)
      \/ record[r] # None /\ record' = [record EXCEPT ![r] = new]
  BY DEF SetResult, Change
<1> QED BY <1>2, <1>3, <1>4

\* The row that the API inserts is a row, and has no result.
LEMMA FreshRow == NewRow # None /\ NewRow.status \notin RunnerStatus
<1>1. NewRow \in Row  BY DEF NewRow, Row, TestStatus, ContainerStatus
<1>2. NewRow # None  BY <1>1, LoaderAssumption
<1>3. NewRow.status = "NotRan"  BY DEF NewRow
<1> QED BY <1>2, <1>3, LoaderAssumption

\* The statuses the handler sets by itself are not the runner's.
LEMMA OwnStatus ==
  {"Created", "Running", "NonDeterministicError"} \cap RunnerStatus = {}
BY LoaderAssumption

-----------------------------------------------------------------------------
(* The invariants are inductive *)

\* A handler that only moves on keeps what files, responses and rows have to do
\* with requests.
LEMMA ProvenanceMoves ==
  ASSUME IInv, Provenance, NEW d \in Delivery, NEW p, pc' = [pc EXCEPT ![d] = p],
         pc[d] # "none", p # "none", p = "respond" => closed[d],
         p \in {"remove", "publish"} => pc[d] \in {"remove", "publish"},
         \A q \in Request : record'[q] # None <=> record[q] # None,
         "files" \notin Faults => FilesBeforeRecord',
         UNCHANGED <<reqOf, response, closed, files, out>>
  PROVE  Provenance'
BY DEF IInv, TypeOK, Provenance

\* Removing a directory, or failing to, leaves no new file behind.
LEMMA RemoveAllFiles ==
  ASSUME TypeOK, NEW r \in Request, NEW using, RemoveAll(r, using)
  PROVE  \A q \in Request : out'[q] # None => out'[q] = out[q]
<1>1. out \in [Request -> Output \cup {None}]  BY DEF TypeOK
<1>2. out' = out \/ out' = [out EXCEPT ![r] = None]  BY DEF RemoveAll
<1> QED BY <1>1, <1>2

\* An attempt that fails keeps what files, responses and rows have to do with
\* requests.
LEMMA ProvenanceFails ==
  ASSUME IInv, Provenance, NEW d \in Delivery, NEW using, pc[d] \in {"prepare", "create", "start"},
         RunFails(d, using)
  PROVE  Provenance'
<1>1. TypeOK /\ reqOf[d] \in Request  BY DEF IInv, Assigned
<1>2. \A q \in Request : out'[q] # None => out'[q] = out[q]
  BY <1>1, RemoveAllFiles DEF RunFails
<1>3. /\ pc' = [pc EXCEPT ![d] = "fail"] /\ closed' = [closed EXCEPT ![d] = TRUE]
      /\ UNCHANGED <<reqOf, response, files, record>>
  BY DEF RunFails, Goto, nsqVars, storeVars
<1>4. FilesBeforeRecord => FilesBeforeRecord'  BY <1>3 DEF FilesBeforeRecord
<1> QED BY <1>1, <1>2, <1>3, <1>4 DEF Provenance, TypeOK

\* No step lets a file, a response or a row belong to another request.
LEMMA ProvenanceStep ==
  ASSUME IInv, Provenance, Next
  PROVE  Provenance'
<1> USE LoaderAssumption DEF Goto, Answer, Emit, Push, Pop, RemoveAll, Present, RunFails, Take,
            NextEvent, IsRemoval, GetSandboxRunnerOutput, WriteFiles,
            nsqVars, managerVars, loopVars, containerVars, dockerVars,
            dirVars, storeVars, IInv, TypeOK, Assigned, Phase, PC, InHand,
            Returned, Provenance, FilesBeforeRecord
<1>1. ASSUME NEW d \in Delivery, NEW r \in Request, Receive(d, r) PROVE Provenance'
  <2>1. /\ \A q \in Request : record'[q] # None <=> record[q] # None
        /\ "files" \notin Faults => FilesBeforeRecord'
    <3> HIDE DEF TypeOK
    <3>1. TypeOK /\ SetStatus(r, "Created") /\ files' = files  BY <1>1 DEF Receive
    <3> QED BY <3>1, StatusEffect, OwnStatus
  <2> HIDE DEF FilesBeforeRecord
  <2>2. \A x \in Delivery : response[x] # None => response[x].by \in Delivery
    BY DEF Output
  <2>3. \A q \in Request : out[q] # None => out[q].by \in Delivery
    BY DEF Output
  <2> QED BY <1>1, <2>1, <2>2, <2>3 DEF Receive
<1>2. ASSUME NEW d \in Delivery, Acquire(d) PROVE Provenance'
  BY <1>2 DEF Acquire
<1>3. ASSUME NEW d \in Delivery, Prepare(d) PROVE Provenance'
  BY <1>3 DEF Prepare
<1>4. ASSUME NEW d \in Delivery, PrepareFails(d) PROVE Provenance'
  <2> HIDE DEF IInv, Provenance, RunFails
  <2> QED BY <1>4, ProvenanceFails DEF PrepareFails
<1>5. ASSUME NEW d \in Delivery, Create(d) PROVE Provenance'
  BY <1>5 DEF Create
<1>6. ASSUME NEW d \in Delivery, CreateFails(d) PROVE Provenance'
  <2> HIDE DEF IInv, Provenance, RunFails
  <2> QED BY <1>6, ProvenanceFails DEF CreateFails
<1>7. ASSUME NEW d \in Delivery, CreateReplyLost(d) PROVE Provenance'
  <2> HIDE DEF IInv, Provenance, RunFails
  <2> QED BY <1>7, ProvenanceFails DEF CreateReplyLost
<1>8. ASSUME NEW d \in Delivery, Start(d) PROVE Provenance'
  BY <1>8 DEF Start
<1>9. ASSUME NEW d \in Delivery, StartFails(d) PROVE Provenance'
  <2> HIDE DEF IInv, Provenance, RunFails
  <2> QED BY <1>9, ProvenanceFails DEF StartFails
<1>10. ASSUME NEW d \in Delivery, StartReplyLost(d) PROVE Provenance'
  <2> HIDE DEF IInv, Provenance, RunFails
  <2> QED BY <1>10, ProvenanceFails DEF StartReplyLost
<1>11. ASSUME NEW d \in Delivery, Store(d) PROVE Provenance'
  BY <1>11 DEF Store
<1>12. ASSUME NEW d \in Delivery, ReportRunning(d) PROVE Provenance'
  <2>1. /\ \A q \in Request : record'[q] # None <=> record[q] # None
        /\ "files" \notin Faults => FilesBeforeRecord'
    <3>1. reqOf[d] \in Request  BY <1>12 DEF ReportRunning
    <3> HIDE DEF TypeOK
    <3>2. TypeOK /\ SetStatus(reqOf[d], "Running") /\ files' = files  BY <1>12 DEF ReportRunning
    <3> QED BY <3>1, <3>2, StatusEffect, OwnStatus
  <2>2. /\ pc' = [pc EXCEPT ![d] = "select"] /\ pc[d] = "running"
        /\ UNCHANGED <<reqOf, response, closed, files, out>>
    BY <1>12 DEF ReportRunning
  <2> HIDE DEF IInv, Provenance, FilesBeforeRecord
  <2> QED BY <2>1, <2>2, ProvenanceMoves
<1>13. ASSUME NEW d \in Delivery, ReportError(d) PROVE Provenance'
  <2>1. /\ \A q \in Request : record'[q] # None <=> record[q] # None
        /\ "files" \notin Faults => FilesBeforeRecord'
    <3>1. reqOf[d] \in Request  BY <1>13 DEF ReportError
    <3> HIDE DEF TypeOK
    <3>2. TypeOK /\ SetStatus(reqOf[d], "NonDeterministicError") /\ files' = files
      BY <1>13 DEF ReportError
    <3> QED BY <3>1, <3>2, StatusEffect, OwnStatus
  <2>2. /\ pc' = [pc EXCEPT ![d] = "errored"] /\ pc[d] = "fail"
        /\ UNCHANGED <<reqOf, response, closed, files, out>>
    BY <1>13 DEF ReportError
  <2> HIDE DEF IInv, Provenance, FilesBeforeRecord
  <2> QED BY <2>1, <2>2, ProvenanceMoves
<1>14. ASSUME NEW d \in Delivery, Completed(d) PROVE Provenance'
  BY <1>14 DEF Completed
<1>15. ASSUME NEW d \in Delivery, WaitTimeout(d) PROVE Provenance'
  BY <1>15 DEF WaitTimeout
<1>16. ASSUME NEW d \in Delivery, Collect(d) PROVE Provenance'
  BY <1>16 DEF Collect
<1>17. ASSUME NEW d \in Delivery, Remove(d) PROVE Provenance'
  BY <1>17 DEF Remove
<1>18. ASSUME NEW d \in Delivery, Publish(d) PROVE Provenance'
  <2>1. /\ \A q \in Request : record'[q] # None <=> record[q] # None
        /\ "files" \notin Faults => FilesBeforeRecord'
    <3>1. reqOf[d] \in Request /\ resp[d] \in Response  BY <1>18 DEF Publish
    <3>2. "files" \notin Faults => files[reqOf[d]] # None  BY <1>18 DEF Publish
    <3> HIDE DEF TypeOK
    <3>3. TypeOK /\ SetResult(reqOf[d], resp[d]) /\ files' = files  BY <1>18 DEF Publish
    <3> QED BY <3>1, <3>2, <3>3, ResultEffect
  <2>2. /\ pc' = [pc EXCEPT ![d] = "answer"] /\ pc[d] = "publish"
        /\ UNCHANGED <<reqOf, response, closed, files, out>>
    BY <1>18 DEF Publish
  <2> HIDE DEF IInv, Provenance, FilesBeforeRecord
  <2> QED BY <2>1, <2>2, ProvenanceMoves
<1>19. ASSUME NEW d \in Delivery, Finish(d) PROVE Provenance'
  BY <1>19 DEF Finish
<1>20. ASSUME NEW d \in Delivery, Exit(d) PROVE Provenance'
  <2>1. PICK file \in RunnerFile(d) : out' = [out EXCEPT ![reqOf[d]] = file]
    BY <1>20 DEF Exit
  <2>2. reqOf[d] \in Request  BY <1>20 DEF Exit
  <2>3. file # None => reqOf[file.by] = reqOf[d]  BY <2>2 DEF RunnerFile
  <2>4. \A q \in Request : out'[q] # None => reqOf[out'[q].by] = q
    BY <2>1, <2>2, <2>3
  <2> QED BY <1>20, <2>4 DEF Exit
<1>21. ASSUME NEW d \in Delivery, AutoRemove(d) PROVE Provenance'
  BY <1>21 DEF AutoRemove
<1>22. ASSUME NEW d \in Delivery, Expire(d) PROVE Provenance'
  BY <1>22 DEF Expire
<1>23. ASSUME NEW d \in Delivery, Redeliver(d) PROVE Provenance'
  BY <1>23 DEF Redeliver
<1>24. ASSUME NEW d \in Delivery, Kill(d) PROVE Provenance'
  BY <1>24 DEF Kill
<1>25. ASSUME NEW d \in Delivery, DropEvent(d) PROVE Provenance'
  BY <1>25 DEF DropEvent
<1>26. ASSUME NEW d \in Delivery, UpdateStatus(d) PROVE Provenance'
  BY <1>26 DEF UpdateStatus
<1>27. ASSUME NEW d \in Delivery, HandleRemoved(d) PROVE Provenance'
  BY <1>27 DEF HandleRemoved
<1>28. CASE RemoveDir
  <2>1. reqOf[cleaning] \in Request /\ RemoveAll(reqOf[cleaning], mounted)
    BY <1>28 DEF RemoveDir
  <2>2. \A q \in Request : out'[q] # None => out'[q] = out[q]
    <3> HIDE DEF TypeOK, RemoveAll
    <3> QED BY <2>1, RemoveAllFiles
  <2> HIDE DEF RemoveAll
  <2> QED BY <1>28, <2>2 DEF RemoveDir
<1>29. CASE StreamFails
  BY <1>29 DEF StreamFails
<1>30. CASE Stop
  BY <1>30 DEF Stop
<1>31. CASE Restart
  BY <1>31 DEF Restart
<1>32. ASSUME NEW r \in Request, Insert(r) PROVE Provenance'
  <2>1. \A q \in Request : record'[q] = IF q = r THEN NewRow ELSE record[q]
    BY <1>32 DEF Insert
  <2> QED BY <1>32, <2>1, FreshRow DEF Insert
<1>33. ASSUME NEW r \in Request, Discard(r) PROVE Provenance'
  BY <1>33 DEF Discard
<1> QED
  BY <1>1, <1>2, <1>3, <1>4, <1>5, <1>6, <1>7, <1>8, <1>9, <1>10, <1>11,
     <1>12, <1>13, <1>14, <1>15, <1>16, <1>17, <1>18, <1>19, <1>20, <1>21,
     <1>22, <1>23, <1>24, <1>25, <1>26, <1>27, <1>28, <1>29, <1>30, <1>31,
     <1>32, <1>33
     DEF Next, HandlerStep, DockerStep, LoopStep

\* A step that leaves the deliveries of a request alone does not change the
\* number of its attempts.
LEMMA AttemptsKept ==
  ASSUME NEW r \in Request, \A d \in Delivery : reqOf'[d] = r <=> reqOf[d] = r
  PROVE  Attempts(r)' = Attempts(r)
<1>1. {d \in Delivery : reqOf[d] = r}' = {d \in Delivery : reqOf[d] = r}  OBVIOUS
<1> QED BY <1>1 DEF Attempts

\* The attempt that goes on, or ends with an answer, stays the only one.
LEMMA AttemptMoves ==
  ASSUME IInv, OneAttempt, NEW d \in Delivery, NEW p, pc' = [pc EXCEPT ![d] = p],
         pc[d] \notin {"none", "errored", "lost", "done", "timedout"}, p \notin {"none", "lost"},
         pc[d] \in Started => p \in Started,
         \A e \in containers' : e \in containers \/ (e = d /\ p \in Started),
         msg' = [msg EXCEPT ![reqOf[d]] = IF p \in {"done", "timedout"} THEN "finished"
                                          ELSE IF p = "errored" THEN "ready" ELSE "inflight"],
         UNCHANGED reqOf
  PROVE  OneAttempt'
<1> USE DEF Principal
<1>1. \A e \in Delivery : pc'[e] = IF e = d THEN p ELSE pc[e]  BY DEF IInv, TypeOK
<1>2. reqOf[d] \in Request  BY DEF IInv, Assigned
<1>3. \A r \in Request \ {reqOf[d]} : msg'[r] = msg[r]  BY DEF IInv, TypeOK
<1>4. msg'[reqOf[d]] = IF p \in {"done", "timedout"} THEN "finished"
                       ELSE IF p = "errored" THEN "ready" ELSE "inflight"
  BY <1>2 DEF IInv, TypeOK
<1>5. \A e \in Delivery : Principal(e)' => Principal(e)  BY <1>1
<1>6. \A f, e \in Delivery : Principal(f)' /\ Principal(e)' /\ reqOf'[f] = reqOf'[e] => f = e
  BY <1>5 DEF OneAttempt
<1>7. ASSUME NEW e \in Delivery
      PROVE  /\ pc'[e] # "lost"
             /\ Principal(e)' => msg'[reqOf'[e]] = IF pc'[e] \in {"done", "timedout"}
                                                   THEN "finished" ELSE "inflight"
             /\ e \in containers' => pc'[e] \in Started
  <2>1. CASE e = d  BY <1>1, <1>4, <2>1 DEF OneAttempt
  <2>2. CASE e # d
    <3>1. Principal(e) => reqOf[e] \in Request \ {reqOf[d]}
      BY <2>2 DEF OneAttempt, IInv, Assigned
    <3> QED BY <1>1, <1>3, <2>2, <3>1 DEF OneAttempt
  <2> QED BY <2>1, <2>2
<1>8. ASSUME NEW r \in Request, msg'[r] = "finished"
      PROVE  \/ \E e \in Delivery : reqOf'[e] = r /\ pc'[e] \in {"done", "timedout"}
             \/ /\ Attempts(r)' >= MaxAttempts
                /\ \A e \in Delivery : reqOf'[e] = r => ~Principal(e)'
  <2>1. CASE r = reqOf[d]  BY <1>1, <1>4, <1>8, <2>1
  <2>2. CASE r # reqOf[d]
    <3>1. Attempts(r)' = Attempts(r) /\ msg[r] = "finished"  BY <1>3, <1>8, <2>2, AttemptsKept
    <3> QED BY <1>1, <2>2, <3>1 DEF OneAttempt
  <2> QED BY <2>1, <2>2
<1> QED BY <1>6, <1>7, <1>8 DEF OneAttempt

\* An attempt that goes on without an answer.
LEMMA AttemptGoesOn ==
  ASSUME IInv, OneAttempt, NEW d \in Delivery, NEW p, pc' = [pc EXCEPT ![d] = p],
         pc[d] \notin {"none", "errored", "lost", "done", "timedout"},
         p \notin {"none", "errored", "lost", "done", "timedout"},
         pc[d] \in Started => p \in Started,
         \A e \in containers' : e \in containers \/ (e = d /\ p \in Started),
         UNCHANGED <<msg, reqOf>>
  PROVE  OneAttempt'
<1>1. msg[reqOf[d]] = "inflight"  BY DEF OneAttempt, Principal
<1>2. msg = [msg EXCEPT ![reqOf[d]] = "inflight"]  BY <1>1 DEF IInv, TypeOK, Assigned
<1> QED BY <1>2, AttemptMoves

\* A message that is delivered has no attempt that goes on.
LEMMA AttemptBegins ==
  ASSUME IInv, Provenance, OneAttempt, NEW d \in Delivery, NEW r \in Request,
         pc[d] = "none", msg[r] = "ready", msg' = [msg EXCEPT ![r] = "inflight"],
         reqOf' = [reqOf EXCEPT ![d] = r], pc' = [pc EXCEPT ![d] = "acquire"],
         UNCHANGED containers
  PROVE  OneAttempt'
<1>1. \A e \in Delivery :
        /\ pc'[e] = IF e = d THEN "acquire" ELSE pc[e]
        /\ reqOf'[e] = IF e = d THEN r ELSE reqOf[e]
  BY DEF IInv, TypeOK
<1>2. \A q \in Request : msg'[q] = IF q = r THEN "inflight" ELSE msg[q]
  BY DEF IInv, TypeOK
<1>3. \A e \in Delivery : Principal(e) => reqOf[e] # r /\ reqOf[e] \in Request
  BY DEF OneAttempt, IInv, Assigned, Principal
<1> USE DEF OneAttempt, Principal
<1>4. \A f, e \in Delivery : Principal(f)' /\ Principal(e)' /\ reqOf'[f] = reqOf'[e] => f = e
  BY <1>1, <1>3
<1>5. ASSUME NEW e \in Delivery
      PROVE  /\ pc'[e] # "lost"
             /\ Principal(e)' => msg'[reqOf'[e]] = IF pc'[e] \in {"done", "timedout"}
                                                   THEN "finished" ELSE "inflight"
             /\ e \in containers' => pc'[e] \in Started
  <2>1. CASE e = d
    <3>1. d \notin containers  BY DEF Started
    <3>2. pc'[d] = "acquire" /\ reqOf'[d] = r /\ msg'[r] = "inflight"  BY <1>1, <1>2
    <3> QED BY <2>1, <3>1, <3>2
  <2>2. CASE e # d  BY <1>1, <1>2, <1>3, <2>2
  <2> QED BY <2>1, <2>2
<1>6. ASSUME NEW q \in Request, msg'[q] = "finished"
      PROVE  \/ \E e \in Delivery : reqOf'[e] = q /\ pc'[e] \in {"done", "timedout"}
             \/ /\ Attempts(q)' >= MaxAttempts
                /\ \A e \in Delivery : reqOf'[e] = q => ~Principal(e)'
  <2>1. q # r /\ msg[q] = "finished"  BY <1>2, <1>6
  <2>2. reqOf[d] # q  BY LoaderAssumption DEF Provenance
  <2>3. Attempts(q)' = Attempts(q)  BY <1>1, <2>1, <2>2, AttemptsKept
  <2> QED BY <1>1, <2>1, <2>2, <2>3
<1> QED BY <1>4, <1>5, <1>6

\* A message that NSQ gives up has no attempt that goes on.
LEMMA AttemptsEnd ==
  ASSUME IInv, OneAttempt, NEW r \in Request, Discard(r)
  PROVE  OneAttempt'
<1>1. /\ msg[r] = "ready" /\ Attempts(r) >= MaxAttempts
      /\ msg' = [msg EXCEPT ![r] = "finished"] /\ UNCHANGED <<pc, reqOf, containers>>
  BY DEF Discard, Deliverable, managerVars
<1>2. \A q \in Request : msg'[q] = IF q = r THEN "finished" ELSE msg[q]
  BY <1>1 DEF IInv, TypeOK
<1>3. \A e \in Delivery : Principal(e) => reqOf[e] # r /\ reqOf[e] \in Request
  BY <1>1 DEF OneAttempt, IInv, Assigned, Principal
<1>4. \A q \in Request : Attempts(q)' = Attempts(q)  BY <1>1, AttemptsKept
<1> QED BY <1>1, <1>2, <1>3, <1>4 DEF OneAttempt, Principal

\* Nobody's attempt moves.
LEMMA AttemptsStutter ==
  ASSUME OneAttempt, UNCHANGED <<msg, pc, reqOf, containers>>
  PROVE  OneAttempt'
<1>1. \A r \in Request : Attempts(r)' = Attempts(r)  BY AttemptsKept
<1> QED BY <1>1 DEF OneAttempt, Principal

\* No step gives a request a second attempt before the first has failed and
\* cleaned up.
LEMMA OneAttemptStep ==
  ASSUME IInv, Provenance, Quiet, OneAttempt, Next
  PROVE  OneAttempt'
<1> USE DEF Goto, Answer, RunFails, Started, nsqVars, managerVars
<1>1. ASSUME NEW d \in Delivery, NEW r \in Request, Receive(d, r) PROVE OneAttempt'
  BY <1>1, AttemptBegins DEF Receive, Deliverable
<1>2. ASSUME NEW d \in Delivery, pc[d] \notin {"none", "errored", "lost", "done", "timedout"}
      PROVE  msg[reqOf[d]] = "inflight"
  BY <1>2 DEF OneAttempt, Principal
<1>3. ASSUME NEW d \in Delivery, Acquire(d) PROVE OneAttempt'
  <2>1. /\ pc[d] = "acquire" /\ pc' = [pc EXCEPT ![d] = "prepare"]
        /\ UNCHANGED containers /\ UNCHANGED <<msg, reqOf>>
    BY <1>3 DEF Acquire
  <2> QED BY <2>1, AttemptGoesOn
<1>4. ASSUME NEW d \in Delivery, Prepare(d) PROVE OneAttempt'
  <2>1. /\ pc[d] = "prepare" /\ pc' = [pc EXCEPT ![d] = "create"]
        /\ UNCHANGED containers /\ UNCHANGED <<msg, reqOf>>
    BY <1>4 DEF Prepare
  <2> QED BY <2>1, AttemptGoesOn
<1>5. ASSUME NEW d \in Delivery, PrepareFails(d) PROVE OneAttempt'
  <2>1. /\ pc[d] = "prepare" /\ pc' = [pc EXCEPT ![d] = "fail"]
        /\ UNCHANGED containers /\ UNCHANGED <<msg, reqOf>>
    BY <1>5 DEF PrepareFails
  <2> QED BY <2>1, AttemptGoesOn
<1>6. ASSUME NEW d \in Delivery, Create(d) PROVE OneAttempt'
  <2>1. /\ pc[d] = "create" /\ pc' = [pc EXCEPT ![d] = "start"]
        /\ UNCHANGED containers /\ UNCHANGED <<msg, reqOf>>
    BY <1>6 DEF Create
  <2> QED BY <2>1, AttemptGoesOn
<1>7. ASSUME NEW d \in Delivery, CreateFails(d) PROVE OneAttempt'
  <2>1. /\ pc[d] = "create" /\ pc' = [pc EXCEPT ![d] = "fail"]
        /\ UNCHANGED containers /\ UNCHANGED <<msg, reqOf>>
    BY <1>7 DEF CreateFails
  <2> QED BY <2>1, AttemptGoesOn
<1>8. ASSUME NEW d \in Delivery, CreateReplyLost(d) PROVE OneAttempt'
  <2>1. /\ pc[d] = "create" /\ pc' = [pc EXCEPT ![d] = "fail"]
        /\ UNCHANGED containers /\ UNCHANGED <<msg, reqOf>>
    BY <1>8 DEF CreateReplyLost
  <2> QED BY <2>1, AttemptGoesOn
<1>9. ASSUME NEW d \in Delivery, Start(d) PROVE OneAttempt'
  <2>1. /\ pc[d] = "start" /\ pc' = [pc EXCEPT ![d] = "store"]
        /\ UNCHANGED containers /\ UNCHANGED <<msg, reqOf>>
    BY <1>9 DEF Start
  <2> QED BY <2>1, AttemptGoesOn
<1>10. ASSUME NEW d \in Delivery, StartFails(d) PROVE OneAttempt'
  <2>1. /\ pc[d] = "start" /\ pc' = [pc EXCEPT ![d] = "fail"]
        /\ UNCHANGED containers /\ UNCHANGED <<msg, reqOf>>
    BY <1>10 DEF StartFails
  <2> QED BY <2>1, AttemptGoesOn
<1>11. ASSUME NEW d \in Delivery, StartReplyLost(d) PROVE OneAttempt'
  <2>1. /\ pc[d] = "start" /\ pc' = [pc EXCEPT ![d] = "fail"]
        /\ UNCHANGED containers /\ UNCHANGED <<msg, reqOf>>
    BY <1>11 DEF StartReplyLost
  <2> QED BY <2>1, AttemptGoesOn
<1>12. ASSUME NEW d \in Delivery, Store(d) PROVE OneAttempt'
  <2>1. /\ pc[d] = "store" /\ pc' = [pc EXCEPT ![d] = "running"]
        /\ containers' = containers \cup {d} /\ UNCHANGED <<msg, reqOf>>
    BY <1>12 DEF Store
  <2> QED BY <2>1, AttemptGoesOn
<1>13. ASSUME NEW d \in Delivery, ReportRunning(d) PROVE OneAttempt'
  <2>1. /\ pc[d] = "running" /\ pc' = [pc EXCEPT ![d] = "select"]
        /\ UNCHANGED containers /\ UNCHANGED <<msg, reqOf>>
    BY <1>13 DEF ReportRunning
  <2> QED BY <2>1, AttemptGoesOn
<1>14. ASSUME NEW d \in Delivery, ReportError(d) PROVE OneAttempt'
  <2>1. /\ pc[d] = "fail" /\ pc' = [pc EXCEPT ![d] = "errored"] /\ UNCHANGED <<containers, reqOf>>
        /\ msg' = [msg EXCEPT ![reqOf[d]] = "ready"]
    BY <1>2, <1>14 DEF ReportError
  <2> QED BY <2>1, AttemptMoves
<1>15. ASSUME NEW d \in Delivery, Completed(d) PROVE OneAttempt'
  <2>1. /\ pc[d] = "select" /\ pc' = [pc EXCEPT ![d] = "respond"]
        /\ UNCHANGED containers /\ UNCHANGED <<msg, reqOf>>
    BY <1>15 DEF Completed
  <2> QED BY <2>1, AttemptGoesOn
<1>16. ASSUME NEW d \in Delivery, WaitTimeout(d) PROVE OneAttempt'
  <2>1. /\ pc[d] = "select" /\ pc' = [pc EXCEPT ![d] = "timedout"]
        /\ UNCHANGED <<containers, reqOf>>
        /\ msg' = [msg EXCEPT ![reqOf[d]] = "finished"]
    BY <1>2, <1>16 DEF WaitTimeout
  <2> QED BY <2>1, AttemptMoves
<1>17. ASSUME NEW d \in Delivery, Collect(d) PROVE OneAttempt'
  <2>1. /\ pc[d] = "respond" /\ pc' = [pc EXCEPT ![d] = "remove"]
        /\ UNCHANGED containers /\ UNCHANGED <<msg, reqOf>>
    BY <1>17 DEF Collect
  <2> QED BY <2>1, AttemptGoesOn
<1>18. ASSUME NEW d \in Delivery, Remove(d) PROVE OneAttempt'
  <2>1. /\ pc[d] = "remove" /\ pc' = [pc EXCEPT ![d] = "publish"]
        /\ containers' \subseteq containers /\ UNCHANGED <<msg, reqOf>>
    BY <1>18 DEF Remove
  <2> QED BY <2>1, AttemptGoesOn
<1>19. ASSUME NEW d \in Delivery, Publish(d) PROVE OneAttempt'
  <2>1. /\ pc[d] = "publish" /\ pc' = [pc EXCEPT ![d] = "answer"]
        /\ UNCHANGED containers /\ UNCHANGED <<msg, reqOf>>
    BY <1>19 DEF Publish
  <2> QED BY <2>1, AttemptGoesOn
<1>20. ASSUME NEW d \in Delivery, Finish(d) PROVE OneAttempt'
  <2>1. /\ pc[d] = "answer" /\ pc' = [pc EXCEPT ![d] = "done"] /\ UNCHANGED <<containers, reqOf>>
        /\ msg' = [msg EXCEPT ![reqOf[d]] = "finished"]
    BY <1>2, <1>20 DEF Finish
  <2> QED BY <2>1, AttemptMoves
<1>21. ASSUME NEW d \in Delivery,
             \/ Exit(d) \/ AutoRemove(d) \/ Expire(d) \/ Kill(d)
             \/ DropEvent(d) \/ UpdateStatus(d) \/ HandleRemoved(d)
      PROVE  OneAttempt'
  BY <1>21, AttemptsStutter DEF Exit, AutoRemove, Expire, Kill, DropEvent, UpdateStatus,
                               HandleRemoved
<1>22. CASE RemoveDir \/ StreamFails \/ Stop \/ \E r \in Request : Insert(r)
  BY <1>22, AttemptsStutter DEF RemoveDir, StreamFails, Stop, Insert
<1>23. ASSUME NEW r \in Request, Discard(r) PROVE OneAttempt'
  BY <1>23, AttemptsEnd
<1>24. ASSUME NEW d \in Delivery, Redeliver(d) PROVE OneAttempt'
  BY <1>24 DEF Redeliver, Quiet
<1>25. CASE Restart
  BY <1>25, LoaderAssumption DEF Restart, Quiet, IInv, TypeOK
<1> QED
  BY <1>1, <1>3, <1>4, <1>5, <1>6, <1>7, <1>8, <1>9, <1>10, <1>11, <1>12,
     <1>13, <1>14, <1>15, <1>16, <1>17, <1>18, <1>19, <1>20, <1>21, <1>22,
     <1>23, <1>24, <1>25
     DEF Next, HandlerStep, DockerStep, LoopStep

\* An attempt that moves on takes its directory with it.
LEMMA DirectoryMoves ==
  ASSUME IInv, OwnDirectory, NEW d \in Delivery, NEW p, pc' = [pc EXCEPT ![d] = p],
         pc[d] \in Started => p \in Started,
         \A e \in mounted' : e \in mounted \/ (e = d /\ p \in Started),
         UNCHANGED <<out, response>>
  PROVE  OwnDirectory'
<1>1. \A e \in Delivery : pc'[e] = IF e = d THEN p ELSE pc[e]  BY DEF IInv, TypeOK
<1>2. \A r \in Request : out[r] # None => out[r].by \in Delivery  BY DEF IInv, TypeOK, Output
<1>3. mounted \subseteq Delivery  BY DEF IInv, TypeOK
<1> QED BY <1>1, <1>2, <1>3 DEF OwnDirectory, ResultIsOwn

\* An attempt whose container could not be run leaves nothing in the directory.
LEMMA AttemptFails ==
  ASSUME IInv, Provenance, OwnDirectory, "remove" \notin Faults, NEW d \in Delivery,
         pc[d] \in {"prepare", "create", "start"}, NEW using, using \subseteq mounted \cup {d},
         RunFails(d, using)
  PROVE  OwnDirectory'
<1>1. /\ reqOf[d] \in Request
      /\ pc \in [Delivery -> PC] /\ out \in [Request -> Output \cup {None}]
  BY DEF IInv, TypeOK, Assigned
<1>2. /\ pc' = [pc EXCEPT ![d] = "fail"]
      /\ out' = [out EXCEPT ![reqOf[d]] = None]
      /\ mounted' = {x \in using : reqOf[x] # reqOf[d]}
      /\ UNCHANGED response
  BY DEF RunFails, RemoveAll, Goto
<1>3. \A e \in Delivery : pc'[e] = IF e = d THEN "fail" ELSE pc[e]  BY <1>1, <1>2
<1>4. \A r \in Request :
        /\ out[r] # None => out[r].by \in Delivery
        /\ out'[r] = IF r = reqOf[d] THEN None ELSE out[r]
  BY <1>1, <1>2 DEF Output
<1>5. \A e \in mounted' : pc'[e] \in Started
  BY <1>2, <1>3 DEF OwnDirectory, IInv, TypeOK
<1>6. ASSUME NEW r \in Request, out'[r] # None PROVE pc'[out'[r].by] \in Started
  <2>1. r # reqOf[d] /\ out'[r] = out[r]  BY <1>4, <1>6
  <2>2. out[r].by # d  BY <1>6, <2>1 DEF Provenance
  <2> QED BY <1>3, <1>4, <1>6, <2>1, <2>2 DEF OwnDirectory
<1> QED BY <1>2, <1>5, <1>6 DEF OwnDirectory, ResultIsOwn

\* The file that handleContainerRemoved finds was written by that container.
LEMMA FileIsOwn ==
  ASSUME IInv, Provenance, OneAttempt, OwnDirectory, NEW d \in containers,
         out[reqOf[d]] # None
  PROVE  out[reqOf[d]].by = d
<1>1. d \in Delivery /\ pc[d] \in Started  BY DEF IInv, TypeOK, OneAttempt
<1>2. reqOf[d] \in Request  BY <1>1 DEF IInv, Assigned, Started
<1>3. out[reqOf[d]].by \in Delivery  BY <1>2 DEF IInv, TypeOK, Output
<1>4. /\ pc[out[reqOf[d]].by] \in Started
      /\ reqOf[out[reqOf[d]].by] = reqOf[d]
  BY <1>2 DEF OwnDirectory, Provenance
<1> QED BY <1>1, <1>3, <1>4 DEF OneAttempt, Principal, Started

\* No step lets another attempt write where the one that goes on reads.
LEMMA OwnDirectoryStep ==
  ASSUME IInv, Provenance, Quiet, OneAttempt, "remove" \notin Faults, OwnDirectory, Next
  PROVE  OwnDirectory'
<1> USE DEF Goto, containerVars, dirVars
<1>1. ASSUME NEW d \in Delivery,
             \/ \E r \in Request : Receive(d, r)
             \/ Acquire(d) \/ Prepare(d) \/ Create(d) \/ Start(d) \/ Store(d)
             \/ ReportRunning(d) \/ ReportError(d) \/ Completed(d) \/ WaitTimeout(d)
             \/ Collect(d) \/ Remove(d) \/ Publish(d) \/ Finish(d)
      PROVE  OwnDirectory'
  <2>1. PICK p \in PC : /\ pc' = [pc EXCEPT ![d] = p]
                        /\ pc[d] \in Started => p \in Started
                        /\ \A e \in mounted' : e \in mounted \/ (e = d /\ p \in Started)
    BY <1>1 DEF Receive, Acquire, Prepare, Create, Start, Store, ReportRunning, ReportError,
                Completed, WaitTimeout, Collect, Remove, Publish, Finish, Started, PC, InHand,
                Returned
  <2>2. UNCHANGED <<out, response>>
    BY <1>1 DEF Receive, Acquire, Prepare, Create, Start, Store, ReportRunning, ReportError,
                Completed, WaitTimeout, Collect, Remove, Publish, Finish
  <2> QED BY <2>1, <2>2, DirectoryMoves
<1>2. ASSUME NEW d \in Delivery,
             \/ PrepareFails(d) \/ CreateFails(d) \/ CreateReplyLost(d)
             \/ StartFails(d) \/ StartReplyLost(d)
      PROVE  OwnDirectory'
  <2>1. /\ pc[d] \in {"prepare", "create", "start"}
        /\ RunFails(d, mounted) \/ RunFails(d, mounted \cup {d})
    BY <1>2 DEF PrepareFails, CreateFails, CreateReplyLost, StartFails, StartReplyLost
  <2> QED BY <2>1, AttemptFails
<1>3. ASSUME NEW d \in Delivery, Exit(d) PROVE OwnDirectory'
  <2>1. PICK file \in RunnerFile(d) : out' = [out EXCEPT ![reqOf[d]] = file]
    BY <1>3 DEF Exit
  <2>2. reqOf[d] \in Request /\ mounted' \subseteq mounted /\ UNCHANGED <<pc, response>>
    BY <1>3 DEF Exit, IInv, Assigned, Phase
  <2>3. file # None => pc[file.by] \in Started  BY <2>2 DEF RunnerFile, OwnDirectory
  <2>4. \A q \in Request : out'[q] # None => pc'[out'[q].by] \in Started
    BY <2>1, <2>2, <2>3 DEF IInv, TypeOK, OwnDirectory
  <2> QED BY <2>2, <2>4 DEF OwnDirectory, ResultIsOwn
<1>4. ASSUME NEW d \in Delivery, HandleRemoved(d) PROVE OwnDirectory'
  <2>1. /\ d \in containers /\ response' = [response EXCEPT ![d] = out[reqOf[d]]]
        /\ UNCHANGED <<pc, mounted, out>>
    BY <1>4 DEF HandleRemoved, GetSandboxRunnerOutput
  <2>2. out[reqOf[d]] # None => out[reqOf[d]].by = d  BY <2>1, FileIsOwn
  <2>3. ResultIsOwn'  BY <2>1, <2>2 DEF OwnDirectory, ResultIsOwn, IInv, TypeOK
  <2> QED BY <2>1, <2>3 DEF OwnDirectory
<1>5. CASE RemoveDir
  <2>1. /\ mounted' \subseteq mounted /\ UNCHANGED <<pc, response>>
        /\ reqOf[cleaning] \in Request /\ out' = [out EXCEPT ![reqOf[cleaning]] = None]
    BY <1>5, LoaderAssumption DEF RemoveDir, RemoveAll, IInv, TypeOK, Assigned
  <2>2. \A q \in Request : out'[q] # None => out'[q] = out[q]  BY <2>1 DEF IInv, TypeOK
  <2> QED BY <2>1, <2>2 DEF OwnDirectory, ResultIsOwn
<1>6. ASSUME UNCHANGED <<pc, mounted, out, response>> PROVE OwnDirectory'
  BY <1>6 DEF OwnDirectory, ResultIsOwn
<1>7. ASSUME NEW d \in Delivery,
             \/ AutoRemove(d) \/ Expire(d) \/ Redeliver(d) \/ Kill(d)
             \/ DropEvent(d) \/ UpdateStatus(d)
      PROVE  OwnDirectory'
  BY <1>6, <1>7 DEF AutoRemove, Expire, Redeliver, Kill, DropEvent, UpdateStatus
<1>8. CASE StreamFails \/ Stop \/ \E r \in Request : Insert(r) \/ Discard(r)
  BY <1>6, <1>8 DEF StreamFails, Stop, Insert, Discard
<1>9. CASE Restart
  BY <1>9, LoaderAssumption DEF Restart, Quiet, IInv, TypeOK
<1> QED
  BY <1>1, <1>2, <1>3, <1>4, <1>5, <1>6, <1>7, <1>8, <1>9
     DEF Next, HandlerStep, DockerStep, LoopStep

\* The handler's positions at which the row says Running, and those at which it
\* has the response.
RunningAt == {"select", "respond", "remove", "publish", "timedout"}
ResultAt  == {"answer", "done"}

\* A step of the only attempt of a request: the rows of the others stay, and
\* its own row is what its new position says.
LEMMA RowMoves ==
  ASSUME IInv, Provenance, OneAttempt, Reported, NEW d \in Delivery, NEW p,
         pc' = [pc EXCEPT ![d] = p], UNCHANGED reqOf, Principal(d), p # "none",
         \A e \in Delivery \ {d} : resp'[e] = resp[e],
         \A q \in Request \ {reqOf[d]} : record'[q] = record[q],
         p \in RunningAt => record'[reqOf[d]].status = "Running",
         p \in ResultAt => record'[reqOf[d]] = resp'[d],
         p = "errored" => record'[reqOf[d]].status = "NonDeterministicError",
         p \notin ResultAt =>
           /\ pc[d] \notin ResultAt
           /\ record'[reqOf[d]].measured = record[reqOf[d]].measured
  PROVE  Reported'
<1>1. \A e \in Delivery : pc'[e] = IF e = d THEN p ELSE pc[e]  BY DEF IInv, TypeOK
<1>2. reqOf[d] \in Request /\ \A e \in Delivery : pc[e] # "none" => reqOf[e] \in Request
  BY DEF IInv, Assigned, Principal
<1>3. \A e \in Delivery \ {d} : Principal(e) => reqOf[e] # reqOf[d]  BY DEF OneAttempt
<1>4. ASSUME NEW e \in Delivery
      PROVE  /\ pc'[e] \in RunningAt => record'[reqOf'[e]].status = "Running"
             /\ pc'[e] \in ResultAt => record'[reqOf'[e]] = resp'[e]
  <2>1. CASE e = d  BY <1>1, <2>1
  <2>2. CASE e # d /\ pc[e] \in RunningAt \cup ResultAt
    <3>1. reqOf[e] \in Request \ {reqOf[d]}
      BY <1>2, <1>3, <2>2 DEF Principal, RunningAt, ResultAt
    <3> QED BY <1>1, <2>2, <3>1 DEF Reported, RunningAt, ResultAt
  <2> QED BY <1>1, <2>1, <2>2
<1>5. ASSUME NEW q \in Request, record'[q].measured # None
      PROVE  \E e \in Delivery : reqOf'[e] = q /\ pc'[e] \in ResultAt
  <2>1. CASE p \in ResultAt /\ q = reqOf[d]  BY <1>1, <2>1
  <2>2. CASE ~(p \in ResultAt /\ q = reqOf[d])
    <3>1. record[q].measured # None  BY <1>2, <1>5, <2>2
    <3>2. PICK e \in Delivery : reqOf[e] = q /\ pc[e] \in ResultAt
      BY <3>1 DEF Reported, ResultAt
    <3>3. e # d \/ p \in ResultAt  BY <3>2
    <3> QED BY <1>1, <3>2, <3>3
  <2> QED BY <2>1, <2>2
<1>6. ASSUME NEW e \in Delivery, pc'[e] = "errored"
      PROVE  \/ record'[reqOf'[e]].status = "NonDeterministicError"
             \/ \E f \in Delivery : Principal(f)' /\ reqOf'[f] = reqOf'[e]
  <2>1. CASE reqOf[e] = reqOf[d]
    <3>1. CASE p = "errored"  BY <2>1, <3>1
    <3>2. CASE p # "errored"
      <4>1. Principal(d)'  BY <1>1, <3>2 DEF Principal
      <4> QED BY <2>1, <4>1
    <3> QED BY <3>1, <3>2
  <2>2. CASE reqOf[e] # reqOf[d]
    <3>1. e # d /\ pc[e] = "errored" /\ reqOf[e] \in Request \ {reqOf[d]}
      BY <1>1, <1>2, <1>6, <2>2
    <3>2. CASE record[reqOf[e]].status = "NonDeterministicError"  BY <3>1, <3>2
    <3>3. CASE \E f \in Delivery : Principal(f) /\ reqOf[f] = reqOf[e]
      <4>1. PICK f \in Delivery : Principal(f) /\ reqOf[f] = reqOf[e]  BY <3>3
      <4>2. Principal(f)'  BY <1>1, <2>2, <4>1 DEF Principal
      <4> QED BY <4>1, <4>2
    <3> QED BY <3>1, <3>2, <3>3 DEF Reported
  <2> QED BY <2>1, <2>2
<1> QED BY <1>4, <1>5, <1>6 DEF Reported, RunningAt, ResultAt

\* A step of an attempt that leaves row and response alone.
LEMMA RowKept ==
  ASSUME IInv, Provenance, OneAttempt, Reported, NEW d \in Delivery, NEW p,
         pc' = [pc EXCEPT ![d] = p], UNCHANGED <<reqOf, record, resp>>,
         Principal(d), p \notin {"none", "errored"},
         p \in RunningAt => pc[d] \in RunningAt,
         p \in ResultAt <=> pc[d] \in ResultAt
  PROVE  Reported'
<1>1. /\ pc[d] \in RunningAt => record[reqOf[d]].status = "Running"
      /\ pc[d] \in ResultAt => record[reqOf[d]] = resp[d]
  BY DEF Reported, RunningAt, ResultAt
<1> QED BY <1>1, RowMoves

\* A step of nobody's.
LEMMA RowStutters ==
  ASSUME Reported, UNCHANGED <<pc, reqOf, record, resp>>
  PROVE  Reported'
BY DEF Reported, Principal

\* The row follows the handler of the only attempt, step by step.
LEMMA ReportedStep ==
  ASSUME IInv, Provenance, Quiet, OneAttempt, Late = {}, "repo" \notin Faults, Reported, Next
  PROVE  Reported'
<1> USE DEF Goto, RunningAt, ResultAt, Principal,
            nsqVars, managerVars, loopVars, containerVars, dirVars, storeVars
<1>1. ASSUME NEW d \in Delivery, NEW r \in Request, Receive(d, r) PROVE Reported'
  <2>1. /\ pc[d] = "none" /\ msg[r] = "ready" /\ SetStatus(r, "Created")
        /\ pc' = [pc EXCEPT ![d] = "acquire"] /\ reqOf' = [reqOf EXCEPT ![d] = r]
        /\ UNCHANGED resp
    BY <1>1 DEF Receive, Deliverable
  <2>2. \A e \in Delivery :
          /\ pc'[e] = IF e = d THEN "acquire" ELSE pc[e]
          /\ reqOf'[e] = IF e = d THEN r ELSE reqOf[e]
    BY <2>1 DEF IInv, TypeOK
  <2>3. \A e \in Delivery : Principal(e) => reqOf[e] \in Request \ {r}
    BY <2>1 DEF OneAttempt, IInv, Assigned
  <2>4. \A q \in Request :
          /\ q # r => record'[q] = record[q]
          /\ record'[q].measured = record[q].measured
    BY <2>1, StatusEffect DEF IInv
  <2>5. ASSUME NEW e \in Delivery
        PROVE  /\ pc'[e] \in RunningAt => record'[reqOf'[e]].status = "Running"
               /\ pc'[e] \in ResultAt => record'[reqOf'[e]] = resp'[e]
    BY <2>1, <2>2, <2>3, <2>4 DEF Reported
  <2>6. ASSUME NEW q \in Request, record'[q].measured # None
        PROVE  \E e \in Delivery : reqOf'[e] = q /\ pc'[e] \in ResultAt
    <3>1. PICK e \in Delivery : reqOf[e] = q /\ pc[e] \in ResultAt
      BY <2>4, <2>6 DEF Reported
    <3>2. e # d  BY <2>1, <3>1
    <3> QED BY <2>2, <3>1, <3>2
  <2>7. ASSUME NEW e \in Delivery, pc'[e] = "errored"
        PROVE  \/ record'[reqOf'[e]].status = "NonDeterministicError"
               \/ \E f \in Delivery : Principal(f)' /\ reqOf'[f] = reqOf'[e]
    <3>1. e # d /\ pc[e] = "errored" /\ reqOf'[e] = reqOf[e]  BY <2>2, <2>7
    <3>2. reqOf[e] \in Request  BY <3>1 DEF IInv, Assigned
    <3>3. CASE reqOf[e] = r
      <4>1. Principal(d)' /\ reqOf'[d] = r  BY <2>2
      <4> QED BY <3>1, <3>3, <4>1
    <3>4. CASE reqOf[e] # r /\ record[reqOf[e]].status = "NonDeterministicError"
      BY <2>4, <3>1, <3>2, <3>4
    <3>5. CASE \E f \in Delivery : Principal(f) /\ reqOf[f] = reqOf[e]
      <4>1. PICK f \in Delivery : Principal(f) /\ reqOf[f] = reqOf[e]  BY <3>5
      <4>2. Principal(f)' /\ reqOf'[f] = reqOf[f]  BY <2>1, <2>2, <4>1
      <4> QED BY <3>1, <4>1, <4>2
    <3> QED BY <3>1, <3>3, <3>4, <3>5 DEF Reported
  <2> QED BY <2>5, <2>6, <2>7 DEF Reported
<1>2. ASSUME NEW d \in Delivery, Acquire(d) PROVE Reported'
  <2>1. /\ pc[d] = "acquire" /\ pc' = [pc EXCEPT ![d] = "prepare"]
        /\ UNCHANGED <<reqOf, record, resp>>
    BY <1>2 DEF Acquire, RunFails
  <2> QED BY <2>1, RowKept
<1>3. ASSUME NEW d \in Delivery, Prepare(d) PROVE Reported'
  <2>1. /\ pc[d] = "prepare" /\ pc' = [pc EXCEPT ![d] = "create"]
        /\ UNCHANGED <<reqOf, record, resp>>
    BY <1>3 DEF Prepare, RunFails
  <2> QED BY <2>1, RowKept
<1>4. ASSUME NEW d \in Delivery, PrepareFails(d) PROVE Reported'
  <2>1. /\ pc[d] = "prepare" /\ pc' = [pc EXCEPT ![d] = "fail"]
        /\ UNCHANGED <<reqOf, record, resp>>
    BY <1>4 DEF PrepareFails, RunFails
  <2> QED BY <2>1, RowKept
<1>5. ASSUME NEW d \in Delivery, Create(d) PROVE Reported'
  <2>1. /\ pc[d] = "create" /\ pc' = [pc EXCEPT ![d] = "start"]
        /\ UNCHANGED <<reqOf, record, resp>>
    BY <1>5 DEF Create, RunFails
  <2> QED BY <2>1, RowKept
<1>6. ASSUME NEW d \in Delivery, CreateFails(d) PROVE Reported'
  <2>1. /\ pc[d] = "create" /\ pc' = [pc EXCEPT ![d] = "fail"]
        /\ UNCHANGED <<reqOf, record, resp>>
    BY <1>6 DEF CreateFails, RunFails
  <2> QED BY <2>1, RowKept
<1>7. ASSUME NEW d \in Delivery, CreateReplyLost(d) PROVE Reported'
  <2>1. /\ pc[d] = "create" /\ pc' = [pc EXCEPT ![d] = "fail"]
        /\ UNCHANGED <<reqOf, record, resp>>
    BY <1>7 DEF CreateReplyLost, RunFails
  <2> QED BY <2>1, RowKept
<1>8. ASSUME NEW d \in Delivery, Start(d) PROVE Reported'
  <2>1. /\ pc[d] = "start" /\ pc' = [pc EXCEPT ![d] = "store"]
        /\ UNCHANGED <<reqOf, record, resp>>
    BY <1>8 DEF Start, RunFails
  <2> QED BY <2>1, RowKept
<1>9. ASSUME NEW d \in Delivery, StartFails(d) PROVE Reported'
  <2>1. /\ pc[d] = "start" /\ pc' = [pc EXCEPT ![d] = "fail"]
        /\ UNCHANGED <<reqOf, record, resp>>
    BY <1>9 DEF StartFails, RunFails
  <2> QED BY <2>1, RowKept
<1>10. ASSUME NEW d \in Delivery, StartReplyLost(d) PROVE Reported'
  <2>1. /\ pc[d] = "start" /\ pc' = [pc EXCEPT ![d] = "fail"]
        /\ UNCHANGED <<reqOf, record, resp>>
    BY <1>10 DEF StartReplyLost, RunFails
  <2> QED BY <2>1, RowKept
<1>11. ASSUME NEW d \in Delivery, Store(d) PROVE Reported'
  <2>1. /\ pc[d] = "store" /\ pc' = [pc EXCEPT ![d] = "running"]
        /\ UNCHANGED <<reqOf, record, resp>>
    BY <1>11 DEF Store, RunFails
  <2> QED BY <2>1, RowKept
<1>12. ASSUME NEW d \in Delivery, ReportRunning(d) PROVE Reported'
  <2>1. /\ pc[d] = "running" /\ pc' = [pc EXCEPT ![d] = "select"]
        /\ SetStatus(reqOf[d], "Running") /\ UNCHANGED <<reqOf, resp>>
    BY <1>12 DEF ReportRunning
  <2>2. reqOf[d] \in Request /\ record[reqOf[d]] # None  BY <2>1 DEF IInv, Assigned, Provenance
  <2>3. /\ record'[reqOf[d]].status = "Running"
        /\ record'[reqOf[d]].measured = record[reqOf[d]].measured
        /\ \A q \in Request \ {reqOf[d]} : record'[q] = record[q]
    BY <2>1, <2>2, StatusEffect DEF IInv
  <2> QED BY <2>1, <2>3, RowMoves
<1>13. ASSUME NEW d \in Delivery, ReportError(d) PROVE Reported'
  <2>1. /\ pc[d] = "fail" /\ pc' = [pc EXCEPT ![d] = "errored"]
        /\ SetStatus(reqOf[d], "NonDeterministicError") /\ UNCHANGED <<reqOf, resp>>
    BY <1>13 DEF ReportError
  <2>2. reqOf[d] \in Request /\ record[reqOf[d]] # None  BY <2>1 DEF IInv, Assigned, Provenance
  <2>3. /\ record'[reqOf[d]].status = "NonDeterministicError"
        /\ record'[reqOf[d]].measured = record[reqOf[d]].measured
        /\ \A q \in Request \ {reqOf[d]} : record'[q] = record[q]
    BY <2>1, <2>2, StatusEffect DEF IInv
  <2> QED BY <2>1, <2>3, RowMoves
<1>14. ASSUME NEW d \in Delivery, Completed(d) PROVE Reported'
  <2>1. /\ pc[d] = "select" /\ pc' = [pc EXCEPT ![d] = "respond"]
        /\ UNCHANGED <<reqOf, record, resp>>
    BY <1>14 DEF Completed, RunFails
  <2> QED BY <2>1, RowKept
<1>15. ASSUME NEW d \in Delivery, WaitTimeout(d) PROVE Reported'
  <2>1. /\ pc[d] = "select" /\ pc' = [pc EXCEPT ![d] = "timedout"]
        /\ UNCHANGED <<reqOf, record, resp>>
    BY <1>15 DEF WaitTimeout, RunFails
  <2> QED BY <2>1, RowKept
<1>16. ASSUME NEW d \in Delivery, Collect(d) PROVE Reported'
  <2>1. /\ pc[d] = "respond" /\ pc' = [pc EXCEPT ![d] = "remove"]
        /\ resp' = [resp EXCEPT ![d] = GetResponse(d)] /\ UNCHANGED <<reqOf, record>>
    BY <1>16 DEF Collect
  <2>2. \A e \in Delivery \ {d} : resp'[e] = resp[e]  BY <2>1 DEF IInv, TypeOK
  <2>3. record[reqOf[d]].status = "Running"  BY <2>1 DEF Reported
  <2> QED BY <2>1, <2>2, <2>3, RowMoves
<1>17. ASSUME NEW d \in Delivery, Remove(d) PROVE Reported'
  <2>1. /\ pc[d] = "remove" /\ pc' = [pc EXCEPT ![d] = "publish"]
        /\ UNCHANGED <<reqOf, record, resp>>
    BY <1>17 DEF Remove, RunFails
  <2> QED BY <2>1, RowKept
<1>18. ASSUME NEW d \in Delivery, Publish(d) PROVE Reported'
  <2>1. /\ pc[d] = "publish" /\ pc' = [pc EXCEPT ![d] = "answer"]
        /\ SetResult(reqOf[d], resp[d]) /\ UNCHANGED <<reqOf, resp>>
    BY <1>18 DEF Publish
  <2>2. /\ reqOf[d] \in Request /\ record[reqOf[d]] # None /\ resp[d] \in Response
    BY <2>1 DEF IInv, TypeOK, Assigned, Provenance
  <2>3. record[reqOf[d]].measured = None
    <3> SUFFICES ASSUME record[reqOf[d]].measured # None PROVE FALSE  OBVIOUS
    <3>1. PICK e \in Delivery : reqOf[e] = reqOf[d] /\ pc[e] \in {"answer", "done"}
      BY <2>2 DEF Reported
    <3>2. Principal(e) /\ Principal(d) /\ e # d  BY <2>1, <3>1
    <3> QED BY <3>1, <3>2 DEF OneAttempt
  <2>4. /\ record'[reqOf[d]] = resp[d]
        /\ \A q \in Request \ {reqOf[d]} : record'[q] = record[q]
    BY <2>1, <2>2, <2>3, ResultEffect DEF IInv
  <2> QED BY <2>1, <2>4, RowMoves
<1>19. ASSUME NEW d \in Delivery, Finish(d) PROVE Reported'
  <2>1. /\ pc[d] = "answer" /\ pc' = [pc EXCEPT ![d] = "done"]
        /\ UNCHANGED <<reqOf, record, resp>>
    BY <1>19 DEF Finish, RunFails
  <2> QED BY <2>1, RowKept
<1>20. ASSUME NEW d \in Delivery, Exit(d) PROVE Reported'
  BY <1>20, RowStutters DEF Exit, dockerVars
<1>21. ASSUME NEW d \in Delivery, AutoRemove(d) PROVE Reported'
  BY <1>21, RowStutters DEF AutoRemove, dockerVars
<1>22. ASSUME NEW d \in Delivery, Expire(d) PROVE Reported'
  BY <1>22, RowStutters DEF Expire, dockerVars
<1>23. ASSUME NEW d \in Delivery, Redeliver(d) PROVE Reported'
  BY <1>23, RowStutters DEF Redeliver, dockerVars
<1>24. ASSUME NEW d \in Delivery, Kill(d) PROVE Reported'
  BY <1>24, RowStutters DEF Kill, dockerVars
<1>25. ASSUME NEW d \in Delivery, DropEvent(d) PROVE Reported'
  BY <1>25, RowStutters DEF DropEvent, dockerVars
<1>26. ASSUME NEW d \in Delivery, UpdateStatus(d) PROVE Reported'
  BY <1>26, RowStutters DEF UpdateStatus, dockerVars
<1>27. ASSUME NEW d \in Delivery, HandleRemoved(d) PROVE Reported'
  BY <1>27, RowStutters DEF HandleRemoved, dockerVars
<1>28. CASE RemoveDir
  BY <1>28, RowStutters DEF RemoveDir, dockerVars
<1>29. CASE StreamFails
  BY <1>29, RowStutters DEF StreamFails, dockerVars
<1>30. CASE Stop
  BY <1>30, RowStutters DEF Stop, dockerVars
<1>31. CASE Restart
  BY <1>31, LoaderAssumption DEF Restart, Quiet, IInv, TypeOK
<1>32. ASSUME NEW r \in Request, Insert(r) PROVE Reported'
  BY <1>32 DEF Insert, Provenance
<1>33. ASSUME NEW r \in Request, Discard(r) PROVE Reported'
  BY <1>33, RowStutters DEF Discard, dockerVars
<1> QED
  BY <1>1, <1>2, <1>3, <1>4, <1>5, <1>6, <1>7, <1>8, <1>9, <1>10, <1>11,
     <1>12, <1>13, <1>14, <1>15, <1>16, <1>17, <1>18, <1>19, <1>20, <1>21,
     <1>22, <1>23, <1>24, <1>25, <1>26, <1>27, <1>28, <1>29, <1>30, <1>31,
     <1>32, <1>33
     DEF Next, HandlerStep, DockerStep, LoopStep

-----------------------------------------------------------------------------
(* Results *)

\* The invariant over files, responses, rows and messages is inductive.
THEOREM ResultInvariance == Spec => []ResultInv
<1>1. Init => Provenance /\ OneAttempt /\ OwnDirectory /\ (Late = {} => Reported)
  <2> SUFFICES ASSUME Init
               PROVE  Provenance /\ OneAttempt /\ OwnDirectory /\ (Late = {} => Reported)
    OBVIOUS
  <2>1. \A d \in Delivery :
          pc[d] = "none" /\ reqOf[d] = None /\ response[d] = None
    BY DEF Init
  <2>2. \A r \in Request :
          /\ msg[r] = "ready" /\ out[r] = None
          /\ record[r] = IF r \in Late THEN None ELSE NewRow
    BY DEF Init
  <2>3. containers = {} /\ mounted = {}  BY DEF Init
  <2>4. NewRow.measured = None  BY DEF NewRow
  <2>5. Provenance  BY <2>1, <2>2, FreshRow DEF Provenance, FilesBeforeRecord
  <2>6. OneAttempt /\ OwnDirectory
    BY <2>1, <2>2, <2>3 DEF OneAttempt, OwnDirectory, Principal, ResultIsOwn
  <2>7. Late = {} => Reported  BY <2>1, <2>2, <2>4 DEF Reported
  <2> QED BY <2>5, <2>6, <2>7
<1>2. IInv /\ ResultInv /\ IInv' /\ [Next]_vars => ResultInv'
  <2> SUFFICES ASSUME IInv, ResultInv, IInv', [Next]_vars PROVE ResultInv'  OBVIOUS
  <2>1. CASE Next
    BY <2>1, ProvenanceStep, OneAttemptStep, OwnDirectoryStep, ReportedStep DEF ResultInv
  <2>2. CASE UNCHANGED vars
    <3> USE <2>2 DEF vars, nsqVars, managerVars, containerVars, dirVars, storeVars
    <3>1. Provenance => Provenance'  BY DEF Provenance, FilesBeforeRecord
    <3>2. OneAttempt => OneAttempt'  BY AttemptsStutter
    <3>3. OwnDirectory => OwnDirectory'  BY DEF OwnDirectory, ResultIsOwn
    <3>4. Reported => Reported'  BY RowStutters
    <3> QED BY <3>1, <3>2, <3>3, <3>4 DEF ResultInv
  <2> QED BY <2>1, <2>2
<1>3. Init /\ IInv => ResultInv  BY <1>1 DEF ResultInv
<1> QED BY <1>2, <1>3, Invariance, PTL DEF Spec

\* Without redelivery during an attempt, without a crash and if os.RemoveAll does
\* not fail (its error is dropped), a handler publishes the output of its own
\* container, although all attempts of a request share one directory
\* (queue.go:107, sandbox.go:320-342).
THEOREM OwnResult ==
  ASSUME Quiet, "remove" \notin Faults
  PROVE  Spec => []ResultIsOwn
<1>1. ResultInv => ResultIsOwn  BY DEF ResultInv, OwnDirectory
<1> QED BY <1>1, ResultInvariance, PTL

\* If the file store does not fail, a row with a result of the runner has its
\* output files (WriteFiles comes before UpdateExecution, queue.go:169-179), in
\* spite of crashes, redeliveries and an unreliable repository.
THEOREM FilesComeFirst ==
  ASSUME "files" \notin Faults
  PROVE  Spec => []FilesBeforeRecord
<1>1. ResultInv => FilesBeforeRecord  BY DEF ResultInv, Provenance
<1> QED BY <1>1, ResultInvariance, PTL

\* A message that NSQ considers handled has the response of its handler in its
\* row, or its handler timed out and the row says Running, or NSQ has given it
\* up after MaxAttempts errors and the row says NonDeterministicError.
THEOREM AnsweredIsReported ==
  ASSUME Quiet, Late = {}, "repo" \notin Faults
  PROVE  Spec => []AnsweredMeansReported
<1>1. ResultInv => AnsweredMeansReported
  <2> SUFFICES ASSUME ResultInv, NEW r \in Request, msg[r] = "finished"
               PROVE  \/ \E d \in Delivery :
                           /\ reqOf[d] = r
                           /\ \/ pc[d] = "done" /\ record[r] = resp[d]
                              \/ pc[d] = "timedout" /\ record[r].status = "Running"
                      \/ /\ Attempts(r) >= MaxAttempts
                         /\ \A d \in Delivery : reqOf[d] = r => pc[d] = "errored"
                         /\ record[r].status = "NonDeterministicError"
    BY DEF AnsweredMeansReported
  <2>1. CASE \E d \in Delivery : reqOf[d] = r /\ pc[d] \in {"done", "timedout"}
    BY <2>1 DEF ResultInv, Reported
  <2>2. CASE Attempts(r) >= MaxAttempts /\ \A d \in Delivery : reqOf[d] = r => ~Principal(d)
    <3>1. \A d \in Delivery : reqOf[d] = r => pc[d] = "errored"
      BY <2>2, LoaderAssumption DEF ResultInv, Provenance, Principal
    <3>2. {d \in Delivery : reqOf[d] = r} # {}
      BY <2>2, FS_EmptySet, LoaderAssumption DEF Attempts
    <3>3. PICK d \in Delivery : reqOf[d] = r  BY <3>2
    <3>4. record[r].status = "NonDeterministicError"
      BY <2>2, <3>1, <3>3 DEF ResultInv, Reported
    <3> QED BY <2>2, <3>1, <3>4
  <2> QED BY <2>1, <2>2 DEF ResultInv, OneAttempt
<1> QED BY <1>1, ResultInvariance, PTL

\* Once a handler has published its response no step changes the row: a later
\* attempt does not exist, and the late insert of the API is excluded.
THEOREM StableResult ==
  ASSUME Quiet, Late = {}
  PROVE  Spec => ResultStable
<1> DEFINE Same == \A d \in Delivery :
                     pc[d] \in {"answer", "done"} => record'[reqOf[d]] = record[reqOf[d]]
<1>1. ResultInv /\ [Next]_vars => [Same]_vars
  <2> SUFFICES ASSUME ResultInv, Next, NEW d \in Delivery, pc[d] \in {"answer", "done"},
                      record' # record
               PROVE  record'[reqOf[d]] = record[reqOf[d]]
    OBVIOUS
  <2>1. /\ reqOf[d] \in Request /\ msg[reqOf[d]] # "ready" /\ Principal(d)
        /\ TypeOK /\ Assigned /\ \A r \in Request : record[r] # None
        /\ \A e \in Delivery : Principal(e) /\ e # d => reqOf[e] # reqOf[d]
    BY DEF ResultInv, IInv, Assigned, OneAttempt, Principal, Provenance
  <2>2. ASSUME NEW e \in Delivery, NEW r \in Request, Receive(e, r)
        PROVE  record'[reqOf[d]] = record[reqOf[d]]
    BY <2>1, <2>2, StatusEffect DEF Receive, Deliverable
  <2>3. ASSUME NEW e \in Delivery, ReportRunning(e) \/ ReportError(e)
        PROVE  record'[reqOf[d]] = record[reqOf[d]]
    <3>1. pc[e] \in {"running", "fail"} /\ reqOf[e] \in Request /\ reqOf[e] # reqOf[d]
      BY <2>1, <2>3 DEF ReportRunning, ReportError, Principal, Assigned
    <3> QED BY <2>1, <2>3, <3>1, StatusEffect DEF ReportRunning, ReportError
  <2>4. ASSUME NEW e \in Delivery, Publish(e)
        PROVE  record'[reqOf[d]] = record[reqOf[d]]
    <3>1. /\ pc[e] = "publish" /\ reqOf[e] \in Request /\ reqOf[e] # reqOf[d]
          /\ resp[e] \in Response
      BY <2>1, <2>4 DEF Publish, Principal, Assigned, TypeOK
    <3> QED BY <2>1, <2>4, <3>1, ResultEffect DEF Publish
  <2>5. ASSUME NEW r \in Request, Insert(r) PROVE FALSE
    BY <2>1, <2>5 DEF Insert
  <2>6. ASSUME NEW e \in Delivery,
               \/ Acquire(e) \/ Prepare(e) \/ PrepareFails(e)
               \/ Create(e) \/ CreateFails(e) \/ CreateReplyLost(e)
               \/ Start(e) \/ StartFails(e) \/ StartReplyLost(e)
               \/ Store(e) \/ Completed(e) \/ WaitTimeout(e) \/ Collect(e)
               \/ Remove(e) \/ Finish(e) \/ DockerStep(e)
               \/ Expire(e) \/ Redeliver(e) \/ Kill(e)
               \/ DropEvent(e) \/ UpdateStatus(e) \/ HandleRemoved(e)
        PROVE  FALSE
    BY <2>6 DEF Acquire, Prepare, PrepareFails, Create, CreateFails, CreateReplyLost, Start,
                StartFails, StartReplyLost, RunFails, Store, Completed, WaitTimeout, Collect,
                Remove, Finish, DockerStep, Exit, AutoRemove, Expire, Redeliver, Kill,
                DropEvent, UpdateStatus, HandleRemoved, storeVars
  <2>7. CASE RemoveDir \/ StreamFails \/ Stop \/ Restart \/ \E r \in Request : Discard(r)
    BY <2>7 DEF RemoveDir, StreamFails, Stop, Restart, Discard, storeVars
  <2> QED BY <2>2, <2>3, <2>4, <2>5, <2>6, <2>7 DEF Next, HandlerStep, LoopStep
<1> QED BY <1>1, ResultInvariance, PTL DEF Spec, ResultStable
-----------------------------------------------------------------------------
(* The loader implements Execution *)

\* The handler's positions as an attempt of Execution.
Attempt == [d \in Delivery |-> AttemptOf(pc[d])]

\* A move of the handler is the move of its attempt, and of no other.
LEMMA AttemptGoes ==
  ASSUME TypeOK, NEW d \in Delivery, NEW next, Goto(d, next)
  PROVE  Attempt' = [Attempt EXCEPT ![d] = AttemptOf(next)]
<1>1. pc' = [pc EXCEPT ![d] = next] /\ pc \in [Delivery -> PC]  BY DEF Goto, TypeOK
<1>2. pc'[d] = next /\ \A e \in Delivery : e # d => pc'[e] = pc[e]  BY <1>1
<1>3. Attempt' = [e \in Delivery |-> AttemptOf(pc'[e])]
  BY DEF Attempt, AttemptOf, Returned
<1> QED BY <1>2, <1>3 DEF Attempt

\* What Execution sees of the loader.
Seen == <<msg, reqOf, Attempt, resp, record, files>>

\* A step that changes nothing of it is a stuttering step of Execution.
LEMMA SeenStutters ==
  ASSUME UNCHANGED Seen
  PROVE  UNCHANGED Exec!execVars
BY DEF Seen, Attempt, Exec!execVars

\* A move between calls that are one phase of Execution is not seen.
LEMMA PhaseKept ==
  ASSUME TypeOK, NEW d \in Delivery, NEW next, Goto(d, next),
         AttemptOf(next) = AttemptOf(pc[d]), UNCHANGED <<msg, reqOf, resp, record, files>>
  PROVE  UNCHANGED Exec!execVars
<1>1. Attempt' = [Attempt EXCEPT ![d] = AttemptOf(next)]  BY AttemptGoes
<1>2. Attempt' = Attempt  BY <1>1 DEF Attempt
<1> QED BY <1>2, SeenStutters DEF Seen

\* Where the calls of the handler begin and end the phases of Execution.
LEMMA PhaseNames ==
  /\ AttemptOf("none") = "idle"
  /\ AttemptOf("acquire") = "waiting"
  /\ \A p \in {"prepare", "create", "start", "store", "running", "fail"} :
       AttemptOf(p) = "taken"
  /\ \A p \in {"select", "respond"} : AttemptOf(p) = "running"
  /\ \A p \in {"remove", "publish"} : AttemptOf(p) = "storing"
  /\ AttemptOf("answer") = "published"
  /\ \A p \in Returned : AttemptOf(p) = "ended"
  /\ \A p \in PC : AttemptOf(p) = "idle" <=> p = "none"
BY DEF AttemptOf, Returned, PC, InHand

\* A handler that takes a message is an attempt that does.
LEMMA ReceiveTakes ==
  ASSUME TypeOK, NEW d \in Delivery, NEW r \in Request, Receive(d, r)
  PROVE  Exec!Take(d, r)
<1>1. Attempt' = [Attempt EXCEPT ![d] = "waiting"] /\ Attempt[d] = "idle"
  BY AttemptGoes, PhaseNames DEF Receive, Attempt
<1>2. Exec!SetStatus(r, "Created")
  BY DEF Receive, SetStatus, Change, Exec!SetStatus, Exec!Change
<1>3. Exec!Attempts(r) = Attempts(r)
  BY DEF Attempts, Exec!Attempts, Cardinality, Exec!Cardinality
<1> QED BY <1>1, <1>2, <1>3 DEF Receive, Deliverable, Exec!Take, Exec!Goto, Attempt

\* After MaxAttempts NSQ gives the message up.
LEMMA DiscardDiscards ==
  ASSUME NEW r \in Request, Discard(r)
  PROVE  Exec!Discard(r)
<1>1. Attempt' = Attempt  BY DEF Discard, Attempt
<1>2. Exec!Attempts(r) = Attempts(r)
  BY DEF Attempts, Exec!Attempts, Cardinality, Exec!Cardinality
<1> QED BY <1>1, <1>2 DEF Discard, Deliverable, storeVars, Exec!Discard, Attempt

\* A handler that gets its element of the limiter is an attempt whose turn it is.
LEMMA AcquireEnters ==
  ASSUME TypeOK, NEW d \in Delivery, Acquire(d)
  PROVE  Exec!Enter(d)
<1>1. Attempt' = [Attempt EXCEPT ![d] = "taken"] /\ Attempt[d] = "waiting"
  BY AttemptGoes, PhaseNames DEF Acquire, Attempt
<1> QED BY <1>1 DEF Acquire, nsqVars, storeVars, Exec!Enter, Exec!Goto, Attempt

\* Once the container is registered, the row says that the program runs.
LEMMA RunningRuns ==
  ASSUME TypeOK, NEW d \in Delivery, ReportRunning(d)
  PROVE  Exec!Run(d)
<1>1. Attempt' = [Attempt EXCEPT ![d] = "running"] /\ Attempt[d] = "taken"
  BY AttemptGoes, PhaseNames DEF ReportRunning, Attempt
<1>2. Exec!SetStatus(reqOf[d], "Running")
  BY DEF ReportRunning, SetStatus, Change, Exec!SetStatus, Exec!Change
<1> QED BY <1>1, <1>2 DEF ReportRunning, nsqVars, Exec!Run, Exec!Goto, Attempt

\* A failed AddContainer marks the row and returns the error (queue.go:124-127).
LEMMA ErrorFails ==
  ASSUME TypeOK, NEW d \in Delivery, ReportError(d)
  PROVE  Exec!Fail(d)
<1>1. Attempt' = [Attempt EXCEPT ![d] = "ended"] /\ Attempt[d] = "taken"
  BY AttemptGoes, PhaseNames DEF ReportError, Attempt, Returned
<1>2. Exec!SetStatus(reqOf[d], "NonDeterministicError")
  BY DEF ReportError, SetStatus, Change, Exec!SetStatus, Exec!Change
<1> QED BY <1>1, <1>2 DEF ReportError, Answer, Exec!Answer, Exec!Fail, Exec!Goto, Attempt

\* After maxTimeout the handler returns nil: no result, no other delivery.
LEMMA TimeoutGivesUp ==
  ASSUME TypeOK, NEW d \in Delivery, WaitTimeout(d)
  PROVE  Exec!GiveUp(d)
<1>1. Attempt' = [Attempt EXCEPT ![d] = "ended"] /\ Attempt[d] = "running"
  BY AttemptGoes, PhaseNames DEF WaitTimeout, Attempt, Returned
<1> QED BY <1>1 DEF WaitTimeout, storeVars, Answer, Exec!Answer, Exec!GiveUp, Exec!Goto, Attempt

\* UpdateExecution changes the row only when no file is still to be written.
LEMMA PublishPublishes ==
  ASSUME TypeOK, NEW d \in Delivery, Publish(d)
  PROVE  Exec!Publish(d)
<1>1. Attempt' = [Attempt EXCEPT ![d] = "published"] /\ Attempt[d] = "storing"
  BY AttemptGoes, PhaseNames DEF Publish, Attempt
<1>2. Exec!SetResult(reqOf[d], resp[d])
  BY DEF Publish, SetResult, Change, Exec!SetResult, Exec!Change
<1> QED BY <1>1, <1>2 DEF Publish, nsqVars, Exec!Publish, Exec!Goto, Attempt

\* The nil return finishes the message, if it is still this handler's.
LEMMA FinishFinishes ==
  ASSUME TypeOK, NEW d \in Delivery, Finish(d)
  PROVE  Exec!Finish(d)
<1>1. Attempt' = [Attempt EXCEPT ![d] = "ended"] /\ Attempt[d] = "published"
  BY AttemptGoes, PhaseNames DEF Finish, Attempt, Returned
<1> QED BY <1>1 DEF Finish, storeVars, Answer, Exec!Answer, Exec!Finish, Exec!Goto, Attempt

\* What a handler collects is a result of the run: the test is judged exactly
\* for a finished run, because the status and the file it compares belong
\* together, and the measurements come from an attempt of this request, its own
\* if NSQ and the loader are quiet and directories can be removed.
LEMMA ResponseIsResult ==
  ASSUME ResultInv, NEW d \in Delivery, pc[d] = "respond"
  PROVE  GetResponse(d) \in Exec!Result(d, reqOf[d])
<1> DEFINE res == GetResponse(d)
           file == response[d]
<1>1. /\ d \in containers /\ closed[d] /\ file \in Output \cup {None}
      /\ file # None => status[d] = file.status /\ reqOf[file.by] = reqOf[d]
      /\ status[d] = "Finished" => file # None
      /\ Quiet /\ "remove" \notin Faults /\ file # None => file.by = d
  BY DEF ResultInv, IInv, TypeOK, Phase, VerdictFaithful, Provenance, OwnDirectory, ResultIsOwn
<1>2. "NotRan" \notin RunnerStatus /\ None \notin Delivery /\ None \notin Output
  BY LoaderAssumption
<1>3. res.status = (IF file = None THEN "NotRan" ELSE file.status)
  BY DEF GetResponse
<1>4. res.test = IF status[d] = "Finished" /\ reqOf[d] \in Tested
                 THEN IF file.match THEN "TestPassed" ELSE "TestFailed" ELSE "NoTest"
  BY DEF GetResponse
<1>5. res.measured = IF file = None \/ file.status = "NotRan" THEN None ELSE file.by
  BY DEF GetResponse
<1>6. res \in Exec!Response
  BY <1>1, <1>2 DEF GetResponse, Output, Exec!Response
<1>7. res.test # "NoTest" <=> res.status = "Finished" /\ reqOf[d] \in Tested
  <2>1. res.test # "NoTest" <=> status[d] = "Finished" /\ reqOf[d] \in Tested  BY <1>4
  <2>2. res.status = "Finished" <=> status[d] = "Finished"
    <3>1. CASE file = None  BY <3>1, <1>1, <1>3
    <3>2. CASE file # None  BY <3>2, <1>1, <1>3
    <3> QED BY <3>1, <3>2
  <2> QED BY <2>1, <2>2
<1>8. ASSUME res.status # "NotRan" PROVE res.measured \in Exec!Source(d, reqOf[d])
  <2>1. file # None /\ res.measured = file.by /\ file.by \in Delivery /\ reqOf[file.by] = reqOf[d]
    BY <1>1, <1>3, <1>5, <1>8 DEF Output
  <2>2. \/ Quiet /\ "remove" \notin Faults
        \/ (Faults \cup (IF MaxCrashes > 0 THEN {"crash"} ELSE {}))
              \cap {"redeliver", "crash", "remove"} # {}
    BY LoaderAssumption DEF Quiet
  <2> QED BY <1>1, <2>1, <2>2 DEF Exec!Source
<1>9. res.status = "NotRan" => res.measured = None  BY <1>3, <1>5
<1> QED BY <1>6, <1>7, <1>8, <1>9 DEF Exec!Result

\* The three output files are written, or, with a failing store, none.
LEMMA FilesWritten ==
  ASSUME TypeOK, NEW d \in Delivery, reqOf[d] \in Request, WriteFiles(d)
  PROVE  Exec!Written(d, OutputFiles)
<1>1. None \notin Delivery /\ files \in [Request -> Delivery \cup {None}]
  BY LoaderAssumption DEF TypeOK
<1> DEFINE All == [r \in Request |-> [f \in OutputFiles |-> files[r]]]
           Filled(v) == [All EXCEPT ![reqOf[d]] =
                           [f \in OutputFiles |-> IF f \in OutputFiles /\ v[f] # None
                                                  THEN v[f] ELSE @[f]]]
<1>2. CASE files' = [files EXCEPT ![reqOf[d]] = d]
  <2> DEFINE v == [f \in OutputFiles |-> d]
  <2>1. All' = [r \in Request |-> [f \in OutputFiles |-> files'[r]]]  OBVIOUS
  <2>2. All' = Filled(v)  BY <1>1, <1>2, <2>1
  <2> QED BY <2>2 DEF Exec!Written
<1>3. CASE "files" \in Faults /\ UNCHANGED files
  <2> DEFINE v == [f \in OutputFiles |-> None]
  <2>1. All' = Filled(v)  BY <1>3
  <2> HIDE DEF v
  <2>2. v \in [OutputFiles -> {d, Exec!Cut, None}]  BY DEF v
  <2> QED BY <1>3, <2>1, <2>2 DEF Exec!Written
<1> QED BY <1>2, <1>3 DEF WriteFiles

\* GetResponse and WriteFiles are the collection of a result: no file is left
\* to write when the handler goes on.
LEMMA CollectCollects ==
  ASSUME ResultInv, NEW d \in Delivery, Collect(d)
  PROVE  Exec!Collect(d)
<1>1. TypeOK /\ reqOf[d] \in Request /\ pc[d] = "respond"
  BY DEF ResultInv, IInv, Assigned, Collect
<1>2. Attempt' = [Attempt EXCEPT ![d] = "storing"] /\ Attempt[d] = "running"
  BY <1>1, AttemptGoes, PhaseNames DEF Collect, Attempt
<1>3. \E res \in Exec!Result(d, reqOf[d]) : resp' = [resp EXCEPT ![d] = res]
  BY <1>1, ResponseIsResult DEF Collect
<1>4. Exec!Written(d, OutputFiles)  BY <1>1, FilesWritten DEF Collect
<1>5. \E w \in SUBSET OutputFiles :
        /\ Exec!Written(d, w)
        /\ [e \in Delivery |-> {}]' = [[e \in Delivery |-> {}] EXCEPT ![d] = OutputFiles \ w]
  <2>1. OutputFiles \ OutputFiles = {}  OBVIOUS
  <2>2. [e \in Delivery |-> {}] = [[e \in Delivery |-> {}] EXCEPT ![d] = {}]  OBVIOUS
  <2> QED BY <1>4, <2>1, <2>2
<1> QED BY <1>2, <1>3, <1>5 DEF Collect, nsqVars, Exec!Collect, Exec!Goto, Attempt

\* A restart of the loader is a crash of Execution: every attempt that has begun
\* is over, and NSQ gives its message to another one.
LEMMA RestartCrashes ==
  ASSUME TypeOK, Restart
  PROVE  Exec!Crash
<1>1. MaxCrashes > 0  BY LoaderAssumption DEF Restart, TypeOK
<1>2. \A d \in Delivery :
        AttemptOf(pc'[d]) = IF AttemptOf(pc[d]) = "idle" THEN "idle" ELSE "ended"
  <2> TAKE d \in Delivery
  <2>1. pc[d] \in PC  BY DEF TypeOK
  <2>2. pc'[d] = IF pc[d] \in {"none", "done"} THEN pc[d] ELSE "lost"  BY DEF Restart
  <2> QED BY <2>1, <2>2, PhaseNames DEF Returned
<1>3. Attempt' = [d \in Delivery |-> AttemptOf(pc'[d])]
  BY DEF Attempt, AttemptOf, Returned
<1>4. Attempt' = [d \in Delivery |-> IF Attempt[d] = "idle" THEN "idle" ELSE "ended"]
  BY <1>2, <1>3 DEF Attempt
<1> QED BY <1>1, <1>4 DEF Restart, storeVars, Exec!Crash, Attempt

\* Every step of the loader is a step of Execution, or Execution does not see it.
LEMMA StepImplements ==
  ASSUME ResultInv, [Next]_vars
  PROVE  [Exec!Next]_(Exec!execVars)
<1>1. TypeOK /\ Assigned  BY DEF ResultInv, IInv
<1> USE <1>1
<1>2. ASSUME NEW d \in Delivery, NEW r \in Request, Receive(d, r) PROVE Exec!Next
  BY <1>2, ReceiveTakes DEF Exec!Next
<1>3. ASSUME NEW d \in Delivery,
             Acquire(d) \/ ReportRunning(d) \/ ReportError(d) \/ WaitTimeout(d)
               \/ Collect(d) \/ Publish(d) \/ Finish(d)
      PROVE  Exec!Next
  <2>1. Exec!Enter(d) \/ Exec!Run(d) \/ Exec!Fail(d) \/ Exec!GiveUp(d) \/ Exec!Collect(d)
          \/ Exec!Publish(d) \/ Exec!Finish(d)
    BY <1>3, AcquireEnters, RunningRuns, ErrorFails, TimeoutGivesUp, CollectCollects,
       PublishPublishes, FinishFinishes
  <2> QED BY <2>1 DEF Exec!Next, Exec!Handle
<1>4. ASSUME NEW d \in Delivery, Redeliver(d) PROVE Exec!Next
  <2>1. reqOf[d] \in Request  BY <1>4 DEF Redeliver, Assigned
  <2>2. Attempt' = Attempt  BY <1>4 DEF Redeliver, Attempt
  <2>3. Exec!Redeliver(reqOf[d])
    BY <1>4, <2>2 DEF Redeliver, storeVars, Attempt, Exec!Redeliver
  <2> QED BY <2>1, <2>3 DEF Exec!Next, Exec!Disturb
<1>5. ASSUME NEW r \in Request, Insert(r) PROVE Exec!Next
  <2>1. Attempt' = Attempt  BY <1>5 DEF Insert, Attempt
  <2>2. Exec!Insert(r)
    BY <1>5, <2>1 DEF Insert, NewRow, nsqVars, Attempt, Exec!Insert, Exec!NewRow
  <2> QED BY <2>2 DEF Exec!Next
<1>6. CASE Restart  BY <1>6, RestartCrashes DEF Exec!Next, Exec!Disturb
<1>7. ASSUME NEW d \in Delivery,
             \/ Prepare(d) \/ PrepareFails(d)
             \/ Create(d) \/ CreateFails(d) \/ CreateReplyLost(d)
             \/ Start(d) \/ StartFails(d) \/ StartReplyLost(d) \/ Store(d)
      PROVE  UNCHANGED Exec!execVars
  <2>1. /\ pc[d] \in {"prepare", "create", "start", "store"}
        /\ \E next \in {"prepare", "create", "start", "store", "running", "fail"} : Goto(d, next)
        /\ UNCHANGED <<msg, reqOf, resp, record, files>>
    BY <1>7 DEF Prepare, PrepareFails, Create, CreateFails, CreateReplyLost, Start,
                StartFails, StartReplyLost, Store, RunFails, nsqVars, storeVars
  <2>2. PICK next \in {"prepare", "create", "start", "store", "running", "fail"} : Goto(d, next)
    BY <2>1
  <2>3. AttemptOf(next) = AttemptOf(pc[d])  BY <2>1, PhaseNames
  <2> QED BY <2>1, <2>2, <2>3, PhaseKept
<1>8. ASSUME NEW d \in Delivery, Completed(d) \/ Remove(d) PROVE UNCHANGED Exec!execVars
  <2>1. /\ \/ pc[d] = "select" /\ Goto(d, "respond")
           \/ pc[d] = "remove" /\ Goto(d, "publish")
        /\ UNCHANGED <<msg, reqOf, resp, record, files>>
    BY <1>8 DEF Completed, Remove, nsqVars, storeVars
  <2> QED BY <2>1, PhaseNames, PhaseKept
<1>9. ASSUME UNCHANGED <<msg, reqOf, pc, resp, record, files>> PROVE UNCHANGED Exec!execVars
  <2>1. Attempt' = Attempt  BY <1>9 DEF Attempt
  <2> QED BY <1>9, <2>1, SeenStutters DEF Seen
<1>10. ASSUME NEW d \in Delivery,
              \/ Exit(d) \/ AutoRemove(d) \/ Expire(d) \/ Kill(d)
              \/ DropEvent(d) \/ UpdateStatus(d) \/ HandleRemoved(d)
       PROVE  UNCHANGED <<msg, reqOf, pc, resp, record, files>>
  BY <1>10 DEF Exit, AutoRemove, Expire, Kill, DropEvent, UpdateStatus, HandleRemoved,
               nsqVars, storeVars
<1>11. CASE RemoveDir \/ StreamFails \/ Stop \/ UNCHANGED vars
  <2>1. UNCHANGED <<msg, reqOf, pc, resp, record, files>>
    BY <1>11 DEF RemoveDir, StreamFails, Stop, vars, nsqVars, storeVars
  <2> QED BY <2>1, <1>9
<1>12. ASSUME NEW r \in Request, Discard(r) PROVE Exec!Next
  BY <1>12, DiscardDiscards DEF Exec!Next
<1> QED BY <1>2, <1>3, <1>4, <1>5, <1>6, <1>7, <1>8, <1>9, <1>10, <1>11, <1>12
        DEF Next, HandlerStep, DockerStep, LoopStep

\* The loader, with limiter, container map, event loop, directories and Docker,
\* and with every failure of the environment and every number of crashes, does
\* to the message, the row and the output files only what Execution allows.
THEOREM Refinement == Spec => Implements
<1>1. Init => Exec!Init
  <2> SUFFICES ASSUME Init PROVE Exec!Init  OBVIOUS
  <2>1. Attempt = [d \in Delivery |-> "idle"]  BY PhaseNames DEF Init, Attempt
  <2>2. record \in [Request -> {None, Exec!NewRow}]
    BY DEF Init, NewRow, Exec!NewRow
  <2> QED BY <2>1, <2>2 DEF Init, Exec!Init, Attempt
<1>2. ResultInv /\ [Next]_vars => [Exec!Next]_(Exec!execVars)  BY StepImplements
<1> QED BY <1>1, <1>2, ResultInvariance, PTL DEF Spec, Implements, Exec!Spec
=============================================================================
