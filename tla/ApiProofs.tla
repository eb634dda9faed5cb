----------------------------- MODULE ApiProofs -----------------------------
(***************************************************************************)
(* What a client of the API can rely on, for every number of requests,     *)
(* deliveries and readers, and with crashes, redeliveries and failing      *)
(* calls.                                                                  *)
(*                                                                         *)
(* The server only ever makes a step of Execution or leaves its variables  *)
(* alone, so the invariant ExecInv about attempts, rows and files is one   *)
(* of Execution.  Its heart is Settled: a row with a result of the runner, *)
(* and a reader's copy of such a row, stays true of the files as long as   *)
(* there is only one attempt with a response.                              *)
(***************************************************************************)
EXTENDS Api, FiniteSetTheorems, TLAPS

\* The values of the variables that the loader and the server share.
ExecType ==
  /\ msg \in [Request -> {"none", "ready", "inflight", "finished"}]
  /\ reqOf \in [Delivery -> Request \cup {None}]
  /\ attempt \in [Delivery -> {"idle", "waiting", "taken", "running", "storing", "published",
                                "ended"}]
  /\ result \in [Delivery -> Response \cup {None}]
  /\ writing \in [Delivery -> SUBSET File]
  /\ record \in [Request -> Row \cup {None}]
  /\ files \in [Request -> [File -> Delivery \cup {Cut, None}]]

\* How far an attempt is tells whether it has a response and files to write.
Progress ==
  \A d \in Delivery :
    /\ attempt[d] # "idle" => reqOf[d] \in Request
    /\ attempt[d] \in {"idle", "waiting", "taken", "running"} => result[d] = None
    /\ attempt[d] \in {"storing", "published"} => result[d] # None
    /\ writing[d] # {} => attempt[d] = "storing"

\* What the only attempt with a response has written is there.
FilesKept ==
  \A d \in Delivery, f \in File :
    /\ attempt[d] = "storing" /\ f \notin writing[d]
    /\ Collected(reqOf[d]) = {d}
    => files[reqOf[d]][f] = d

\* A status of the runner comes from an attempt with a response; if there is
\* only one, the status is the one of that response, and all of its files are
\* there for good.
Settled(r, s) ==
  s \in RunnerStatus =>
    /\ Collected(r) # {}
    /\ \A d \in Delivery : Collected(r) = {d} =>
         /\ s = result[d].status
         /\ writing[d] = {}
         /\ \A f \in File : files[r][f] = d

RowsSettled == \A r \in Request : record[r] # None => Settled(r, record[r].status)

ExecInv == ExecType /\ Progress /\ ("files" \notin Faults => FilesKept /\ RowsSettled)

\* A reader that has its row, and the files it has read when it comes to f.
Served == Output \cup {"done"}
Done(f) == CASE f = "output"         -> {}
             [] f = "outputErr"      -> {"output"}
             [] f = "compilerOutput" -> {"output", "outputErr"}
             [] OTHER                -> Output

\* What a reader has put together.
View == [req : Request, row : Row, file : [Output -> Delivery \cup {Cut, None}]]

\* CreateCompileRequest makes its calls in order: the source, the message, the
\* row.
Submitted ==
  \A r \in Request :
    /\ create[r] \in {"idle", "submit"} => msg[r] = "none"
    /\ create[r] \in {"insert", "ok"} => msg[r] # "none"
    /\ create[r] = "ok" => record[r] # None

\* The source is stored before anybody can take the message.
Stored ==
  /\ \A r \in Request : create[r] # "idle" => source[r] = "stored"
  /\ SourceLoaded

\* A reader's copy of the row is settled, and the files it has read so far are
\* those of the row's attempt.
Reading ==
  \A c \in Call :
    read[c] \in Served =>
      /\ Settled(view[c].req, view[c].row.status)
      /\ view[c].row.status \in RunnerStatus =>
           \A d \in Delivery : Collected(view[c].req) = {d} =>
             \A f \in File \cap Done(read[c]) : view[c].file[f] = d

ApiType ==
  /\ create \in [Request -> {"idle", "submit", "insert", "ok", "error"}]
  /\ source \in [Request -> {"missing", "stored", Cut}]
  /\ loaded \in [Delivery -> {"missing", "stored", Cut}]
  /\ read \in [Call -> Output \cup {"idle", "done", "error", "panic"}]
  /\ view \in [Call -> View \cup {None}]
  /\ \A c \in Call : read[c] \in Served => view[c] \in View

ApiInv ==
  /\ ExecInv
  /\ ApiType
  /\ Submitted
  /\ RowHasMessage
  /\ "files" \notin Faults => Stored /\ Reading

-----------------------------------------------------------------------------
(* Lemmas about the operators of Execution *)

\* An update of the status keeps the table a table: no row appears or
\* disappears, and the status of a row changes only to the given one.
LEMMA StatusRow ==
  ASSUME ExecType, NEW r \in Request, NEW s \in {"Created", "Running", "NonDeterministicError"},
         SetStatus(r, s)
  PROVE  /\ record' \in [Request -> Row \cup {None}]
         /\ \A q \in Request : \/ record'[q] = record[q]
                               \/ record[q] # None /\ record'[q] # None /\ record'[q].status = s
<1> DEFINE new == [record[r] EXCEPT !.status = s]
<1>1. record \in [Request -> Row \cup {None}]  BY DEF ExecType
<1>2. record[r] # None => new \in Row /\ new.status = s  BY <1>1 DEF Row
<1>3. \/ record' = record
      \/ record[r] # None /\ record' = [record EXCEPT ![r] = new]
  BY DEF SetStatus, Change
<1> HIDE DEF new
<1>4. None \notin Row  BY ApiAssumption
<1> QED BY <1>1, <1>2, <1>3, <1>4

\* So does the update with a response, which changes only the row it is for.
LEMMA ResultRow ==
  ASSUME ExecType, NEW r \in Request, NEW res \in Response, SetResult(r, res)
  PROVE  /\ record' \in [Request -> Row \cup {None}]
         /\ \A q \in Request : \/ record'[q] = record[q]
                               \/ /\ q = r /\ record[q] # None /\ record'[q] # None
                                  /\ record'[q].status = res.status
<1> DEFINE new == [res EXCEPT !.measured = IF @ = None THEN record[r].measured ELSE @]
<1>1. record \in [Request -> Row \cup {None}]  BY DEF ExecType
<1>2. record[r] # None => new \in Row /\ new.status = res.status
  BY <1>1 DEF Row, Response
<1>3. \/ record' = record
      \/ record[r] # None /\ record' = [record EXCEPT ![r] = new]
  BY DEF SetResult, Change
<1> HIDE DEF new
<1>4. None \notin Row  BY ApiAssumption
<1> QED BY <1>1, <1>2, <1>3, <1>4

\* Writing some files of a request leaves all others alone; a store that works
\* has the new contents.
LEMMA WrittenEffect ==
  ASSUME ExecType, NEW d \in Delivery, reqOf[d] \in Request, NEW w \in SUBSET File, Written(d, w)
  PROVE  /\ files' \in [Request -> [File -> Delivery \cup {Cut, None}]]
         /\ \A q \in Request, f \in File : q # reqOf[d] \/ f \notin w => files'[q][f] = files[q][f]
         /\ "files" \notin Faults => \A f \in w : files'[reqOf[d]][f] = d
<1>1. files \in [Request -> [File -> Delivery \cup {Cut, None}]]  BY DEF ExecType
<1>2. PICK v \in [w -> IF "files" \in Faults THEN {d, Cut, None} ELSE {d}] :
        files' = [files EXCEPT ![reqOf[d]] =
                    [f \in File |-> IF f \in w /\ v[f] # None THEN v[f] ELSE @[f]]]
  BY DEF Written
<1>3. \A f \in w : v[f] \in {d, Cut, None} /\ ("files" \notin Faults => v[f] = d)
  BY <1>2
<1>4. d # None  BY ApiAssumption
<1>5. files'[reqOf[d]] = [f \in File |-> IF f \in w /\ v[f] # None THEN v[f]
                                         ELSE files[reqOf[d]][f]]
  BY <1>1, <1>2
<1>6. \A q \in Request : q # reqOf[d] => files'[q] = files[q]  BY <1>1, <1>2
<1>7. files'[reqOf[d]] \in [File -> Delivery \cup {Cut, None}]  BY <1>1, <1>3, <1>5
<1>8. files' \in [Request -> [File -> Delivery \cup {Cut, None}]]
  BY <1>1, <1>2, <1>5, <1>6, <1>7
<1> QED BY <1>3, <1>4, <1>5, <1>6, <1>8

-----------------------------------------------------------------------------
(* Attempts *)

\* Types and progress of the attempts are kept by every step of Execution.
LEMMA ProgressStep ==
  ASSUME ExecType, Progress, [Next]_execVars
  PROVE  ExecType' /\ Progress'
<1> DEFINE Good == ExecType' /\ Progress'
<1>1. None \notin Response /\ None \notin Request  BY ApiAssumption
<1>2. ASSUME NEW r \in Request, Submit(r) PROVE Good
  BY <1>2 DEF ExecType, Progress, Submit
<1>3. ASSUME NEW r \in Request, Insert(r) PROVE Good
  <2>1. NewRow \in Row  BY DEF NewRow, Row
  <2> QED BY <1>3, <2>1 DEF ExecType, Progress, Insert
<1>4. ASSUME NEW r \in Request, NEW d \in Delivery, Take(d, r) PROVE Good
  <2>1. record' \in [Request -> Row \cup {None}]  BY <1>4, StatusRow DEF Take
  <2> QED BY <1>4, <2>1 DEF ExecType, Progress, Take, Goto
<1>5. ASSUME NEW d \in Delivery, Run(d) PROVE Good
  <2>1. reqOf[d] \in Request  BY <1>5 DEF Progress, Run
  <2>2. record' \in [Request -> Row \cup {None}]  BY <1>5, <2>1, StatusRow DEF Run
  <2> QED BY <1>5, <2>2 DEF ExecType, Progress, Run, Goto
<1>6. ASSUME NEW d \in Delivery, Fail(d) PROVE Good
  <2>1. reqOf[d] \in Request  BY <1>6 DEF Progress, Fail
  <2>2. record' \in [Request -> Row \cup {None}]  BY <1>6, <2>1, StatusRow DEF Fail
  <2> QED BY <1>6, <2>1, <2>2 DEF ExecType, Progress, Fail, Answer, Goto
<1>7. ASSUME NEW d \in Delivery, GiveUp(d) \/ Finish(d) PROVE Good
  <2>1. reqOf[d] \in Request  BY <1>7 DEF Progress, GiveUp, Finish
  <2> QED BY <1>7, <2>1 DEF ExecType, Progress, GiveUp, Finish, Answer, Goto
<1>8. ASSUME NEW d \in Delivery, Collect(d) PROVE Good
  <2>1. reqOf[d] \in Request  BY <1>8 DEF Progress, Collect
  <2>2. PICK w \in SUBSET File : Written(d, w) /\ writing' = [writing EXCEPT ![d] = File \ w]
    BY <1>8 DEF Collect
  <2>3. files' \in [Request -> [File -> Delivery \cup {Cut, None}]]
    BY <2>1, <2>2, WrittenEffect
  <2>4. PICK res \in Response : result' = [result EXCEPT ![d] = res]
    BY <1>8 DEF Collect, Result
  <2>5. ExecType'  BY <1>8, <2>2, <2>3, <2>4 DEF ExecType, Collect, Goto
  <2>6. Progress'  BY <1>1, <1>8, <2>1, <2>2, <2>4 DEF ExecType, Progress, Collect, Goto
  <2> QED BY <2>5, <2>6
<1>9. ASSUME NEW d \in Delivery, NEW f \in File, CreateFile(d, f) PROVE Good
  <2>1. reqOf[d] \in Request  BY <1>9 DEF Progress, CreateFile
  <2> QED BY <1>9, <2>1 DEF ExecType, Progress, CreateFile
<1>10. ASSUME NEW d \in Delivery, NEW f \in File, WriteFile(d, f) PROVE Good
  <2>1. reqOf[d] \in Request  BY <1>10 DEF Progress, WriteFile
  <2>2. files' \in [Request -> [File -> Delivery \cup {Cut, None}]]
    BY <1>10, <2>1, WrittenEffect DEF WriteFile
  <2> QED BY <1>10, <2>2 DEF ExecType, Progress, WriteFile
<1>11. ASSUME NEW d \in Delivery, Publish(d) PROVE Good
  <2>1. reqOf[d] \in Request /\ result[d] \in Response
    BY <1>11 DEF ExecType, Progress, Publish
  <2>2. record' \in [Request -> Row \cup {None}]  BY <1>11, <2>1, ResultRow DEF Publish
  <2> QED BY <1>11, <2>2 DEF ExecType, Progress, Publish, Goto
<1>12. ASSUME NEW r \in Request, Redeliver(r) PROVE Good
  BY <1>12 DEF ExecType, Progress, Redeliver
<1>13. CASE Crash  BY <1>13 DEF ExecType, Progress, Crash
<1>14. CASE UNCHANGED execVars  BY <1>14 DEF ExecType, Progress, execVars
<1>15. ASSUME NEW r \in Request, Discard(r) PROVE Good
  BY <1>15 DEF ExecType, Progress, Discard
<1>16. ASSUME NEW d \in Delivery, Enter(d) PROVE Good
  BY <1>16 DEF ExecType, Progress, Enter, Goto
<1> QED BY <1>2, <1>3, <1>4, <1>5, <1>6, <1>7, <1>8, <1>9, <1>10, <1>11, <1>12, <1>13, <1>14,
           <1>15, <1>16
        DEF Next, Handle, Disturb

\* A handler gets its response once, and nobody but Collect changes the files
\* an attempt has still to write, except to take one away.
LEMMA ResponseOnce ==
  ASSUME ExecType, Progress, [Next]_execVars, NEW d \in Delivery
  PROVE  \/ Collect(d)
         \/ result'[d] = result[d] /\ writing'[d] \subseteq writing[d]
<1>1. ASSUME NEW e \in Delivery, Collect(e), e # d
      PROVE  result'[d] = result[d] /\ writing'[d] = writing[d]
  BY <1>1 DEF ExecType, Collect
<1>2. ASSUME NEW e \in Delivery, NEW f \in File, WriteFile(e, f)
      PROVE  result'[d] = result[d] /\ writing'[d] \subseteq writing[d]
  BY <1>2 DEF ExecType, WriteFile
<1>3. CASE Crash  BY <1>3 DEF Crash
<1>4. ASSUME \/ \E r \in Request : \/ Submit(r) \/ Insert(r) \/ Discard(r) \/ Redeliver(r)
                                   \/ \E e \in Delivery : Take(e, r)
             \/ \E e \in Delivery : \/ Enter(e) \/ Run(e) \/ Fail(e) \/ GiveUp(e)
                                    \/ Publish(e) \/ Finish(e)
                                    \/ \E f \in File : CreateFile(e, f)
             \/ UNCHANGED execVars
      PROVE  result'[d] = result[d] /\ writing'[d] \subseteq writing[d]
  BY <1>4 DEF Submit, Insert, Discard, Redeliver, Take, Enter, Run, Fail, GiveUp, Publish,
              Finish, CreateFile, execVars
<1> QED BY <1>1, <1>2, <1>3, <1>4 DEF Next, Handle, Disturb

\* A request is taken by a delivery once, when it has no response yet.
LEMMA RequestKept ==
  ASSUME ExecType, Progress, [Next]_execVars, NEW d \in Delivery
  PROVE  reqOf'[d] = reqOf[d] \/ (attempt[d] = "idle" /\ result'[d] = None)
<1>1. ASSUME NEW e \in Delivery, NEW r \in Request, Take(e, r)
      PROVE  reqOf'[d] = reqOf[d] \/ (attempt[d] = "idle" /\ result'[d] = None)
  BY <1>1 DEF ExecType, Progress, Take
<1>2. ASSUME \/ \E r \in Request : Submit(r) \/ Insert(r) \/ Discard(r) \/ Redeliver(r)
             \/ \E e \in Delivery : \/ Enter(e) \/ Run(e) \/ Fail(e) \/ GiveUp(e) \/ Collect(e)
                                    \/ Publish(e) \/ Finish(e)
                                    \/ \E f \in File : CreateFile(e, f) \/ WriteFile(e, f)
             \/ Crash \/ UNCHANGED execVars
      PROVE  reqOf' = reqOf
  BY <1>2 DEF Submit, Insert, Discard, Redeliver, Enter, Run, Fail, GiveUp, Collect, Publish,
              Finish, CreateFile, WriteFile, Crash, execVars
<1> QED BY <1>1, <1>2 DEF Next, Handle, Disturb

\* The attempts with a response only become more, by a handler that collects.
LEMMA CollectedStep ==
  ASSUME ExecType, Progress, [Next]_execVars, NEW r \in Request, NEW d \in Delivery
  PROVE  /\ d \in Collected(r) => d \in Collected(r)' /\ result'[d] = result[d]
         /\ d \in Collected(r)' => d \in Collected(r) \/ (Collect(d) /\ reqOf[d] = r)
<1>1. Collect(d) => attempt[d] = "running" /\ result[d] = None /\ reqOf'[d] = reqOf[d]
  BY DEF Collect, Progress
<1>2. attempt[d] = "idle" => result[d] = None  BY DEF Progress
<1>3. \/ Collect(d)
      \/ result'[d] = result[d]
  BY ResponseOnce
<1>4. reqOf'[d] = reqOf[d] \/ (attempt[d] = "idle" /\ result'[d] = None)  BY RequestKept
<1> QED BY <1>1, <1>2, <1>3, <1>4 DEF Collected

\* Whoever changes an output file is an attempt with a response, which is just
\* collecting it or had this file still to write.
LEMMA WriterIsCollected ==
  ASSUME ExecType, Progress, [Next]_execVars, NEW r \in Request, NEW f \in File,
         files'[r][f] # files[r][f]
  PROVE  \E d \in Delivery :
           /\ reqOf[d] = r /\ d \in Collected(r)'
           /\ Collect(d) \/ f \in writing[d]
<1>1. None \notin Response /\ None \notin Request  BY ApiAssumption
<1>2. ASSUME NEW e \in Delivery, Collect(e)
      PROVE  reqOf[e] = r /\ e \in Collected(r)'
  <2>1. reqOf[e] \in Request /\ reqOf' = reqOf  BY <1>2 DEF Collect, Progress
  <2>2. PICK w \in SUBSET File : Written(e, w)  BY <1>2 DEF Collect
  <2>3. reqOf[e] = r  BY <2>1, <2>2, WrittenEffect
  <2>4. result'[e] # None  BY <1>1, <1>2 DEF Collect, Result, ExecType
  <2> QED BY <2>1, <2>3, <2>4 DEF Collected
<1>3. ASSUME NEW e \in Delivery, NEW g \in File, CreateFile(e, g) \/ WriteFile(e, g)
      PROVE  reqOf[e] = r /\ e \in Collected(r)' /\ f \in writing[e]
  <2>1. /\ attempt[e] = "storing" /\ reqOf[e] \in Request /\ result[e] # None
        /\ g \in writing[e] /\ reqOf' = reqOf /\ result' = result
    BY <1>3 DEF CreateFile, WriteFile, Progress
  <2>2. CASE CreateFile(e, g)
    <3>1. files' = [files EXCEPT ![reqOf[e]][g] = Cut]  BY <2>2 DEF CreateFile
    <3>2. reqOf[e] = r /\ g = f  BY <2>1, <3>1 DEF ExecType
    <3> QED BY <2>1, <3>2 DEF Collected
  <2>3. CASE WriteFile(e, g)
    <3>1. Written(e, {g})  BY <2>3 DEF WriteFile
    <3>2. reqOf[e] = r /\ g = f  BY <2>1, <3>1, WrittenEffect
    <3> QED BY <2>1, <3>2 DEF Collected
  <2> QED BY <1>3, <2>2, <2>3
<1>4. ASSUME \/ \E q \in Request : \/ Submit(q) \/ Insert(q) \/ Discard(q) \/ Redeliver(q)
                                   \/ \E e \in Delivery : Take(e, q)
             \/ \E e \in Delivery : \/ Enter(e) \/ Run(e) \/ Fail(e) \/ GiveUp(e)
                                    \/ Publish(e) \/ Finish(e)
             \/ Crash \/ UNCHANGED execVars
      PROVE  FALSE
  BY <1>4 DEF Submit, Insert, Discard, Redeliver, Take, Enter, Run, Fail, GiveUp, Publish,
              Finish, Crash, execVars
<1> QED BY <1>2, <1>3, <1>4 DEF Next, Handle, Disturb

\* What is settled stays settled: the only attempt with a response is past its
\* writes, and another one that touched the files would have a response too.
LEMMA SettledStep ==
  ASSUME ExecType, Progress, [Next]_execVars, NEW r \in Request, NEW s, Settled(r, s)
  PROVE  Settled(r, s)'
<1> SUFFICES ASSUME s \in RunnerStatus
             PROVE  /\ Collected(r)' # {}
                    /\ \A d \in Delivery : Collected(r)' = {d} =>
                         /\ s = result'[d].status
                         /\ writing'[d] = {}
                         /\ \A f \in File : files'[r][f] = d
  BY DEF Settled
<1>1. Collected(r) # {} /\ Collected(r) \subseteq Delivery  BY DEF Settled, Collected
<1>2. Collected(r)' # {}  BY <1>1, CollectedStep
<1>3. ASSUME NEW d \in Delivery, Collected(r)' = {d}
      PROVE  /\ s = result'[d].status
             /\ writing'[d] = {}
             /\ \A f \in File : files'[r][f] = d
  <2>1. Collected(r) = {d}  BY <1>1, <1>3, CollectedStep
  <2>2. ~Collect(d)  BY <2>1 DEF Collect, Progress, Collected
  <2>3. s = result[d].status /\ writing[d] = {} /\ \A f \in File : files[r][f] = d
    BY <2>1 DEF Settled
  <2>4. result'[d] = result[d] /\ writing'[d] = {}  BY <2>2, <2>3, ResponseOnce
  <2>5. \A f \in File : files'[r][f] = d
    BY <1>3, <2>2, <2>3, WriterIsCollected
  <2> QED BY <2>3, <2>4, <2>5
<1> QED BY <1>2, <1>3

\* An attempt that is storing began to with Collect, and a file it no longer has
\* to write is one it has just written.
LEMMA StoringStep ==
  ASSUME ExecType, Progress, [Next]_execVars, NEW d \in Delivery, attempt'[d] = "storing"
  PROVE  \/ Collect(d)
         \/ /\ attempt[d] = "storing"
            /\ \A f \in writing[d] : f \in writing'[d] \/ WriteFile(d, f)
<1> DEFINE Goal == \/ Collect(d)
                   \/ /\ attempt[d] = "storing"
                      /\ \A f \in writing[d] : f \in writing'[d] \/ WriteFile(d, f)
<1>1. ASSUME NEW e \in Delivery, Collect(e) PROVE Goal
  BY <1>1 DEF ExecType, Collect, Goto
<1>2. ASSUME NEW e \in Delivery, NEW f \in File, WriteFile(e, f) PROVE Goal
  BY <1>2 DEF ExecType, WriteFile
<1>3. ASSUME NEW e \in Delivery,
             \/ Enter(e) \/ Run(e) \/ Fail(e) \/ GiveUp(e) \/ Publish(e) \/ Finish(e)
             \/ \E r \in Request : Take(e, r)
      PROVE  attempt[d] = "storing" /\ writing' = writing
  BY <1>3 DEF ExecType, Enter, Run, Fail, GiveUp, Publish, Finish, Take, Goto
<1>4. ASSUME \/ \E r \in Request : Submit(r) \/ Insert(r) \/ Discard(r) \/ Redeliver(r)
             \/ \E e \in Delivery, f \in File : CreateFile(e, f)
             \/ UNCHANGED execVars
      PROVE  attempt[d] = "storing" /\ writing' = writing
  BY <1>4 DEF Submit, Insert, Discard, Redeliver, CreateFile, execVars
<1>5. CASE Crash  BY <1>5 DEF Crash
<1> QED BY <1>1, <1>2, <1>3, <1>4, <1>5 DEF Next, Handle, Disturb

\* A store that works keeps what the only attempt with a response has written.
LEMMA FilesKeptStep ==
  ASSUME ExecType, Progress, FilesKept, [Next]_execVars, "files" \notin Faults
  PROVE  FilesKept'
<1> SUFFICES ASSUME NEW d \in Delivery, NEW f \in File,
                    attempt'[d] = "storing", f \notin writing'[d],
                    Collected(reqOf[d])' = {d}
             PROVE  files'[reqOf'[d]][f] = d
  BY DEF FilesKept
<1>1. CASE Collect(d)
  <2>1. reqOf' = reqOf /\ reqOf[d] \in Request  BY <1>1 DEF Collect, Progress
  <2>2. PICK w \in SUBSET File : Written(d, w) /\ writing' = [writing EXCEPT ![d] = File \ w]
    BY <1>1 DEF Collect
  <2>3. f \in w  BY <2>2 DEF ExecType
  <2> QED BY <2>1, <2>2, <2>3, WrittenEffect
<1>2. CASE attempt[d] = "storing" /\ ~Collect(d)
  <2>1. reqOf[d] \in Request /\ result[d] # None /\ reqOf'[d] = reqOf[d]
    BY <1>2, RequestKept DEF Progress
  <2> DEFINE r == reqOf[d]
  <2>2. d \in Collected(r) /\ Collected(r) \subseteq Delivery  BY <2>1 DEF Collected
  <2>3. Collected(reqOf[d])' = {e \in Delivery : reqOf'[e] = reqOf'[d] /\ result'[e] # None}
    BY DEF Collected
  <2>4. \A e \in Delivery : reqOf'[e] = r /\ result'[e] # None => e = d  BY <2>1, <2>3
  <2>5. \A e \in Collected(r) : e = d
    BY <2>1, <2>2, <2>4, CollectedStep DEF Collected
  <2>6. CASE f \in writing[d]
    <3>1. WriteFile(d, f)  BY <1>2, <2>6, StoringStep
    <3> QED BY <2>1, <3>1, WrittenEffect DEF WriteFile
  <2>7. CASE f \notin writing[d]
    <3>1. Collected(r) = {d}  BY <2>2, <2>5
    <3>2. files[r][f] = d  BY <1>2, <2>7, <3>1 DEF FilesKept
    <3>3. ASSUME files'[r][f] # files[r][f] PROVE FALSE
      <4>1. PICK e \in Delivery : /\ reqOf[e] = r /\ e \in Collected(r)'
                                  /\ Collect(e) \/ f \in writing[e]
        BY <2>1, <3>3, WriterIsCollected
      <4>2. e \in Collected(r) \/ Collect(e)  BY <2>1, <4>1, CollectedStep
      <4>3. CASE Collect(e)
        <5>1. reqOf' = reqOf /\ result'[e] # None
          <6>1. None \notin Response  BY ApiAssumption
          <6> QED BY <4>3, <6>1 DEF Collect, Result, ExecType
        <5> QED BY <1>2, <2>4, <4>1, <4>3, <5>1
      <4>4. CASE e \in Collected(r) /\ ~Collect(e)  BY <2>5, <2>7, <4>1, <4>4
      <4> QED BY <4>2, <4>3, <4>4
    <3> QED BY <2>1, <3>2, <3>3
  <2> QED BY <2>6, <2>7
<1> QED BY <1>1, <1>2, StoringStep

\* A row is settled when a handler publishes its response, because its files
\* are written by then, and no other update gives a row a status of the runner.
LEMMA RowsSettledStep ==
  ASSUME ExecType, Progress, FilesKept, RowsSettled, [Next]_execVars
  PROVE  RowsSettled'
<1> SUFFICES ASSUME NEW r \in Request, record'[r] # None
             PROVE  Settled(r, record[r].status)'
  BY DEF RowsSettled
<1>1. CASE record'[r] = record[r]
  <2>1. Settled(r, record[r].status)  BY <1>1 DEF RowsSettled
  <2> DEFINE s == record[r].status
  <2>2. PICK t : t = s  OBVIOUS
  <2>3. Settled(r, t)'  BY <2>1, <2>2, SettledStep
  <2> QED BY <1>1, <2>2, <2>3 DEF Settled
<1>2. ASSUME record'[r].status \notin RunnerStatus PROVE Settled(r, record[r].status)'
  BY <1>2 DEF Settled
<1>3. {"NotRan", "Created", "Running", "NonDeterministicError"} \cap RunnerStatus = {}
  BY ApiAssumption
<1>4. ASSUME NEW q \in Request, Insert(q) PROVE Settled(r, record[r].status)'
  <2>1. record'[r] = record[r] \/ record'[r] = NewRow  BY <1>4 DEF ExecType, Insert
  <2> QED BY <1>1, <1>2, <1>3, <2>1 DEF NewRow
<1>5. ASSUME NEW d \in Delivery,
             Run(d) \/ Fail(d) \/ \E q \in Request : Take(d, q)
      PROVE  Settled(r, record[r].status)'
  <2>1. PICK q \in Request, s \in {"Created", "Running", "NonDeterministicError"} :
          SetStatus(q, s)
    BY <1>5 DEF Run, Fail, Take, Progress
  <2>2. record'[r] = record[r] \/ record'[r].status = s  BY <2>1, StatusRow
  <2> QED BY <1>1, <1>2, <1>3, <2>2
<1>6. ASSUME NEW d \in Delivery, Publish(d), record'[r] # record[r]
      PROVE  Settled(r, record[r].status)'
  <2>1. /\ attempt[d] = "storing" /\ writing[d] = {} /\ reqOf[d] \in Request
        /\ result[d] \in Response /\ result[d] # None
        /\ UNCHANGED <<reqOf, result, writing, files>>
    BY <1>6 DEF Publish, Progress, ExecType
  <2>2. reqOf[d] = r /\ record'[r].status = result[d].status
    BY <1>6, <2>1, ResultRow DEF Publish
  <2>3. d \in Collected(r)  BY <2>1, <2>2 DEF Collected
  <2>4. Collected(r)' = Collected(r)  BY <2>1 DEF Collected
  <2>5. ASSUME Collected(r) = {d} PROVE \A f \in File : files[r][f] = d
    BY <2>1, <2>2, <2>5 DEF FilesKept
  <2> QED BY <2>1, <2>2, <2>3, <2>4, <2>5 DEF Settled
<1>7. ASSUME \/ \E q \in Request : Submit(q) \/ Discard(q) \/ Redeliver(q)
             \/ \E e \in Delivery : \/ Enter(e) \/ GiveUp(e) \/ Collect(e) \/ Finish(e)
                                    \/ \E f \in File : CreateFile(e, f) \/ WriteFile(e, f)
             \/ Crash \/ UNCHANGED execVars
      PROVE  record' = record
  BY <1>7 DEF Submit, Discard, Redeliver, Enter, GiveUp, Collect, Finish, CreateFile, WriteFile,
              Crash, execVars
<1> QED BY <1>1, <1>4, <1>5, <1>6, <1>7 DEF Next, Handle, Disturb

\* The invariant of Execution is inductive.
LEMMA ExecInvStep ==
  ASSUME ExecInv, [Next]_execVars
  PROVE  ExecInv'
BY ProgressStep, FilesKeptStep, RowsSettledStep DEF ExecInv

-----------------------------------------------------------------------------
(* The server *)

\* The server changes what it shares with the loader only by submitting and
\* inserting.
LEMMA ServerSteps ==
  ASSUME [ApiNext]_vars
  PROVE  [Next]_execVars
<1>1. ASSUME NEW r \in Request, CreateStep(r) PROVE [Next]_execVars
  BY <1>1 DEF CreateStep, WriteSource, SubmitMessage, SubmitFails, InsertRow, InsertFails, Next
<1>2. ASSUME NEW r \in Request, NEW d \in Delivery, LoaderTakes(d, r) PROVE Next
  BY <1>2 DEF LoaderTakes, Next
<1>3. ASSUME NEW c \in Call, GetRowFails(c) \/ ReadFile(c) \/ \E r \in Request : GetRow(c, r)
      PROVE  UNCHANGED execVars
  BY <1>3 DEF GetRowFails, ReadFile, GetRow, ReadStep
<1>4. ASSUME NEW d \in Delivery, LoaderHandles(d) PROVE Next  BY <1>4 DEF LoaderHandles, Next
<1>5. CASE QueueDisturbs  BY <1>5 DEF QueueDisturbs, Next
<1>6. CASE UNCHANGED vars  BY <1>6 DEF vars
<1>7. ASSUME NEW r \in Request, LoaderDiscards(r) PROVE Next
  BY <1>7 DEF LoaderDiscards, Next
<1> QED BY <1>1, <1>2, <1>3, <1>4, <1>5, <1>6, <1>7 DEF ApiNext

\* The loader and the queue neither submit a message nor insert or delete a
\* row.
LEMMA LoaderKeeps ==
  ASSUME ExecType, Progress,
         \/ \E d \in Delivery : Handle(d) \/ \E r \in Request : Take(d, r)
         \/ Disturb \/ \E r \in Request : Discard(r),
         NEW q \in Request
  PROVE  (msg'[q] = "none" <=> msg[q] = "none") /\ (record'[q] = None <=> record[q] = None)
<1> DEFINE Goal == (msg'[q] = "none" <=> msg[q] = "none")
                     /\ (record'[q] = None <=> record[q] = None)
<1>1. ASSUME NEW d \in Delivery, NEW r \in Request, Take(d, r) PROVE Goal
  <2>1. record'[q] = None <=> record[q] = None  BY <1>1, StatusRow DEF Take
  <2>2. msg'[q] = "none" <=> msg[q] = "none"  BY <1>1 DEF Take, ExecType
  <2> QED BY <2>1, <2>2
<1>2. ASSUME NEW d \in Delivery, Run(d) \/ Fail(d) PROVE Goal
  <2>1. reqOf[d] \in Request  BY <1>2 DEF Run, Fail, Progress
  <2>2. record'[q] = None <=> record[q] = None  BY <1>2, <2>1, StatusRow DEF Run, Fail
  <2>3. msg'[q] = "none" <=> msg[q] = "none"
    BY <1>2, <2>1 DEF Run, Fail, Answer, ExecType
  <2> QED BY <2>2, <2>3
<1>3. ASSUME NEW d \in Delivery, GiveUp(d) \/ Finish(d) \/ Collect(d) PROVE Goal
  <2>1. reqOf[d] \in Request  BY <1>3 DEF GiveUp, Finish, Collect, Progress
  <2>2. msg'[q] = "none" <=> msg[q] = "none"
    BY <1>3, <2>1 DEF GiveUp, Finish, Collect, Answer, ExecType
  <2>3. record' = record  BY <1>3 DEF GiveUp, Finish, Collect
  <2> QED BY <2>2, <2>3
<1>4. ASSUME NEW d \in Delivery, Publish(d) PROVE Goal
  <2>1. reqOf[d] \in Request /\ result[d] \in Response
    BY <1>4 DEF Publish, Progress, ExecType
  <2>2. record'[q] = None <=> record[q] = None  BY <1>4, <2>1, ResultRow DEF Publish
  <2> QED BY <1>4, <2>2 DEF Publish
<1>5. ASSUME NEW d \in Delivery, NEW f \in File, CreateFile(d, f) \/ WriteFile(d, f) PROVE Goal
  BY <1>5 DEF CreateFile, WriteFile
<1>6. CASE Crash  BY <1>6 DEF Crash, ExecType
<1>7. ASSUME NEW r \in Request, Redeliver(r) PROVE Goal  BY <1>7 DEF Redeliver, ExecType
<1>8. ASSUME NEW r \in Request, Discard(r) PROVE Goal  BY <1>8 DEF Discard, ExecType
<1>9. ASSUME NEW d \in Delivery, Enter(d) PROVE Goal  BY <1>9 DEF Enter
<1> QED BY <1>1, <1>2, <1>3, <1>4, <1>5, <1>6, <1>7, <1>8, <1>9 DEF Handle, Disturb

\* Only a delivery of the message begins an attempt.
LEMMA IdleKept ==
  ASSUME ExecType, Disturb \/ \E e \in Delivery : Handle(e),
         NEW d \in Delivery, attempt[d] = "idle"
  PROVE  attempt'[d] = "idle"
<1>1. ASSUME NEW e \in Delivery,
             Enter(e) \/ Run(e) \/ Fail(e) \/ GiveUp(e) \/ Collect(e) \/ Publish(e) \/ Finish(e)
      PROVE  attempt'[d] = "idle"
  BY <1>1 DEF Enter, Run, Fail, GiveUp, Collect, Publish, Finish, Goto, ExecType
<1>2. ASSUME NEW e \in Delivery, NEW f \in File, CreateFile(e, f) \/ WriteFile(e, f)
      PROVE  attempt'[d] = "idle"
  BY <1>2 DEF CreateFile, WriteFile
<1>3. CASE Disturb  BY <1>3 DEF Disturb, Crash, Redeliver
<1> QED BY <1>1, <1>2, <1>3 DEF Handle

\* The calls of CreateCompileRequest come in their order, and a row is inserted
\* only for a message that was submitted.
LEMMA SubmittedStep ==
  ASSUME ExecType, Progress, ApiType, Submitted, RowHasMessage, [ApiNext]_vars
  PROVE  Submitted' /\ RowHasMessage'
<1> USE DEF Submitted, RowHasMessage
<1>1. NewRow # None
  <2>1. NewRow \in Row  BY DEF NewRow, Row
  <2> QED BY <2>1, ApiAssumption
<1>2. ASSUME NEW r \in Request, WriteSource(r) PROVE Submitted' /\ RowHasMessage'
  BY <1>2 DEF WriteSource, Step, execVars, ApiType
<1>3. ASSUME NEW r \in Request, SubmitMessage(r) \/ SubmitFails(r)
      PROVE  Submitted' /\ RowHasMessage'
  BY <1>3 DEF SubmitMessage, SubmitFails, Submit, Step, execVars, ApiType, ExecType
<1>4. ASSUME NEW r \in Request, InsertRow(r) \/ InsertFails(r)
      PROVE  Submitted' /\ RowHasMessage'
  BY <1>1, <1>4 DEF InsertRow, InsertFails, Insert, Step, execVars, ApiType, ExecType
<1>5. ASSUME \/ \E d \in Delivery : LoaderHandles(d) \/ \E r \in Request : LoaderTakes(d, r)
             \/ QueueDisturbs \/ \E r \in Request : LoaderDiscards(r)
      PROVE  Submitted' /\ RowHasMessage'
  BY <1>5, LoaderKeeps
     DEF LoaderHandles, LoaderTakes, QueueDisturbs, LoaderDiscards, serverVars
<1>6. ASSUME \/ \E c \in Call : \/ GetRowFails(c) \/ ReadFile(c)
                                \/ \E r \in Request : GetRow(c, r)
             \/ UNCHANGED vars
      PROVE  Submitted' /\ RowHasMessage'
  <2>1. UNCHANGED <<create, msg, record>>
    BY <1>6 DEF GetRowFails, ReadFile, GetRow, ReadStep, execVars, serverVars, vars
  <2> QED BY <2>1
<1> QED BY <1>2, <1>3, <1>4, <1>5, <1>6 DEF ApiNext, CreateStep

\* The source is in the store before the message can be delivered.
LEMMA StoredStep ==
  ASSUME ExecType, Progress, ApiType, Submitted, Stored, "files" \notin Faults, [ApiNext]_vars
  PROVE  Stored'
<1> USE DEF Stored, SourceLoaded
<1>1. ASSUME NEW r \in Request, WriteSource(r) PROVE Stored'
  BY <1>1 DEF WriteSource, Step, execVars, ApiType
<1>2. ASSUME NEW r \in Request,
             SubmitMessage(r) \/ SubmitFails(r) \/ InsertRow(r) \/ InsertFails(r)
      PROVE  Stored'
  <2>1. /\ create[r] # "idle" /\ \A q \in Request : q # r => create'[q] = create[q]
        /\ UNCHANGED <<attempt, loaded, source>>
    BY <1>2 DEF SubmitMessage, SubmitFails, InsertRow, InsertFails, Submit, Insert, Step,
                execVars, ApiType
  <2> QED BY <2>1
<1>3. ASSUME NEW d \in Delivery, NEW r \in Request, LoaderTakes(d, r) PROVE Stored'
  <2>1. msg[r] = "ready" /\ attempt' = [attempt EXCEPT ![d] = "waiting"]
    BY <1>3 DEF LoaderTakes, Take, Goto
  <2>2. source[r] = "stored"  BY <2>1 DEF Submitted
  <2> QED BY <1>3, <2>1, <2>2 DEF LoaderTakes, serverVars, ApiType, ExecType
<1>4. ASSUME \/ \E d \in Delivery : LoaderHandles(d)
             \/ QueueDisturbs \/ \E r \in Request : LoaderDiscards(r)
      PROVE  Stored'
  <2>1. \A d \in Delivery : attempt[d] = "idle" => attempt'[d] = "idle"
    BY <1>4, IdleKept DEF LoaderHandles, QueueDisturbs, LoaderDiscards, Discard
  <2>2. UNCHANGED <<loaded, source, create>>
    BY <1>4 DEF LoaderHandles, QueueDisturbs, LoaderDiscards, serverVars
  <2> QED BY <2>1, <2>2
<1>5. ASSUME \/ \E c \in Call : \/ GetRowFails(c) \/ ReadFile(c)
                                \/ \E r \in Request : GetRow(c, r)
             \/ UNCHANGED vars
      PROVE  Stored'
  <2>1. UNCHANGED <<create, source, loaded, attempt>>
    BY <1>5 DEF GetRowFails, ReadFile, GetRow, ReadStep, execVars, serverVars, vars
  <2> QED BY <2>1
<1> QED BY <1>1, <1>2, <1>3, <1>4, <1>5 DEF ApiNext, CreateStep

-----------------------------------------------------------------------------
(* The reader *)

\* Each step of GetCompileResultRequest adds the file it reads.
LEMMA ReadOrder ==
  ASSUME NEW f \in Output
  PROVE  After[f] \in Served /\ Done(After[f]) = Done(f) \cup {f}
<1>1. CASE f = "output"  BY <1>1 DEF After, Served, Done, Output
<1>2. CASE f = "outputErr"  BY <1>2 DEF After, Served, Done, Output
<1>3. CASE f = "compilerOutput"  BY <1>3 DEF After, Served, Done, Output
<1> QED BY <1>1, <1>2, <1>3 DEF Output

\* What GetCompileResultRequest puts together has the shape of a response, and
\* the calls of both services stay within their steps.
LEMMA ApiTypeStep ==
  ASSUME ExecType, ApiType, [ApiNext]_vars
  PROVE  ApiType'
<1> USE DEF ApiType
<1>1. ASSUME NEW r \in Request, CreateStep(r) PROVE ApiType'
  BY <1>1 DEF CreateStep, WriteSource, SubmitMessage, SubmitFails, InsertRow, InsertFails, Step,
              readerVars
<1>2. ASSUME NEW d \in Delivery, NEW r \in Request, LoaderTakes(d, r) PROVE ApiType'
  BY <1>2 DEF LoaderTakes, serverVars, readerVars
<1>3. ASSUME NEW c \in Call, NEW r \in Request, GetRow(c, r) PROVE ApiType'
  <2> DEFINE new == [req |-> r, row |-> record[r], file |-> [f \in Output |-> None]]
  <2>1. record[r] # None => new \in View  BY DEF View, ExecType
  <2>2. "error" \notin Served /\ "output" \in Output  BY DEF Served, Output
  <2>3. \/ record[r] = None /\ ReadStep(c, "error", None)
        \/ record[r] # None /\ ReadStep(c, "output", new)
    BY <1>3 DEF GetRow
  <2> HIDE DEF new
  <2> QED BY <2>1, <2>2, <2>3 DEF ReadStep, serverVars
<1>4. ASSUME NEW c \in Call, GetRowFails(c) PROVE ApiType'
  <2>1. "panic" \notin Served  BY DEF Served, Output
  <2> QED BY <1>4, <2>1 DEF GetRowFails, ReadStep, serverVars
<1>5. ASSUME NEW c \in Call, ReadFile(c) PROVE ApiType'
  <2>1. read[c] \in Output /\ view[c] \in View  BY <1>5 DEF ReadFile, Served
  <2>2. PICK data \in GetFile(view[c].req, read[c]) :
          ReadStep(c, After[read[c]], [view[c] EXCEPT !.file[read[c]] = data])
    BY <1>5 DEF ReadFile
  <2>3. data \in Delivery \cup {Cut, None}  BY <2>1 DEF GetFile, ExecType, View
  <2>4. [view[c] EXCEPT !.file[read[c]] = data] \in View  BY <2>1, <2>3 DEF View
  <2>5. After[read[c]] \in Served  BY <2>1, ReadOrder
  <2> QED BY <2>2, <2>4, <2>5 DEF ReadStep, serverVars, Served
<1>6. ASSUME \/ \E d \in Delivery : LoaderHandles(d)
             \/ \E r \in Request : LoaderDiscards(r)
             \/ QueueDisturbs \/ UNCHANGED vars
      PROVE  ApiType'
  <2>1. UNCHANGED <<create, source, loaded, read, view>>
    BY <1>6 DEF QueueDisturbs, LoaderHandles, LoaderDiscards, vars, serverVars, readerVars
  <2> QED BY <2>1
<1> QED BY <1>1, <1>2, <1>3, <1>4, <1>5, <1>6 DEF ApiNext

\* What a reader holds stays true of one attempt, whatever the loader does
\* between its calls.
LEMMA ReadingStep ==
  ASSUME ExecInv, ApiType, Reading, "files" \notin Faults, [ApiNext]_vars
  PROVE  Reading'
<1>1. ExecType /\ Progress /\ RowsSettled /\ [Next]_execVars  BY ServerSteps DEF ExecInv
<1> DEFINE Holds(v, p) ==
             /\ Settled(v.req, v.row.status)
             /\ v.row.status \in RunnerStatus =>
                  \A d \in Delivery : Collected(v.req) = {d} =>
                    \A f \in File \cap Done(p) : v.file[f] = d
<1>2. ASSUME NEW v \in View, NEW p, Holds(v, p) PROVE Holds(v, p)'
  <2>1. v.req \in Request  BY DEF View
  <2>2. PICK r, s : r \in Request /\ r = v.req /\ s = v.row.status  BY <2>1
  <2>3. Settled(r, s) /\ Settled(r, s)'  BY <1>1, <1>2, <2>2, SettledStep
  <2>4. ASSUME NEW d \in Delivery, Collected(r)' = {d}, s \in RunnerStatus
        PROVE  Collected(r) = {d}
    <3>1. Collected(r) # {} /\ Collected(r) \subseteq Delivery
      BY <2>3, <2>4 DEF Settled, Collected
    <3> QED BY <1>1, <2>2, <2>4, <3>1, CollectedStep
  <2> QED BY <1>2, <2>2, <2>3, <2>4
<1>3. \A c \in Call : read[c] \in Served => Holds(view[c], read[c])  BY DEF Reading
<1> SUFFICES ASSUME NEW c \in Call, read'[c] \in Served
             PROVE  Holds(view[c], read[c])'
  BY DEF Reading
<1>4. view'[c] \in View  BY <1>1, ApiTypeStep DEF ApiType
<1>5. PICK v, p : v \in View /\ v = view'[c] /\ p = read'[c]  BY <1>4
<1>6. SUFFICES Holds(v, p)
  <2>1. Holds(v, p)'  BY <1>2, <1>5, <1>6
  <2> QED BY <1>5, <2>1 DEF Settled, Collected, Done
<1>7. CASE view'[c] = view[c] /\ read'[c] = read[c]
  BY <1>3, <1>5, <1>7
<1>8. ASSUME NEW r \in Request, GetRow(c, r) PROVE Holds(v, p)
  <2>1. /\ record[r] # None /\ p = "output"
        /\ v = [req |-> r, row |-> record[r], file |-> [f \in Output |-> None]]
    <3>1. "error" \notin Served  BY DEF Served, Output
    <3> QED BY <1>5, <1>8, <3>1 DEF GetRow, ReadStep, ApiType
  <2>2. v.req = r /\ v.row.status = record[r].status  BY <2>1
  <2>3. Settled(r, record[r].status)  BY <1>1, <2>1 DEF RowsSettled
  <2>4. Done(p) = {}  BY <2>1 DEF Done
  <2> QED BY <2>2, <2>3, <2>4
<1>9. CASE ReadFile(c)
  <2>1. read[c] \in Output /\ read[c] \in Served /\ view[c] \in View
    BY <1>9 DEF ReadFile, Served, ApiType
  <2>2. PICK data \in GetFile(view[c].req, read[c]) :
          ReadStep(c, After[read[c]], [view[c] EXCEPT !.file[read[c]] = data])
    BY <1>9 DEF ReadFile
  <2>3. v = [view[c] EXCEPT !.file[read[c]] = data] /\ p = After[read[c]]
    BY <1>5, <2>2 DEF ReadStep, ApiType
  <2>4. /\ v.req = view[c].req /\ v.row = view[c].row
        /\ \A f \in Output : v.file[f] = IF f = read[c] THEN data ELSE view[c].file[f]
    BY <2>1, <2>3 DEF View
  <2>5. Holds(view[c], read[c])  BY <1>3, <2>1
  <2>6. Done(p) = Done(read[c]) \cup {read[c]}  BY <2>1, <2>3, ReadOrder
  <2>7. read[c] \in File => data = files[view[c].req][read[c]]
    BY <2>2 DEF GetFile
  <2>8. Settled(v.req, v.row.status)  BY <2>4, <2>5
  <2>9. ASSUME v.row.status \in RunnerStatus, NEW d \in Delivery, Collected(v.req) = {d},
               NEW f \in File \cap Done(p)
        PROVE  v.file[f] = d
    <3>1. files[v.req][f] = d  BY <2>8, <2>9 DEF Settled
    <3>2. f \in Output  BY <2>9, ApiAssumption
    <3>3. CASE f = read[c]  BY <2>4, <2>7, <3>1, <3>2, <3>3
    <3>4. CASE f # read[c]  BY <2>4, <2>5, <2>6, <2>9, <3>2, <3>4
    <3> QED BY <3>3, <3>4
  <2> QED BY <2>8, <2>9
<1>10. ASSUME ~ReadFile(c), \A r \in Request : ~GetRow(c, r)
       PROVE  view'[c] = view[c] /\ read'[c] = read[c]
  <2>1. ~GetRowFails(c)
    <3>1. "panic" \notin Served  BY DEF Served, Output
    <3> QED BY <3>1 DEF GetRowFails, ReadStep, ApiType
  <2>2. ASSUME NEW e \in Call, e # c,
               GetRowFails(e) \/ ReadFile(e) \/ \E r \in Request : GetRow(e, r)
        PROVE  view'[c] = view[c] /\ read'[c] = read[c]
    BY <2>2 DEF GetRowFails, ReadFile, GetRow, ReadStep, ApiType
  <2>3. ASSUME \/ \E r \in Request : \/ CreateStep(r) \/ LoaderDiscards(r)
                                     \/ \E d \in Delivery : LoaderTakes(d, r)
               \/ \E d \in Delivery : LoaderHandles(d)
               \/ QueueDisturbs \/ UNCHANGED vars
        PROVE  view'[c] = view[c] /\ read'[c] = read[c]
    BY <2>3 DEF CreateStep, WriteSource, SubmitMessage, SubmitFails, InsertRow, InsertFails,
                LoaderTakes, LoaderHandles, LoaderDiscards, QueueDisturbs, vars, readerVars
  <2> QED BY <1>10, <2>1, <2>2, <2>3 DEF ApiNext
<1> QED BY <1>7, <1>8, <1>9, <1>10

-----------------------------------------------------------------------------
(* What a client can rely on *)

\* The invariant of the API is inductive.
THEOREM ApiInvariance == ApiSpec => []ApiInv
<1>1. ApiInit => ApiInv
  <2> SUFFICES ASSUME ApiInit PROVE ApiInv  OBVIOUS
  <2>1. ExecType /\ Progress
    BY DEF ApiInit, Init, ExecType, Progress
  <2>2. FilesKept /\ RowsSettled
    BY DEF ApiInit, Init, FilesKept, RowsSettled
  <2>3. ApiType
    BY DEF ApiInit, ApiType, Served, Output
  <2>4. Submitted /\ RowHasMessage  BY DEF ApiInit, Submitted, RowHasMessage
  <2>5. Stored  BY DEF ApiInit, Init, Stored, SourceLoaded
  <2>6. Reading  BY DEF ApiInit, Reading, Served, Output
  <2> QED BY <2>1, <2>2, <2>3, <2>4, <2>5, <2>6 DEF ApiInv, ExecInv
<1>2. ApiInv /\ [ApiNext]_vars => ApiInv'
  <2> SUFFICES ASSUME ApiInv, [ApiNext]_vars PROVE ApiInv'  OBVIOUS
  <2>1. ExecInv'  BY ServerSteps, ExecInvStep DEF ApiInv
  <2>2. ApiType' /\ Submitted' /\ RowHasMessage'
    BY ApiTypeStep, SubmittedStep DEF ApiInv, ExecInv
  <2>3. "files" \notin Faults => Stored' /\ Reading'
    BY StoredStep, ReadingStep DEF ApiInv, ExecInv
  <2> QED BY <2>1, <2>2, <2>3 DEF ApiInv
<1> QED BY <1>1, <1>2, PTL DEF ApiSpec

\* A row is inserted only after its message was submitted, whatever of the
\* queue and the repository fails (server.go:97-119): a client that finds a row
\* does not wait for something nobody will do.
THEOREM RowsAreQueued == ApiSpec => []RowHasMessage
<1>1. ApiInv => RowHasMessage  BY DEF ApiInv
<1> QED BY <1>1, ApiInvariance, PTL

\* An id that CreateCompileRequest has given out has its row and its message.
THEOREM IdsAreUsable == ApiSpec => []IdIsUsable
<1>1. ApiInv => IdIsUsable  BY DEF ApiInv, Submitted, IdIsUsable
<1> QED BY <1>1, ApiInvariance, PTL

\* If the file store does not fail, every handler of every delivery, also one
\* after a crash or a redelivery, has loaded the source of the client although
\* it ignores the error of GetFile (queue.go:100).
THEOREM SourceIsLoaded ==
  ASSUME "files" \notin Faults
  PROVE  ApiSpec => []SourceLoaded
<1>1. ApiInv => SourceLoaded  BY DEF ApiInv, Stored
<1> QED BY <1>1, ApiInvariance, PTL

\* If the file store does not fail, a response of GetCompileResultRequest with
\* a result of the runner has the status and the complete files of one attempt,
\* although row and files are read one after the other while the loader writes
\* them (server.go:43-77), provided only one attempt ever had a response.
THEOREM ReadsAreConsistent ==
  ASSUME "files" \notin Faults
  PROVE  ApiSpec => []ReadConsistent
<1>1. ApiInv => ReadConsistent
  <2> SUFFICES ASSUME ApiInv, NEW c \in Call, read[c] = "done",
                      view[c].row.status \in RunnerStatus,
                      Cardinality(Collected(view[c].req)) = 1
               PROVE  \E d \in Collected(view[c].req) :
                        /\ view[c].row.status = result[d].status
                        /\ \A f \in File : view[c].file[f] = d
    BY DEF ReadConsistent
  <2> DEFINE C == Collected(view[c].req)
  <2>1. C \subseteq Delivery  BY DEF Collected
  <2>2. IsFiniteSet(C)  BY <2>1, ApiAssumption, FS_Subset
  <2>3. PICK d : C = {d}  BY <2>2, FS_Singleton
  <2>4. read[c] \in Served /\ Done(read[c]) = Output  BY DEF Served, Done
  <2>5. File \cap Done(read[c]) = File  BY <2>4, ApiAssumption
  <2> QED BY <2>1, <2>3, <2>4, <2>5 DEF ApiInv, Reading, Settled
<1> QED BY <1>1, ApiInvariance, PTL
=============================================================================
