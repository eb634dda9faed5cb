---------------------------- MODULE LoaderProofs ----------------------------
(***************************************************************************)
(* Proofs about Loader, for every set of requests and deliveries, every    *)
(* capacity of the limiter, every set of faults and any number of crashes. *)
(*                                                                         *)
(* IInv is inductive; its parts are proved one by one (TypeStep ...        *)
(* VerdictStep), each with one step per action of Next.  SlotAccounting    *)
(* and ActiveBound only need TypeOK beside themselves.                     *)
(***************************************************************************)
EXTENDS Loader, TLAPS, FiniteSetTheorems

-----------------------------------------------------------------------------
(* Facts about the operators *)

\* Both updates of a row keep the rows well typed, whether the row is there or
\* not.
LEMMA RowType ==
  ASSUME TypeOK, NEW r \in Request
  PROVE  /\ \A s : s \in ContainerStatus \cup {"NonDeterministicError"} /\ SetStatus(r, s)
                  => record' \in [Request -> Row \cup {None}]
         /\ \A res \in Response : SetResult(r, res)
                  => record' \in [Request -> Row \cup {None}]
<1>1. record \in [Request -> Row \cup {None}]  BY DEF TypeOK
<1>2. ASSUME NEW s, s \in ContainerStatus \cup {"NonDeterministicError"},
             SetStatus(r, s)
      PROVE  record' \in [Request -> Row \cup {None}]
  <2>1. record[r] # None => [record[r] EXCEPT !.status = s] \in Row
    BY <1>1, <1>2 DEF Row
  <2> QED BY <1>1, <1>2, <2>1 DEF SetStatus, Change
<1>3. ASSUME NEW res \in Response, SetResult(r, res)
      PROVE  record' \in [Request -> Row \cup {None}]
  <2>1. record[r] # None =>
          [res EXCEPT !.measured = IF @ = None THEN record[r].measured ELSE @] \in Row
    BY <1>1 DEF Row, Response, ContainerStatus
  <2> QED BY <1>1, <1>3, <2>1 DEF SetResult, Change
<1> QED BY <1>2, <1>3

\* The events of updateStatusFromDockerEvent, and the statuses they set: none
\* of them is a status of the runner.
LEMMA EventNames ==
  /\ Event = {"create", "start", "kill", "die", "destroy"}
  /\ \A e \in Event \ {"destroy"} :
       StatusOf[e] \in {"Created", "Running", "Killing", "Killed"}
BY DEF Event, StatusOf

\* Publishing an event keeps the streams well typed.
LEMMA EmitType ==
  ASSUME TypeOK, NEW d \in Delivery, NEW e \in Event, Emit(d, e)
  PROVE  events' \in [Delivery -> Seq(Event)]
<1>1. Append(events[d], e) \in Seq(Event)  BY DEF TypeOK
<1> QED BY <1>1 DEF TypeOK, Emit

\* Container.GetResponse returns a Response in every state of the container.
LEMMA ResponseType ==
  ASSUME TypeOK, NEW d \in Delivery
  PROVE  GetResponse(d) \in Response
<1>1. response[d] # None => /\ response[d].status \in RunnerStatus \cup {"NotRan"}
                            /\ response[d].by \in Delivery
  BY DEF TypeOK, Output
<1> QED BY <1>1 DEF GetResponse, Response, TestStatus

\* Taking an event from the stream keeps it well typed.
LEMMA TakeType ==
  ASSUME TypeOK, NEW d \in Delivery, NextEvent(d), Take(d)
  PROVE  events' \in [Delivery -> Seq(Event)] /\ Head(events[d]) \in Event
<1>1. Tail(events[d]) \in Seq(Event) /\ Head(events[d]) \in Event
  BY DEF TypeOK, NextEvent
<1> QED BY <1>1 DEF TypeOK, Take

\* Removing a directory, or failing to, keeps the directories well typed.
LEMMA RemoveAllType ==
  ASSUME TypeOK, NEW r \in Request, NEW using \in SUBSET Delivery, RemoveAll(r, using)
  PROVE  /\ mounted' \in SUBSET Delivery
         /\ dir' \in [Request -> {"none", "bare", "ready"}]
         /\ out' \in [Request -> Output \cup {None}]
<1>1. /\ dir \in [Request -> {"none", "bare", "ready"}]
      /\ out \in [Request -> Output \cup {None}]
  BY DEF TypeOK
<1> QED BY <1>1 DEF RemoveAll, Present

-----------------------------------------------------------------------------
(* The invariant is inductive *)

\* No step of the loader breaks the types.  A row is only filled from a
\* Response that exists, and a directory removed for a request that exists.
LEMMA TypeStep ==
  ASSUME TypeOK, Assigned, Phase, Next
  PROVE  TypeOK'
<1> USE LoaderAssumption DEF Goto, Answer, Push, Pop, Present, RunFails,
            IsRemoval, GetSandboxRunnerOutput, WriteFiles,
            nsqVars, managerVars, loopVars, containerVars, dockerVars,
            dirVars, storeVars,
            TypeOK, Assigned, Phase, PC, InHand, Returned, ContainerStatus,
            Output
<1>1. ASSUME NEW d \in Delivery, NEW r \in Request, Receive(d, r)
      PROVE  TypeOK'
  <2>1. record' \in [Request -> Row \cup {None}]
    BY <1>1, RowType DEF Receive
  <2> QED BY <1>1, <2>1 DEF Receive
<1>2. ASSUME NEW d \in Delivery, Acquire(d) PROVE TypeOK'
  BY <1>2 DEF Acquire
<1>3. ASSUME NEW d \in Delivery, Prepare(d) PROVE TypeOK'
  BY <1>3 DEF Prepare
<1>4. ASSUME NEW d \in Delivery, PrepareFails(d) PROVE TypeOK'
  BY <1>4, RemoveAllType DEF PrepareFails
<1>5. ASSUME NEW d \in Delivery, Create(d) PROVE TypeOK'
  BY <1>5, EventNames, EmitType DEF Create
<1>6. ASSUME NEW d \in Delivery, CreateFails(d) PROVE TypeOK'
  BY <1>6, RemoveAllType DEF CreateFails
<1>7. ASSUME NEW d \in Delivery, CreateReplyLost(d) PROVE TypeOK'
  BY <1>7, EventNames, EmitType, RemoveAllType DEF CreateReplyLost
<1>8. ASSUME NEW d \in Delivery, Start(d) PROVE TypeOK'
  BY <1>8, EventNames, EmitType DEF Start
<1>9. ASSUME NEW d \in Delivery, StartFails(d) PROVE TypeOK'
  <2>1. CASE UNCHANGED dockerVars  BY <1>9, <2>1, RemoveAllType DEF StartFails
  <2>2. CASE docker' = [docker EXCEPT ![d] = "removed"] /\ Emit(d, "destroy")
    BY <1>9, <2>2, EventNames, EmitType, RemoveAllType DEF StartFails
  <2> QED BY <1>9, <2>1, <2>2 DEF StartFails
<1>10. ASSUME NEW d \in Delivery, StartReplyLost(d) PROVE TypeOK'
  <2>1. reqOf[d] \in Request /\ RemoveAll(reqOf[d], mounted \cup {d})
    BY <1>10 DEF StartReplyLost
  <2>2. mounted \cup {d} \in SUBSET Delivery  OBVIOUS
  <2> QED BY <1>10, <2>1, <2>2, EventNames, EmitType, RemoveAllType DEF StartReplyLost
<1>11. ASSUME NEW d \in Delivery, Store(d) PROVE TypeOK'
  BY <1>11 DEF Store
<1>12. ASSUME NEW d \in Delivery, ReportRunning(d) PROVE TypeOK'
  <2>1. reqOf[d] \in Request  BY <1>12 DEF ReportRunning
  <2>2. record' \in [Request -> Row \cup {None}]
    BY <1>12, <2>1, RowType DEF ReportRunning
  <2> QED BY <1>12, <2>2 DEF ReportRunning
<1>13. ASSUME NEW d \in Delivery, ReportError(d) PROVE TypeOK'
  <2>1. reqOf[d] \in Request  BY <1>13 DEF ReportError
  <2>2. record' \in [Request -> Row \cup {None}]
    BY <1>13, <2>1, RowType DEF ReportError
  <2>3. msg' \in [Request -> {"ready", "inflight", "finished"}]
    BY <1>13, <2>1 DEF ReportError
  <2> QED BY <1>13, <2>2, <2>3 DEF ReportError
<1>14. ASSUME NEW d \in Delivery, Completed(d) PROVE TypeOK'
  BY <1>14 DEF Completed
<1>15. ASSUME NEW d \in Delivery, WaitTimeout(d) PROVE TypeOK'
  BY <1>15 DEF WaitTimeout
<1>16. ASSUME NEW d \in Delivery, Collect(d) PROVE TypeOK'
  <2>1. resp' \in [Delivery -> Response \cup {None}]
    BY <1>16, ResponseType DEF Collect
  <2>2. files \in [Request -> Delivery \cup {None}]  BY DEF TypeOK
  <2>3. files' = [files EXCEPT ![reqOf[d]] = d] \/ files' = files
    BY <1>16 DEF Collect
  <2>4. files' \in [Request -> Delivery \cup {None}]
    <3> HIDE DEF TypeOK, Assigned, Phase, WriteFiles
    <3> QED BY <2>2, <2>3
  <2> QED BY <1>16, <2>1, <2>4 DEF Collect
<1>17. ASSUME NEW d \in Delivery, Remove(d) PROVE TypeOK'
  BY <1>17 DEF Remove
<1>18. ASSUME NEW d \in Delivery, Publish(d) PROVE TypeOK'
  <2>1. reqOf[d] \in Request /\ resp[d] \in Response  BY <1>18 DEF Publish
  <2>2. record' \in [Request -> Row \cup {None}]
    BY <1>18, <2>1, RowType DEF Publish
  <2> QED BY <1>18, <2>2 DEF Publish
<1>19. ASSUME NEW d \in Delivery, Finish(d) PROVE TypeOK'
  BY <1>19 DEF Finish
<1>20. ASSUME NEW d \in Delivery, Exit(d) PROVE TypeOK'
  BY <1>20, EventNames, EmitType DEF Exit, RunnerFile
<1>21. ASSUME NEW d \in Delivery, AutoRemove(d) PROVE TypeOK'
  BY <1>21, EventNames, EmitType DEF AutoRemove
<1>22. ASSUME NEW d \in Delivery, Expire(d) PROVE TypeOK'
  BY <1>22 DEF Expire
<1>23. ASSUME NEW d \in Delivery, Redeliver(d) PROVE TypeOK'
  BY <1>23 DEF Redeliver
<1>24. ASSUME NEW d \in Delivery, Kill(d) PROVE TypeOK'
  BY <1>24, EventNames, EmitType DEF Kill
<1>25. ASSUME NEW d \in Delivery, DropEvent(d) PROVE TypeOK'
  BY <1>25, TakeType DEF DropEvent
<1>26. ASSUME NEW d \in Delivery, UpdateStatus(d) PROVE TypeOK'
  BY <1>26, EventNames, TakeType DEF UpdateStatus
<1>27. ASSUME NEW d \in Delivery, HandleRemoved(d) PROVE TypeOK'
  BY <1>27, TakeType DEF HandleRemoved
<1>28. CASE RemoveDir
  BY <1>28, RemoveAllType DEF RemoveDir
<1>29. CASE StreamFails
  BY <1>29, <<>> \in Seq(Event) DEF StreamFails
<1>30. CASE Stop
  BY <1>30, <<>> \in Seq(Event) DEF Stop
<1>31. CASE Restart
  BY <1>31 DEF Restart
<1>32. ASSUME NEW r \in Request, Insert(r) PROVE TypeOK'
  <2>1. NewRow \in Row  BY DEF NewRow, Row, TestStatus
  <2> QED BY <1>32, <2>1 DEF Insert
<1>33. ASSUME NEW r \in Request, Discard(r) PROVE TypeOK'
  BY <1>33 DEF Discard
<1> QED
  BY <1>1, <1>2, <1>3, <1>4, <1>5, <1>6, <1>7, <1>8, <1>9, <1>10, <1>11,
     <1>12, <1>13, <1>14, <1>15, <1>16, <1>17, <1>18, <1>19, <1>20, <1>21,
     <1>22, <1>23, <1>24, <1>25, <1>26, <1>27, <1>28, <1>29, <1>30, <1>31,
     <1>32, <1>33
     DEF Next, HandlerStep, DockerStep, LoopStep

\* No step makes a delivery without a request matter, or publishes a response
\* that was not collected.
LEMMA AssignedStep ==
  ASSUME TypeOK, Assigned, Phase, Next
  PROVE  Assigned'
<1> USE LoaderAssumption DEF Goto, Answer, Emit, Push, Pop, RemoveAll, Present, RunFails, Take,
            NextEvent, IsRemoval, GetSandboxRunnerOutput, WriteFiles,
            nsqVars, managerVars, loopVars, containerVars, dockerVars,
            dirVars, storeVars,
            TypeOK, Assigned, Phase, PC, InHand, Returned
<1>1. ASSUME NEW d \in Delivery, NEW r \in Request, Receive(d, r)
      PROVE  Assigned'
  BY <1>1 DEF Receive
<1>2. ASSUME NEW d \in Delivery, Acquire(d) PROVE Assigned'
  BY <1>2 DEF Acquire
<1>3. ASSUME NEW d \in Delivery, Prepare(d) PROVE Assigned'
  BY <1>3 DEF Prepare
<1>4. ASSUME NEW d \in Delivery, PrepareFails(d) PROVE Assigned'
  BY <1>4 DEF PrepareFails
<1>5. ASSUME NEW d \in Delivery, Create(d) PROVE Assigned'
  BY <1>5 DEF Create
<1>6. ASSUME NEW d \in Delivery, CreateFails(d) PROVE Assigned'
  BY <1>6 DEF CreateFails
<1>7. ASSUME NEW d \in Delivery, CreateReplyLost(d) PROVE Assigned'
  BY <1>7 DEF CreateReplyLost
<1>8. ASSUME NEW d \in Delivery, Start(d) PROVE Assigned'
  BY <1>8 DEF Start
<1>9. ASSUME NEW d \in Delivery, StartFails(d) PROVE Assigned'
  BY <1>9 DEF StartFails
<1>10. ASSUME NEW d \in Delivery, StartReplyLost(d) PROVE Assigned'
  BY <1>10 DEF StartReplyLost
<1>11. ASSUME NEW d \in Delivery, Store(d) PROVE Assigned'
  BY <1>11 DEF Store
<1>12. ASSUME NEW d \in Delivery, ReportRunning(d) PROVE Assigned'
  BY <1>12 DEF ReportRunning
<1>13. ASSUME NEW d \in Delivery, ReportError(d) PROVE Assigned'
  BY <1>13 DEF ReportError
<1>14. ASSUME NEW d \in Delivery, Completed(d) PROVE Assigned'
  BY <1>14 DEF Completed
<1>15. ASSUME NEW d \in Delivery, WaitTimeout(d) PROVE Assigned'
  BY <1>15 DEF WaitTimeout
<1>16. ASSUME NEW d \in Delivery, Collect(d) PROVE Assigned'
  <2>1. GetResponse(d) \in Row
    BY ResponseType DEF Response, Row, ContainerStatus
  <2>2. GetResponse(d) # None  BY <2>1
  <2> QED BY <1>16, <2>2 DEF Collect
<1>17. ASSUME NEW d \in Delivery, Remove(d) PROVE Assigned'
  BY <1>17 DEF Remove
<1>18. ASSUME NEW d \in Delivery, Publish(d) PROVE Assigned'
  BY <1>18 DEF Publish
<1>19. ASSUME NEW d \in Delivery, Finish(d) PROVE Assigned'
  BY <1>19 DEF Finish
<1>20. ASSUME NEW d \in Delivery, Exit(d) PROVE Assigned'
  BY <1>20 DEF Exit
<1>21. ASSUME NEW d \in Delivery, AutoRemove(d) PROVE Assigned'
  BY <1>21 DEF AutoRemove
<1>22. ASSUME NEW d \in Delivery, Expire(d) PROVE Assigned'
  BY <1>22 DEF Expire
<1>23. ASSUME NEW d \in Delivery, Redeliver(d) PROVE Assigned'
  BY <1>23 DEF Redeliver
<1>24. ASSUME NEW d \in Delivery, Kill(d) PROVE Assigned'
  BY <1>24 DEF Kill
<1>25. ASSUME NEW d \in Delivery, DropEvent(d) PROVE Assigned'
  BY <1>25 DEF DropEvent
<1>26. ASSUME NEW d \in Delivery, UpdateStatus(d) PROVE Assigned'
  BY <1>26 DEF UpdateStatus
<1>27. ASSUME NEW d \in Delivery, HandleRemoved(d) PROVE Assigned'
  BY <1>27 DEF HandleRemoved
<1>28. CASE RemoveDir
  BY <1>28 DEF RemoveDir
<1>29. CASE StreamFails
  BY <1>29 DEF StreamFails
<1>30. CASE Stop
  BY <1>30 DEF Stop
<1>31. CASE Restart
  BY <1>31 DEF Restart
<1>32. ASSUME NEW r \in Request, Insert(r) PROVE Assigned'
  BY <1>32 DEF Insert
<1>33. ASSUME NEW r \in Request, Discard(r) PROVE Assigned'
  BY <1>33 DEF Discard
<1> QED
  BY <1>1, <1>2, <1>3, <1>4, <1>5, <1>6, <1>7, <1>8, <1>9, <1>10, <1>11,
     <1>12, <1>13, <1>14, <1>15, <1>16, <1>17, <1>18, <1>19, <1>20, <1>21,
     <1>22, <1>23, <1>24, <1>25, <1>26, <1>27, <1>28, <1>29, <1>30, <1>31,
     <1>32, <1>33
     DEF Next, HandlerStep, DockerStep, LoopStep

\* No step separates the handler's position from the state of its container,
\* its map entry and its channel.
LEMMA PhaseStep ==
  ASSUME TypeOK, Assigned, Phase, Next
  PROVE  Phase'
<1> USE LoaderAssumption DEF Goto, Answer, Emit, Push, Pop, RemoveAll, Present, RunFails, Take,
            NextEvent, IsRemoval, GetSandboxRunnerOutput, WriteFiles,
            nsqVars, managerVars, loopVars, containerVars, dockerVars,
            dirVars, storeVars,
            TypeOK, Phase
<1>1. ASSUME NEW d \in Delivery, NEW r \in Request, Receive(d, r)
      PROVE  Phase'
  BY <1>1 DEF Receive
<1>2. ASSUME NEW d \in Delivery, Acquire(d) PROVE Phase'
  BY <1>2 DEF Acquire
<1>3. ASSUME NEW d \in Delivery, Prepare(d) PROVE Phase'
  BY <1>3 DEF Prepare
<1>4. ASSUME NEW d \in Delivery, PrepareFails(d) PROVE Phase'
  BY <1>4 DEF PrepareFails
<1>5. ASSUME NEW d \in Delivery, Create(d) PROVE Phase'
  BY <1>5 DEF Create
<1>6. ASSUME NEW d \in Delivery, CreateFails(d) PROVE Phase'
  BY <1>6 DEF CreateFails
<1>7. ASSUME NEW d \in Delivery, CreateReplyLost(d) PROVE Phase'
  BY <1>7 DEF CreateReplyLost
<1>8. ASSUME NEW d \in Delivery, Start(d) PROVE Phase'
  BY <1>8 DEF Start
<1>9. ASSUME NEW d \in Delivery, StartFails(d) PROVE Phase'
  BY <1>9 DEF StartFails
<1>10. ASSUME NEW d \in Delivery, StartReplyLost(d) PROVE Phase'
  BY <1>10 DEF StartReplyLost
<1>11. ASSUME NEW d \in Delivery, Store(d) PROVE Phase'
  BY <1>11 DEF Store
<1>12. ASSUME NEW d \in Delivery, ReportRunning(d) PROVE Phase'
  BY <1>12 DEF ReportRunning
<1>13. ASSUME NEW d \in Delivery, ReportError(d) PROVE Phase'
  BY <1>13 DEF ReportError
<1>14. ASSUME NEW d \in Delivery, Completed(d) PROVE Phase'
  BY <1>14 DEF Completed
<1>15. ASSUME NEW d \in Delivery, WaitTimeout(d) PROVE Phase'
  BY <1>15 DEF WaitTimeout
<1>16. ASSUME NEW d \in Delivery, Collect(d) PROVE Phase'
  BY <1>16 DEF Collect
<1>17. ASSUME NEW d \in Delivery, Remove(d) PROVE Phase'
  BY <1>17 DEF Remove
<1>18. ASSUME NEW d \in Delivery, Publish(d) PROVE Phase'
  BY <1>18 DEF Publish
<1>19. ASSUME NEW d \in Delivery, Finish(d) PROVE Phase'
  BY <1>19 DEF Finish
<1>20. ASSUME NEW d \in Delivery, Exit(d) PROVE Phase'
  BY <1>20 DEF Exit
<1>21. ASSUME NEW d \in Delivery, AutoRemove(d) PROVE Phase'
  BY <1>21 DEF AutoRemove
<1>22. ASSUME NEW d \in Delivery, Expire(d) PROVE Phase'
  BY <1>22 DEF Expire
<1>23. ASSUME NEW d \in Delivery, Redeliver(d) PROVE Phase'
  BY <1>23 DEF Redeliver
<1>24. ASSUME NEW d \in Delivery, Kill(d) PROVE Phase'
  BY <1>24 DEF Kill
<1>25. ASSUME NEW d \in Delivery, DropEvent(d) PROVE Phase'
  BY <1>25 DEF DropEvent
<1>26. ASSUME NEW d \in Delivery, UpdateStatus(d) PROVE Phase'
  BY <1>26 DEF UpdateStatus
<1>27. ASSUME NEW d \in Delivery, HandleRemoved(d) PROVE Phase'
  BY <1>27 DEF HandleRemoved
<1>28. CASE RemoveDir
  BY <1>28 DEF RemoveDir
<1>29. CASE StreamFails
  BY <1>29 DEF StreamFails
<1>30. CASE Stop
  BY <1>30 DEF Stop
<1>31. CASE Restart
  BY <1>31 DEF Restart
<1>32. ASSUME NEW r \in Request, Insert(r) PROVE Phase'
  BY <1>32 DEF Insert
<1>33. ASSUME NEW r \in Request, Discard(r) PROVE Phase'
  BY <1>33 DEF Discard
<1> QED
  BY <1>1, <1>2, <1>3, <1>4, <1>5, <1>6, <1>7, <1>8, <1>9, <1>10, <1>11,
     <1>12, <1>13, <1>14, <1>15, <1>16, <1>17, <1>18, <1>19, <1>20, <1>21,
     <1>22, <1>23, <1>24, <1>25, <1>26, <1>27, <1>28, <1>29, <1>30, <1>31,
     <1>32, <1>33
     DEF Next, HandlerStep, DockerStep, LoopStep

\* No step puts an event behind "destroy", and when the channel of a
\* registered container is closed its events have all been taken.
LEMMA EventStep ==
  ASSUME TypeOK, Phase, EventOrder, ClosedDrained, Next
  PROVE  (EventOrder /\ ClosedDrained)'
<1> USE LoaderAssumption DEF Goto, Answer, Emit, Push, Pop, RemoveAll, Present, RunFails, Take,
            NextEvent, IsRemoval, GetSandboxRunnerOutput, WriteFiles,
            nsqVars, managerVars, loopVars, containerVars, dockerVars,
            dirVars, storeVars,
            TypeOK, Phase, EventOrder, ClosedDrained
<1>1. ASSUME NEW d \in Delivery, NEW r \in Request, Receive(d, r)
      PROVE  (EventOrder /\ ClosedDrained)'
  BY <1>1 DEF Receive
<1>2. ASSUME NEW d \in Delivery, Acquire(d) PROVE (EventOrder /\ ClosedDrained)'
  BY <1>2 DEF Acquire
<1>3. ASSUME NEW d \in Delivery, Prepare(d) PROVE (EventOrder /\ ClosedDrained)'
  BY <1>3 DEF Prepare
<1>4. ASSUME NEW d \in Delivery, PrepareFails(d) PROVE (EventOrder /\ ClosedDrained)'
  BY <1>4 DEF PrepareFails
<1>5. ASSUME NEW d \in Delivery, Create(d) PROVE (EventOrder /\ ClosedDrained)'
  BY <1>5 DEF Create
<1>6. ASSUME NEW d \in Delivery, CreateFails(d) PROVE (EventOrder /\ ClosedDrained)'
  BY <1>6 DEF CreateFails
<1>7. ASSUME NEW d \in Delivery, CreateReplyLost(d) PROVE (EventOrder /\ ClosedDrained)'
  BY <1>7 DEF CreateReplyLost
<1>8. ASSUME NEW d \in Delivery, Start(d) PROVE (EventOrder /\ ClosedDrained)'
  BY <1>8 DEF Start
<1>9. ASSUME NEW d \in Delivery, StartFails(d) PROVE (EventOrder /\ ClosedDrained)'
  <2>1. CASE UNCHANGED dockerVars  BY <1>9, <2>1 DEF StartFails
  <2>2. CASE docker' = [docker EXCEPT ![d] = "removed"] /\ Emit(d, "destroy")
    BY <1>9, <2>2 DEF StartFails
  <2> QED BY <1>9, <2>1, <2>2 DEF StartFails
<1>10. ASSUME NEW d \in Delivery, StartReplyLost(d) PROVE (EventOrder /\ ClosedDrained)'
  BY <1>10 DEF StartReplyLost
<1>11. ASSUME NEW d \in Delivery, Store(d) PROVE (EventOrder /\ ClosedDrained)'
  BY <1>11 DEF Store
<1>12. ASSUME NEW d \in Delivery, ReportRunning(d) PROVE (EventOrder /\ ClosedDrained)'
  BY <1>12 DEF ReportRunning
<1>13. ASSUME NEW d \in Delivery, ReportError(d) PROVE (EventOrder /\ ClosedDrained)'
  BY <1>13 DEF ReportError
<1>14. ASSUME NEW d \in Delivery, Completed(d) PROVE (EventOrder /\ ClosedDrained)'
  BY <1>14 DEF Completed
<1>15. ASSUME NEW d \in Delivery, WaitTimeout(d) PROVE (EventOrder /\ ClosedDrained)'
  BY <1>15 DEF WaitTimeout
<1>16. ASSUME NEW d \in Delivery, Collect(d) PROVE (EventOrder /\ ClosedDrained)'
  BY <1>16 DEF Collect
<1>17. ASSUME NEW d \in Delivery, Remove(d) PROVE (EventOrder /\ ClosedDrained)'
  BY <1>17 DEF Remove
<1>18. ASSUME NEW d \in Delivery, Publish(d) PROVE (EventOrder /\ ClosedDrained)'
  BY <1>18 DEF Publish
<1>19. ASSUME NEW d \in Delivery, Finish(d) PROVE (EventOrder /\ ClosedDrained)'
  BY <1>19 DEF Finish
<1>20. ASSUME NEW d \in Delivery, Exit(d) PROVE (EventOrder /\ ClosedDrained)'
  BY <1>20 DEF Exit
<1>21. ASSUME NEW d \in Delivery, AutoRemove(d) PROVE (EventOrder /\ ClosedDrained)'
  BY <1>21 DEF AutoRemove
<1>22. ASSUME NEW d \in Delivery, Expire(d) PROVE (EventOrder /\ ClosedDrained)'
  BY <1>22 DEF Expire
<1>23. ASSUME NEW d \in Delivery, Redeliver(d) PROVE (EventOrder /\ ClosedDrained)'
  BY <1>23 DEF Redeliver
<1>24. ASSUME NEW d \in Delivery, Kill(d) PROVE (EventOrder /\ ClosedDrained)'
  BY <1>24 DEF Kill
<1>25. ASSUME NEW d \in Delivery, DropEvent(d) PROVE (EventOrder /\ ClosedDrained)'
  BY <1>25 DEF DropEvent
<1>26. ASSUME NEW d \in Delivery, UpdateStatus(d) PROVE (EventOrder /\ ClosedDrained)'
  BY <1>26 DEF UpdateStatus
<1>27. ASSUME NEW d \in Delivery, HandleRemoved(d) PROVE (EventOrder /\ ClosedDrained)'
  BY <1>27 DEF HandleRemoved
<1>28. CASE RemoveDir
  BY <1>28 DEF RemoveDir
<1>29. CASE StreamFails
  BY <1>29 DEF StreamFails
<1>30. CASE Stop
  BY <1>30 DEF Stop
<1>31. CASE Restart
  BY <1>31 DEF Restart
<1>32. ASSUME NEW r \in Request, Insert(r) PROVE (EventOrder /\ ClosedDrained)'
  BY <1>32 DEF Insert
<1>33. ASSUME NEW r \in Request, Discard(r) PROVE (EventOrder /\ ClosedDrained)'
  BY <1>33 DEF Discard
<1> QED
  BY <1>1, <1>2, <1>3, <1>4, <1>5, <1>6, <1>7, <1>8, <1>9, <1>10, <1>11,
     <1>12, <1>13, <1>14, <1>15, <1>16, <1>17, <1>18, <1>19, <1>20, <1>21,
     <1>22, <1>23, <1>24, <1>25, <1>26, <1>27, <1>28, <1>29, <1>30, <1>31,
     <1>32, <1>33
     DEF Next, HandlerStep, DockerStep, LoopStep

\* No step changes the status of a container away from what the runner
\* reported, or gives it Finished without an output.
LEMMA VerdictStep ==
  ASSUME TypeOK, Phase, EventOrder, ClosedDrained, Unjudged, VerdictFaithful, Next
  PROVE  (Unjudged /\ VerdictFaithful)'
<1> USE LoaderAssumption DEF Goto, Answer, Emit, Push, Pop, RemoveAll, Present, RunFails, Take,
            NextEvent, IsRemoval, GetSandboxRunnerOutput, WriteFiles,
            nsqVars, managerVars, loopVars, containerVars, dockerVars,
            dirVars, storeVars,
            TypeOK, Phase, EventOrder, ClosedDrained, Unjudged, VerdictFaithful
<1>1. ASSUME NEW d \in Delivery, NEW r \in Request, Receive(d, r)
      PROVE  (Unjudged /\ VerdictFaithful)'
  BY <1>1 DEF Receive
<1>2. ASSUME NEW d \in Delivery, Acquire(d) PROVE (Unjudged /\ VerdictFaithful)'
  BY <1>2 DEF Acquire
<1>3. ASSUME NEW d \in Delivery, Prepare(d) PROVE (Unjudged /\ VerdictFaithful)'
  BY <1>3 DEF Prepare
<1>4. ASSUME NEW d \in Delivery, PrepareFails(d) PROVE (Unjudged /\ VerdictFaithful)'
  BY <1>4 DEF PrepareFails
<1>5. ASSUME NEW d \in Delivery, Create(d) PROVE (Unjudged /\ VerdictFaithful)'
  BY <1>5 DEF Create
<1>6. ASSUME NEW d \in Delivery, CreateFails(d) PROVE (Unjudged /\ VerdictFaithful)'
  BY <1>6 DEF CreateFails
<1>7. ASSUME NEW d \in Delivery, CreateReplyLost(d) PROVE (Unjudged /\ VerdictFaithful)'
  BY <1>7 DEF CreateReplyLost
<1>8. ASSUME NEW d \in Delivery, Start(d) PROVE (Unjudged /\ VerdictFaithful)'
  BY <1>8 DEF Start
<1>9. ASSUME NEW d \in Delivery, StartFails(d) PROVE (Unjudged /\ VerdictFaithful)'
  BY <1>9 DEF StartFails
<1>10. ASSUME NEW d \in Delivery, StartReplyLost(d) PROVE (Unjudged /\ VerdictFaithful)'
  BY <1>10 DEF StartReplyLost
<1>11. ASSUME NEW d \in Delivery, Store(d) PROVE (Unjudged /\ VerdictFaithful)'
  BY <1>11 DEF Store
<1>12. ASSUME NEW d \in Delivery, ReportRunning(d) PROVE (Unjudged /\ VerdictFaithful)'
  BY <1>12 DEF ReportRunning
<1>13. ASSUME NEW d \in Delivery, ReportError(d) PROVE (Unjudged /\ VerdictFaithful)'
  BY <1>13 DEF ReportError
<1>14. ASSUME NEW d \in Delivery, Completed(d) PROVE (Unjudged /\ VerdictFaithful)'
  BY <1>14 DEF Completed
<1>15. ASSUME NEW d \in Delivery, WaitTimeout(d) PROVE (Unjudged /\ VerdictFaithful)'
  BY <1>15 DEF WaitTimeout
<1>16. ASSUME NEW d \in Delivery, Collect(d) PROVE (Unjudged /\ VerdictFaithful)'
  BY <1>16 DEF Collect
<1>17. ASSUME NEW d \in Delivery, Remove(d) PROVE (Unjudged /\ VerdictFaithful)'
  BY <1>17 DEF Remove
<1>18. ASSUME NEW d \in Delivery, Publish(d) PROVE (Unjudged /\ VerdictFaithful)'
  BY <1>18 DEF Publish
<1>19. ASSUME NEW d \in Delivery, Finish(d) PROVE (Unjudged /\ VerdictFaithful)'
  BY <1>19 DEF Finish
<1>20. ASSUME NEW d \in Delivery, Exit(d) PROVE (Unjudged /\ VerdictFaithful)'
  BY <1>20 DEF Exit
<1>21. ASSUME NEW d \in Delivery, AutoRemove(d) PROVE (Unjudged /\ VerdictFaithful)'
  BY <1>21 DEF AutoRemove
<1>22. ASSUME NEW d \in Delivery, Expire(d) PROVE (Unjudged /\ VerdictFaithful)'
  BY <1>22 DEF Expire
<1>23. ASSUME NEW d \in Delivery, Redeliver(d) PROVE (Unjudged /\ VerdictFaithful)'
  BY <1>23 DEF Redeliver
<1>24. ASSUME NEW d \in Delivery, Kill(d) PROVE (Unjudged /\ VerdictFaithful)'
  BY <1>24 DEF Kill
<1>25. ASSUME NEW d \in Delivery, DropEvent(d) PROVE (Unjudged /\ VerdictFaithful)'
  BY <1>25 DEF DropEvent
<1>26. ASSUME NEW d \in Delivery, UpdateStatus(d) PROVE (Unjudged /\ VerdictFaithful)'
  <2>1. Head(events[d]) \in Event \ {"destroy"}
    BY <1>26, TakeType DEF UpdateStatus
  <2>2. StatusOf[Head(events[d])] # "Finished"  BY <2>1, EventNames
  <2>3. ~ closed[d]  BY <1>26 DEF UpdateStatus
  <2> QED BY <1>26, <2>2, <2>3 DEF UpdateStatus
<1>27. ASSUME NEW d \in Delivery, HandleRemoved(d) PROVE (Unjudged /\ VerdictFaithful)'
  BY <1>27 DEF HandleRemoved
<1>28. CASE RemoveDir
  BY <1>28 DEF RemoveDir
<1>29. CASE StreamFails
  BY <1>29 DEF StreamFails
<1>30. CASE Stop
  BY <1>30 DEF Stop
<1>31. CASE Restart
  BY <1>31 DEF Restart
<1>32. ASSUME NEW r \in Request, Insert(r) PROVE (Unjudged /\ VerdictFaithful)'
  BY <1>32 DEF Insert
<1>33. ASSUME NEW r \in Request, Discard(r) PROVE (Unjudged /\ VerdictFaithful)'
  BY <1>33 DEF Discard
<1> QED
  BY <1>1, <1>2, <1>3, <1>4, <1>5, <1>6, <1>7, <1>8, <1>9, <1>10, <1>11,
     <1>12, <1>13, <1>14, <1>15, <1>16, <1>17, <1>18, <1>19, <1>20, <1>21,
     <1>22, <1>23, <1>24, <1>25, <1>26, <1>27, <1>28, <1>29, <1>30, <1>31,
     <1>32, <1>33
     DEF Next, HandlerStep, DockerStep, LoopStep

\* The loader starts in the invariant.
LEMMA InitIInv ==
  ASSUME Init
  PROVE  IInv
<1> USE LoaderAssumption DEF Init
<1>1. TypeOK
  <2>1. NewRow \in Row  BY DEF NewRow, Row, ContainerStatus, TestStatus
  <2>2. events \in [Delivery -> Seq(Event)]  BY <<>> \in Seq(Event)
  <2> QED BY <2>1, <2>2 DEF TypeOK, PC, ContainerStatus
<1>2. Assigned /\ Phase  BY DEF Assigned, Phase
<1>3. EventOrder /\ ClosedDrained  BY DEF EventOrder, ClosedDrained
<1>4. Unjudged /\ VerdictFaithful  BY DEF Unjudged, VerdictFaithful
<1> QED BY <1>1, <1>2, <1>3, <1>4 DEF IInv

\* Every step of the loader, and stuttering, preserves the invariant.
LEMMA StepIInv ==
  ASSUME IInv, [Next]_vars
  PROVE  IInv'
<1>1. CASE Next
  BY <1>1, TypeStep, AssignedStep, PhaseStep, EventStep, VerdictStep DEF IInv
<1>2. CASE UNCHANGED vars
  <2> USE <1>2 DEF vars, nsqVars, managerVars, loopVars, containerVars,
                   dockerVars, dirVars, storeVars, IInv
  <2>1. TypeOK'  BY DEF TypeOK
  <2>2. Assigned' /\ Phase'  BY DEF Assigned, Phase
  <2>3. EventOrder' /\ ClosedDrained'  BY DEF EventOrder, ClosedDrained
  <2>4. Unjudged' /\ VerdictFaithful'  BY DEF Unjudged, VerdictFaithful
  <2> QED BY <2>1, <2>2, <2>3, <2>4
<1> QED BY <1>1, <1>2

\* The inductive invariant holds in every state of the loader.
THEOREM Invariance == Spec => []IInv
<1>1. Init => IInv  BY InitIInv
<1>2. IInv /\ [Next]_vars => IInv'  BY StepIInv
<1> QED BY <1>1, <1>2, PTL DEF Spec

-----------------------------------------------------------------------------
(* What follows from it *)

\* The loader is type correct: in particular the limiter never holds more
\* than MaxConcurrentContainers elements.
THEOREM TypeCorrect == Spec => []TypeOK
<1>1. IInv => TypeOK  BY DEF IInv
<1> QED BY <1>1, Invariance, PTL

\* Neither the handler nor the event loop panics: the response the handler
\* dereferences exists (queue.go:149-154), complete is never closed twice
\* (sandbox.go:317), and executionResponse is there when the status is
\* Finished (sandbox.go:412-415).
THEOREM NoPanic ==
  Spec => [](ResponseRegistered /\ NoDoubleClose /\ VerdictFaithful)
<1>1. ASSUME IInv PROVE ResponseRegistered
  BY <1>1 DEF IInv, Phase, ResponseRegistered
<1>2. ASSUME IInv PROVE NoDoubleClose
  <2> SUFFICES ASSUME NEW d \in containers, closed[d]
               PROVE  DOMAIN events[d] = {}
    BY DEF NoDoubleClose
  <2>1. events[d] = <<>>  BY <1>2 DEF IInv, ClosedDrained
  <2> QED BY <2>1
<1>3. ASSUME IInv PROVE VerdictFaithful  BY <1>3 DEF IInv
<1> QED BY <1>1, <1>2, <1>3, Invariance, PTL

\* In particular: a handler that was woken finds its container in the map, so
\* that manager.GetResponse is not nil (manager.go:71-78, queue.go:149-154).
THEOREM WokenIsRegistered == Spec => []ResponseRegistered
BY NoPanic, PTL

\* And the status GetResponse compares with Finished is the one in the file it
\* was read with, whatever events Docker sends (sandbox.go:407-425).
THEOREM VerdictIsFaithful == Spec => []VerdictFaithful
BY NoPanic, PTL

\* A container whose channel is closed is not written by any step.
LEMMA FrozenStep ==
  ASSUME IInv, [Next]_vars, NEW d \in Delivery, closed[d]
  PROVE  status'[d] = status[d] /\ response'[d] = response[d]
<1> USE DEF IInv, TypeOK
<1>1. CASE UNCHANGED containerVars  BY <1>1 DEF containerVars
<1>2. CASE \E x \in Delivery : UpdateStatus(x)
  <2>1. PICK x \in Delivery : UpdateStatus(x)  BY <1>2
  <2>2. x # d  BY <2>1 DEF UpdateStatus, NextEvent, ClosedDrained
  <2> QED BY <2>1, <2>2 DEF UpdateStatus
<1>3. CASE \E x \in Delivery : HandleRemoved(x)
  <2>1. PICK x \in Delivery : HandleRemoved(x)  BY <1>3
  <2>2. x # d  BY <2>1 DEF HandleRemoved, NextEvent, ClosedDrained
  <2> QED BY <2>1, <2>2 DEF HandleRemoved, GetSandboxRunnerOutput
<1>4. CASE \E x \in Delivery :
             \/ PrepareFails(x) \/ CreateFails(x) \/ CreateReplyLost(x)
             \/ StartFails(x) \/ StartReplyLost(x)
  BY <1>4 DEF PrepareFails, CreateFails, CreateReplyLost, StartFails,
              StartReplyLost, RunFails
<1>5. ASSUME NEW x \in Delivery,
             \/ \E r \in Request : Receive(x, r)
             \/ Acquire(x) \/ Prepare(x) \/ Create(x) \/ Start(x) \/ Store(x)
             \/ ReportRunning(x) \/ ReportError(x) \/ Completed(x)
             \/ WaitTimeout(x) \/ Collect(x) \/ Remove(x) \/ Publish(x)
             \/ Finish(x) \/ DockerStep(x) \/ Expire(x) \/ Redeliver(x)
             \/ Kill(x) \/ DropEvent(x)
      PROVE  UNCHANGED containerVars
  BY <1>5 DEF Receive, Acquire, Prepare, Create, Start, Store, ReportRunning,
              ReportError, Completed, WaitTimeout, Collect, Remove, Publish,
              Finish, DockerStep, Exit, AutoRemove, Expire, Redeliver, Kill,
              DropEvent
<1>6. ASSUME RemoveDir \/ StreamFails \/ Stop \/ Restart
             \/ \E r \in Request : Insert(r) \/ Discard(r)
      PROVE  UNCHANGED containerVars
  BY <1>6 DEF RemoveDir, StreamFails, Stop, Restart, Insert, Discard
<1>7. CASE UNCHANGED vars  BY <1>1, <1>7 DEF vars
<1> QED BY <1>1, <1>2, <1>3, <1>4, <1>5, <1>6, <1>7
        DEF Next, HandlerStep, LoopStep

\* The handler reads status and executionResponse without a lock; the event
\* loop never writes them again once it has closed complete.
THEOREM Frozen == Spec => ClosedFrozen
<1>1. IInv /\ [Next]_vars
        => [\A d \in Delivery : closed[d] =>
              status'[d] = status[d] /\ response'[d] = response[d]]_vars
  BY FrozenStep
<1> QED BY <1>1, Invariance, PTL DEF Spec, ClosedFrozen

-----------------------------------------------------------------------------
(* The limiter *)

\* The sets that the limiter and NSQ count are finite.
LEMMA HoldingFinite == IsFiniteSet(Holding) /\ IsFiniteSet(Active)
<1>1. Holding \in SUBSET Delivery /\ Active \in SUBSET Delivery
  BY DEF Holding, Leaked, Active
<1> QED BY <1>1, FS_Subset, LoaderAssumption

\* Every step keeps the limiter equal to the number of handlers that hold, or
\* leaked, an element.
LEMMA SlotStep ==
  ASSUME TypeOK, SlotAccounting, Next
  PROVE  SlotAccounting'
<1> USE DEF TypeOK, SlotAccounting, Holding, Leaked, InHand, Goto, RunFails,
            Push, Pop, managerVars, nsqVars
<1>1. ASSUME NEW d \in Delivery, NEW r \in Request, Receive(d, r)
      PROVE  SlotAccounting'
  <2>1. Holding' = Holding /\ limiter' = limiter  BY <1>1 DEF Receive
  <2> QED BY <2>1
<1>2. ASSUME NEW d \in Delivery, Acquire(d) PROVE SlotAccounting'
  <2>1. Holding' = Holding \cup {d} /\ d \notin Holding  BY <1>2 DEF Acquire
  <2>2. limiter' = Cardinality(Holding) + 1  BY <1>2 DEF Acquire
  <2> HIDE DEF Holding
  <2> QED BY <2>1, <2>2, HoldingFinite, FS_AddElement
<1>3. ASSUME NEW d \in Delivery, Prepare(d) PROVE SlotAccounting'
  <2>1. Holding' = Holding /\ limiter' = limiter  BY <1>3 DEF Prepare
  <2> QED BY <2>1
<1>4. ASSUME NEW d \in Delivery, PrepareFails(d) PROVE SlotAccounting'
  <2>1. Holding' = Holding /\ limiter' = limiter  BY <1>4 DEF PrepareFails
  <2> QED BY <2>1
<1>5. ASSUME NEW d \in Delivery, Create(d) PROVE SlotAccounting'
  <2>1. Holding' = Holding /\ limiter' = limiter  BY <1>5 DEF Create
  <2> QED BY <2>1
<1>6. ASSUME NEW d \in Delivery, CreateFails(d) PROVE SlotAccounting'
  <2>1. Holding' = Holding /\ limiter' = limiter  BY <1>6 DEF CreateFails
  <2> QED BY <2>1
<1>7. ASSUME NEW d \in Delivery, CreateReplyLost(d) PROVE SlotAccounting'
  <2>1. Holding' = Holding /\ limiter' = limiter  BY <1>7 DEF CreateReplyLost
  <2> QED BY <2>1
<1>8. ASSUME NEW d \in Delivery, Start(d) PROVE SlotAccounting'
  <2>1. Holding' = Holding /\ limiter' = limiter  BY <1>8 DEF Start
  <2> QED BY <2>1
<1>9. ASSUME NEW d \in Delivery, StartFails(d) PROVE SlotAccounting'
  <2>1. Holding' = Holding /\ limiter' = limiter  BY <1>9 DEF StartFails
  <2> QED BY <2>1
<1>10. ASSUME NEW d \in Delivery, StartReplyLost(d) PROVE SlotAccounting'
  <2>1. Holding' = Holding /\ limiter' = limiter  BY <1>10 DEF StartReplyLost
  <2> QED BY <2>1
<1>11. ASSUME NEW d \in Delivery, Store(d) PROVE SlotAccounting'
  <2>1. Holding' = Holding /\ limiter' = limiter  BY <1>11 DEF Store
  <2> QED BY <2>1
<1>12. ASSUME NEW d \in Delivery, ReportRunning(d) PROVE SlotAccounting'
  <2>1. Holding' = Holding /\ limiter' = limiter  BY <1>12 DEF ReportRunning
  <2> QED BY <2>1
<1>13. ASSUME NEW d \in Delivery, ReportError(d) PROVE SlotAccounting'
  <2>1. Holding' = Holding /\ limiter' = limiter  BY <1>13 DEF ReportError
  <2> QED BY <2>1
<1>14. ASSUME NEW d \in Delivery, Completed(d) PROVE SlotAccounting'
  <2>1. Holding' = Holding /\ limiter' = limiter  BY <1>14 DEF Completed
  <2> QED BY <2>1
<1>15. ASSUME NEW d \in Delivery, WaitTimeout(d) PROVE SlotAccounting'
  <2>1. Holding' = Holding /\ limiter' = limiter  BY <1>15 DEF WaitTimeout
  <2> QED BY <2>1
<1>16. ASSUME NEW d \in Delivery, Collect(d) PROVE SlotAccounting'
  <2>1. Holding' = Holding /\ limiter' = limiter  BY <1>16 DEF Collect
  <2> QED BY <2>1
<1>17. ASSUME NEW d \in Delivery, Remove(d) PROVE SlotAccounting'
  <2>1. Holding' = Holding \ {d} /\ d \in Holding  BY <1>17 DEF Remove
  <2>2. limiter' = Cardinality(Holding) - 1  BY <1>17 DEF Remove
  <2> HIDE DEF Holding
  <2> QED BY <2>1, <2>2, HoldingFinite, FS_RemoveElement
<1>18. ASSUME NEW d \in Delivery, Publish(d) PROVE SlotAccounting'
  <2>1. Holding' = Holding /\ limiter' = limiter  BY <1>18 DEF Publish
  <2> QED BY <2>1
<1>19. ASSUME NEW d \in Delivery, Finish(d) PROVE SlotAccounting'
  <2>1. Holding' = Holding /\ limiter' = limiter  BY <1>19 DEF Finish
  <2> QED BY <2>1
<1>20. ASSUME NEW d \in Delivery, Exit(d) PROVE SlotAccounting'
  <2>1. Holding' = Holding /\ limiter' = limiter  BY <1>20 DEF Exit
  <2> QED BY <2>1
<1>21. ASSUME NEW d \in Delivery, AutoRemove(d) PROVE SlotAccounting'
  <2>1. Holding' = Holding /\ limiter' = limiter  BY <1>21 DEF AutoRemove
  <2> QED BY <2>1
<1>22. ASSUME NEW d \in Delivery, Expire(d) PROVE SlotAccounting'
  <2>1. Holding' = Holding /\ limiter' = limiter  BY <1>22 DEF Expire
  <2> QED BY <2>1
<1>23. ASSUME NEW d \in Delivery, Redeliver(d) PROVE SlotAccounting'
  <2>1. Holding' = Holding /\ limiter' = limiter  BY <1>23 DEF Redeliver
  <2> QED BY <2>1
<1>24. ASSUME NEW d \in Delivery, Kill(d) PROVE SlotAccounting'
  <2>1. Holding' = Holding /\ limiter' = limiter  BY <1>24 DEF Kill
  <2> QED BY <2>1
<1>25. ASSUME NEW d \in Delivery, DropEvent(d) PROVE SlotAccounting'
  <2>1. Holding' = Holding /\ limiter' = limiter  BY <1>25 DEF DropEvent
  <2> QED BY <2>1
<1>26. ASSUME NEW d \in Delivery, UpdateStatus(d) PROVE SlotAccounting'
  <2>1. Holding' = Holding /\ limiter' = limiter  BY <1>26 DEF UpdateStatus
  <2> QED BY <2>1
<1>27. ASSUME NEW d \in Delivery, HandleRemoved(d) PROVE SlotAccounting'
  <2>1. Holding' = Holding /\ limiter' = limiter  BY <1>27 DEF HandleRemoved
  <2> QED BY <2>1
<1>28. CASE RemoveDir
  BY <1>28 DEF RemoveDir
<1>29. CASE StreamFails
  BY <1>29 DEF StreamFails
<1>30. CASE Stop
  BY <1>30 DEF Stop
<1>31. CASE Restart
  <2>1. Holding' = {}  BY <1>31 DEF Restart
  <2> QED BY <1>31, <2>1, FS_EmptySet DEF Restart
<1>32. ASSUME NEW r \in Request, Insert(r) PROVE SlotAccounting'
  <2>1. Holding' = Holding /\ limiter' = limiter  BY <1>32 DEF Insert
  <2> QED BY <2>1
<1>33. ASSUME NEW r \in Request, Discard(r) PROVE SlotAccounting'
  <2>1. Holding' = Holding /\ limiter' = limiter  BY <1>33 DEF Discard
  <2> QED BY <2>1
<1> QED
  BY <1>1, <1>2, <1>3, <1>4, <1>5, <1>6, <1>7, <1>8, <1>9, <1>10, <1>11,
     <1>12, <1>13, <1>14, <1>15, <1>16, <1>17, <1>18, <1>19, <1>20, <1>21,
     <1>22, <1>23, <1>24, <1>25, <1>26, <1>27, <1>28, <1>29, <1>30, <1>31,
     <1>32, <1>33
     DEF Next, HandlerStep, DockerStep, LoopStep

\* A step that starts no handler keeps the bound on handlers.
LEMMA ShrinkingActive ==
  ASSUME ActiveBound, Active' \in SUBSET Active
  PROVE  ActiveBound'
<1>1. IsFiniteSet(Active') /\ Cardinality(Active') <= Cardinality(Active)
  BY HoldingFinite, FS_Subset
<1>2. Cardinality(Active') \in Nat /\ Cardinality(Active) \in Nat
  BY <1>1, HoldingFinite, FS_CardinalityType
<1> QED BY <1>1, <1>2, LoaderAssumption DEF ActiveBound

\* Every step keeps the number of handlers at work within MaxInFlight.
LEMMA ActiveStep ==
  ASSUME TypeOK, ActiveBound, Next
  PROVE  ActiveBound'
<1> USE DEF TypeOK, ActiveBound, Active, InHand, Goto, RunFails, Returned
<1>1. ASSUME NEW d \in Delivery, NEW r \in Request, Receive(d, r)
      PROVE  ActiveBound'
  <2>1. Active' = Active \cup {d} /\ d \notin Active  BY <1>1 DEF Receive
  <2>2. Cardinality(Active) + 1 <= MaxConcurrentContainers
    BY <1>1, HoldingFinite, FS_CardinalityType, LoaderAssumption DEF Receive, Deliverable
  <2> HIDE DEF Active
  <2> QED BY <2>1, <2>2, HoldingFinite, FS_AddElement
<1>2. ASSUME NEW d \in Delivery, Acquire(d) PROVE ActiveBound'
  <2>1. Active' \in SUBSET Active  BY <1>2 DEF Acquire
  <2> QED BY <2>1, ShrinkingActive
<1>3. ASSUME NEW d \in Delivery, Prepare(d) PROVE ActiveBound'
  <2>1. Active' \in SUBSET Active  BY <1>3 DEF Prepare
  <2> QED BY <2>1, ShrinkingActive
<1>4. ASSUME NEW d \in Delivery, PrepareFails(d) PROVE ActiveBound'
  <2>1. Active' \in SUBSET Active  BY <1>4 DEF PrepareFails
  <2> QED BY <2>1, ShrinkingActive
<1>5. ASSUME NEW d \in Delivery, Create(d) PROVE ActiveBound'
  <2>1. Active' \in SUBSET Active  BY <1>5 DEF Create
  <2> QED BY <2>1, ShrinkingActive
<1>6. ASSUME NEW d \in Delivery, CreateFails(d) PROVE ActiveBound'
  <2>1. Active' \in SUBSET Active  BY <1>6 DEF CreateFails
  <2> QED BY <2>1, ShrinkingActive
<1>7. ASSUME NEW d \in Delivery, CreateReplyLost(d) PROVE ActiveBound'
  <2>1. Active' \in SUBSET Active  BY <1>7 DEF CreateReplyLost
  <2> QED BY <2>1, ShrinkingActive
<1>8. ASSUME NEW d \in Delivery, Start(d) PROVE ActiveBound'
  <2>1. Active' \in SUBSET Active  BY <1>8 DEF Start
  <2> QED BY <2>1, ShrinkingActive
<1>9. ASSUME NEW d \in Delivery, StartFails(d) PROVE ActiveBound'
  <2>1. Active' \in SUBSET Active  BY <1>9 DEF StartFails
  <2> QED BY <2>1, ShrinkingActive
<1>10. ASSUME NEW d \in Delivery, StartReplyLost(d) PROVE ActiveBound'
  <2>1. Active' \in SUBSET Active  BY <1>10 DEF StartReplyLost
  <2> QED BY <2>1, ShrinkingActive
<1>11. ASSUME NEW d \in Delivery, Store(d) PROVE ActiveBound'
  <2>1. Active' \in SUBSET Active  BY <1>11 DEF Store
  <2> QED BY <2>1, ShrinkingActive
<1>12. ASSUME NEW d \in Delivery, ReportRunning(d) PROVE ActiveBound'
  <2>1. Active' \in SUBSET Active  BY <1>12 DEF ReportRunning
  <2> QED BY <2>1, ShrinkingActive
<1>13. ASSUME NEW d \in Delivery, ReportError(d) PROVE ActiveBound'
  <2>1. Active' \in SUBSET Active  BY <1>13 DEF ReportError
  <2> QED BY <2>1, ShrinkingActive
<1>14. ASSUME NEW d \in Delivery, Completed(d) PROVE ActiveBound'
  <2>1. Active' \in SUBSET Active  BY <1>14 DEF Completed
  <2> QED BY <2>1, ShrinkingActive
<1>15. ASSUME NEW d \in Delivery, WaitTimeout(d) PROVE ActiveBound'
  <2>1. Active' \in SUBSET Active  BY <1>15 DEF WaitTimeout
  <2> QED BY <2>1, ShrinkingActive
<1>16. ASSUME NEW d \in Delivery, Collect(d) PROVE ActiveBound'
  <2>1. Active' \in SUBSET Active  BY <1>16 DEF Collect
  <2> QED BY <2>1, ShrinkingActive
<1>17. ASSUME NEW d \in Delivery, Remove(d) PROVE ActiveBound'
  <2>1. Active' \in SUBSET Active  BY <1>17 DEF Remove
  <2> QED BY <2>1, ShrinkingActive
<1>18. ASSUME NEW d \in Delivery, Publish(d) PROVE ActiveBound'
  <2>1. Active' \in SUBSET Active  BY <1>18 DEF Publish
  <2> QED BY <2>1, ShrinkingActive
<1>19. ASSUME NEW d \in Delivery, Finish(d) PROVE ActiveBound'
  <2>1. Active' \in SUBSET Active  BY <1>19 DEF Finish
  <2> QED BY <2>1, ShrinkingActive
<1>20. ASSUME NEW d \in Delivery, Exit(d) PROVE ActiveBound'
  <2>1. Active' \in SUBSET Active  BY <1>20 DEF Exit
  <2> QED BY <2>1, ShrinkingActive
<1>21. ASSUME NEW d \in Delivery, AutoRemove(d) PROVE ActiveBound'
  <2>1. Active' \in SUBSET Active  BY <1>21 DEF AutoRemove
  <2> QED BY <2>1, ShrinkingActive
<1>22. ASSUME NEW d \in Delivery, Expire(d) PROVE ActiveBound'
  <2>1. Active' \in SUBSET Active  BY <1>22 DEF Expire
  <2> QED BY <2>1, ShrinkingActive
<1>23. ASSUME NEW d \in Delivery, Redeliver(d) PROVE ActiveBound'
  <2>1. Active' \in SUBSET Active  BY <1>23 DEF Redeliver
  <2> QED BY <2>1, ShrinkingActive
<1>24. ASSUME NEW d \in Delivery, Kill(d) PROVE ActiveBound'
  <2>1. Active' \in SUBSET Active  BY <1>24 DEF Kill
  <2> QED BY <2>1, ShrinkingActive
<1>25. ASSUME NEW d \in Delivery, DropEvent(d) PROVE ActiveBound'
  <2>1. Active' \in SUBSET Active  BY <1>25 DEF DropEvent
  <2> QED BY <2>1, ShrinkingActive
<1>26. ASSUME NEW d \in Delivery, UpdateStatus(d) PROVE ActiveBound'
  <2>1. Active' \in SUBSET Active  BY <1>26 DEF UpdateStatus
  <2> QED BY <2>1, ShrinkingActive
<1>27. ASSUME NEW d \in Delivery, HandleRemoved(d) PROVE ActiveBound'
  <2>1. Active' \in SUBSET Active  BY <1>27 DEF HandleRemoved
  <2> QED BY <2>1, ShrinkingActive
<1>28. CASE RemoveDir
  <2>1. Active' \in SUBSET Active  BY <1>28 DEF RemoveDir
  <2> QED BY <2>1, ShrinkingActive
<1>29. CASE StreamFails
  <2>1. Active' \in SUBSET Active  BY <1>29 DEF StreamFails
  <2> QED BY <2>1, ShrinkingActive
<1>30. CASE Stop
  <2>1. Active' \in SUBSET Active  BY <1>30 DEF Stop
  <2> QED BY <2>1, ShrinkingActive
<1>31. CASE Restart
  <2>1. Active' = {}  BY <1>31 DEF Restart
  <2> HIDE DEF Active
  <2> QED BY <2>1, FS_EmptySet, LoaderAssumption
<1>32. ASSUME NEW r \in Request, Insert(r) PROVE ActiveBound'
  <2>1. Active' \in SUBSET Active  BY <1>32 DEF Insert
  <2> QED BY <2>1, ShrinkingActive
<1>33. ASSUME NEW r \in Request, Discard(r) PROVE ActiveBound'
  <2>1. Active' \in SUBSET Active  BY <1>33 DEF Discard
  <2> QED BY <2>1, ShrinkingActive
<1> QED
  BY <1>1, <1>2, <1>3, <1>4, <1>5, <1>6, <1>7, <1>8, <1>9, <1>10, <1>11,
     <1>12, <1>13, <1>14, <1>15, <1>16, <1>17, <1>18, <1>19, <1>20, <1>21,
     <1>22, <1>23, <1>24, <1>25, <1>26, <1>27, <1>28, <1>29, <1>30, <1>31,
     <1>32, <1>33
     DEF Next, HandlerStep, DockerStep, LoopStep

\* The limiter counts exactly the handlers between AddContainer and
\* RemoveContainer and those that returned early.
THEOREM LimiterAccounting == Spec => []SlotAccounting
<1>1. Init => SlotAccounting
  <2> SUFFICES ASSUME Init PROVE Holding = {} /\ limiter = 0
    BY FS_EmptySet DEF SlotAccounting
  <2> QED BY DEF Init, Holding, Leaked, InHand
<1>2. IInv /\ SlotAccounting /\ [Next]_vars => SlotAccounting'
  <2>1. ASSUME UNCHANGED vars, SlotAccounting PROVE SlotAccounting'
    BY <2>1 DEF vars, managerVars, SlotAccounting, Holding, Leaked
  <2> QED BY <2>1, SlotStep DEF IInv
<1> QED BY <1>1, <1>2, Invariance, PTL DEF Spec

\* A handler waits in AddContainer only after an earlier one returned without
\* RemoveContainer: without timeouts and errors AddContainer never blocks.
THEOREM OnlyLeaksBlock == Spec => []BlockedOnlyByLeak
<1>1. Init => ActiveBound
  <2> SUFFICES ASSUME Init PROVE Active = {}
    BY FS_EmptySet, LoaderAssumption DEF ActiveBound
  <2> QED BY DEF Init, Active, InHand
<1>2. IInv /\ ActiveBound /\ [Next]_vars => ActiveBound'
  <2>1. ASSUME UNCHANGED vars, ActiveBound PROVE ActiveBound'
    BY <2>1 DEF vars, ActiveBound, Active
  <2> QED BY <2>1, ActiveStep DEF IInv
<1>3. ActiveBound /\ SlotAccounting => BlockedOnlyByLeak
  <2> SUFFICES ASSUME ActiveBound, SlotAccounting, NEW d \in Delivery,
                      pc[d] = "acquire", limiter = MaxConcurrentContainers,
                      Leaked = {}
               PROVE  FALSE
    BY DEF BlockedOnlyByLeak
  <2>1. Holding \in SUBSET (Active \ {d}) /\ d \in Active
    BY DEF Holding, Active, InHand
  <2>2. IsFiniteSet(Active \ {d})
        /\ Cardinality(Active \ {d}) = Cardinality(Active) - 1
    BY <2>1, HoldingFinite, FS_RemoveElement
  <2>3. Cardinality(Holding) <= Cardinality(Active \ {d})
    BY <2>1, <2>2, FS_Subset
  <2>4. Cardinality(Active) \in Nat /\ Cardinality(Holding) \in Nat
    BY HoldingFinite, FS_CardinalityType
  <2> QED BY <2>2, <2>3, <2>4, LoaderAssumption DEF ActiveBound, SlotAccounting
<1> QED BY <1>1, <1>2, <1>3, Invariance, LimiterAccounting, PTL DEF Spec

=============================================================================
