------------------------------ MODULE SqsProofs ------------------------------
(***************************************************************************)
(* Proofs about SqsQueue, for every set of messages, every number of       *)
(* goroutines and every size of a batch.                                   *)
(*                                                                         *)
(* SqsInv is inductive.  Its parts: the wait group counts the goroutines   *)
(* and the limiter has an element for each that is past it (Counts); a     *)
(* goroutine has a message that is no longer in the batch, and there is    *)
(* none while the loop polls (Owners); a message is deleted after its      *)
(* handler (DeletedMeansHandled, with Returned for the step before).       *)
(***************************************************************************)
EXTENDS SqsQueue, FiniteSetTheorems, TLAPS

\* The goroutines whose handler is past the limiter.
Holding == {w \in Worker : work[w].at = "handle"}

\* Only finitely many goroutines were ever started; each handler at work has
\* an element of the limiter, which RemoveContainer can take back.
Counts ==
  /\ IsFiniteSet(Busy)
  /\ Cardinality(Holding) <= limiter

\* A goroutine works for one message of the batch, and only between the receive
\* and the end of the wait.
Owners ==
  /\ \A w \in Busy : work[w].msg \in Message \ batch /\ work[w].at # "none"
  /\ loop \in {"check", "receive", "ended"} => Busy = {}

\* The deferred delete comes after the handler.
Returned == \A w \in Worker : work[w].at = "delete" => work[w].msg \in handled

SqsInv ==
  /\ TypeOK
  /\ Counts
  /\ Owners
  /\ NoOverlap
  /\ Returned
  /\ DeletedMeansHandled

-----------------------------------------------------------------------------
(* Lemmas *)

\* The handlers past the limiter are among the goroutines, so they can be
\* counted too.
LEMMA HoldingFinite ==
  ASSUME TypeOK, Counts
  PROVE  /\ Holding \subseteq Busy /\ IsFiniteSet(Holding)
         /\ Cardinality(Busy) \in Nat /\ Cardinality(Holding) \in Nat
<1>1. Holding \subseteq Busy  BY DEF Holding, Busy, Idle
<1>2. IsFiniteSet(Holding)  BY <1>1, FS_Subset DEF Counts
<1> QED BY <1>1, <1>2, FS_CardinalityType DEF Counts

\* A set and its counter when one goroutine enters it, and when one leaves it.
LEMMA CountOne ==
  ASSUME NEW S, IsFiniteSet(S), NEW w
  PROVE  /\ IsFiniteSet(S \cup {w}) /\ IsFiniteSet(S \ {w})
         /\ w \notin S => Cardinality(S \cup {w}) = Cardinality(S) + 1
         /\ w \in S => Cardinality(S \ {w}) = Cardinality(S) - 1
<1>1. /\ IsFiniteSet(S \cup {w})
      /\ Cardinality(S \cup {w}) = IF w \in S THEN Cardinality(S) ELSE Cardinality(S) + 1
  BY FS_AddElement
<1>2. /\ IsFiniteSet(S \ {w})
      /\ Cardinality(S \ {w}) = IF w \in S THEN Cardinality(S) - 1 ELSE Cardinality(S)
  BY FS_RemoveElement
<1> QED BY <1>1, <1>2

\* A step that leaves the goroutines alone leaves their sets alone.
LEMMA SameWork ==
  ASSUME UNCHANGED work
  PROVE  Busy' = Busy /\ Holding' = Holding
BY DEF Busy, Holding

\* What a goroutine's start, its steps and its end do to the two sets.
LEMMA WorkChange ==
  ASSUME TypeOK, NEW w \in Worker, NEW r, work' = [work EXCEPT ![w] = r]
  PROVE  /\ work' \in [Worker -> {r} \cup {work[v] : v \in Worker}]
         /\ work'[w] = r /\ \A v \in Worker \ {w} : work'[v] = work[v]
         /\ Busy' = IF r = Idle THEN Busy \ {w} ELSE Busy \cup {w}
         /\ Holding' = IF r.at = "handle" THEN Holding \cup {w} ELSE Holding \ {w}
<1>1. work'[w] = r /\ \A v \in Worker \ {w} : work'[v] = work[v]  BY DEF TypeOK
<1>2. work' \in [Worker -> {r} \cup {work[v] : v \in Worker}]  BY DEF TypeOK
<1>3. Busy' = IF r = Idle THEN Busy \ {w} ELSE Busy \cup {w}  BY <1>1 DEF Busy
<1>4. Holding' = IF r.at = "handle" THEN Holding \cup {w} ELSE Holding \ {w}
  BY <1>1 DEF Holding
<1> QED BY <1>1, <1>2, <1>3, <1>4

\* A step of a goroutine along its function keeps it busy with its message.
LEMMA Advance ==
  ASSUME TypeOK, NEW w \in Worker, work[w].at # "none",
         NEW p \in {"handle", "delete"}, work' = [work EXCEPT ![w].at = p]
  PROVE  /\ work' = [work EXCEPT ![w] = [msg |-> work[w].msg, at |-> p]]
         /\ work'[w] = [msg |-> work[w].msg, at |-> p]
         /\ \A v \in Worker \ {w} : work'[v] = work[v]
         /\ Busy' = Busy /\ w \in Busy
         /\ Holding' = IF p = "handle" THEN Holding \cup {w} ELSE Holding \ {w}
<1> DEFINE r == [msg |-> work[w].msg, at |-> p]
<1>1. [work[w] EXCEPT !.at = p] = r  BY DEF TypeOK
<1>2. work' = [work EXCEPT ![w] = r]  BY <1>1 DEF TypeOK
<1>3. r # Idle /\ r.at = p  BY DEF Idle
<1>4. w \in Busy  BY DEF Busy, Idle
<1> HIDE DEF r
<1>5. /\ work'[w] = r /\ \A v \in Worker \ {w} : work'[v] = work[v]
      /\ Busy' = Busy \cup {w}
      /\ Holding' = IF p = "handle" THEN Holding \cup {w} ELSE Holding \ {w}
  BY <1>2, <1>3, WorkChange
<1> QED BY <1>2, <1>4, <1>5 DEF r

-----------------------------------------------------------------------------
(* The steps *)

\* A step of the polling goroutine that starts no other keeps the invariant.
LEMMA PollKeeps ==
  ASSUME SqsInv, CheckStop \/ Receive \/ Launched \/ Wait \/ \E m \in Message : SkipEmpty(m)
  PROVE  SqsInv'
<1> USE SqsAssumption DEF SqsInv
<1>1. UNCHANGED <<work, limiter, handled, stopVars, crashes>>
  BY DEF CheckStop, Receive, Launched, Wait, SkipEmpty
<1>2. Busy' = Busy /\ Holding' = Holding  BY <1>1, SameWork
<1>3. Counts' /\ Returned' /\ NoOverlap'
  BY <1>1, <1>2 DEF Counts, Returned, NoOverlap
<1>4. CASE CheckStop
  BY <1>1, <1>2, <1>3, <1>4 DEF CheckStop, TypeOK, Owners, DeletedMeansHandled, stopVars
<1>5. CASE Receive
  <2>1. Busy = {} /\ Cardinality(Busy) = 0  BY <1>5, FS_EmptySet DEF Receive, Owners
  <2>2. /\ queue' \in [Message -> {"visible", "hidden", "deleted"}]
        /\ batch' \subseteq Message
        /\ \A m \in Message : queue'[m] = "deleted" => queue[m] = "deleted"
    BY <1>5 DEF Receive, TypeOK
  <2>3. loop' = "launch" /\ pending' = 0  BY <1>5 DEF Receive
  <2> QED BY <1>1, <1>2, <1>3, <2>1, <2>2, <2>3 DEF TypeOK, Owners, DeletedMeansHandled, stopVars
<1>6. CASE Launched
  BY <1>1, <1>2, <1>3, <1>6 DEF Launched, TypeOK, Owners, DeletedMeansHandled, stopVars
<1>7. CASE Wait
  <2>1. Busy = {}
    <3>1. Cardinality(Busy) = 0 /\ IsFiniteSet(Busy)  BY <1>7 DEF Wait, TypeOK, Counts
    <3> QED BY <3>1, FS_EmptySet
  <2> QED BY <1>1, <1>2, <1>3, <1>7, <2>1 DEF Wait, TypeOK, Owners, DeletedMeansHandled, stopVars
<1>8. ASSUME NEW m \in Message, SkipEmpty(m) PROVE SqsInv'
  BY <1>1, <1>2, <1>3, <1>8 DEF SkipEmpty, TypeOK, Owners, DeletedMeansHandled, stopVars
<1> QED BY <1>4, <1>5, <1>6, <1>7, <1>8

\* The goroutine that is started takes its message out of the batch: nobody
\* else has it.
LEMMA LaunchKeeps ==
  ASSUME SqsInv, NEW m \in Message, NEW w \in Worker, Launch(m, w)
  PROVE  SqsInv'
<1> USE SqsAssumption DEF SqsInv
<1> DEFINE r == [msg |-> m, at |-> "acquire"]
<1>1. r # Idle /\ r.at # "handle" /\ r.msg = m /\ r.at = "acquire"  BY DEF Idle
<1>2. /\ loop = "launch" /\ m \in batch /\ work[w] = Idle
      /\ batch' = batch \ {m} /\ pending' = pending + 1
      /\ work' = [work EXCEPT ![w] = r]
      /\ UNCHANGED <<queue, loop, limiter, handled, stopFlag, stopping, crashes>>
  BY DEF Launch, stopVars
<1>3. r \in [msg : Message \cup {None}, at : {"none", "acquire", "handle", "delete"}]  OBVIOUS
<1> HIDE DEF r
<1>4. /\ work'[w] = r /\ \A v \in Worker \ {w} : work'[v] = work[v]
      /\ Busy' = Busy \cup {w} /\ Holding' = Holding \ {w}
      /\ work' \in [Worker -> {r} \cup {work[v] : v \in Worker}]
  BY <1>1, <1>2, WorkChange
<1>5. w \notin Busy /\ w \notin Holding /\ Holding' = Holding
  BY <1>2, <1>4 DEF Busy, Holding, Idle
<1>6. IsFiniteSet(Busy') /\ Cardinality(Busy') = Cardinality(Busy) + 1
  BY <1>4, <1>5, CountOne DEF Counts
<1>7. TypeOK'
  <2>1. work' \in [Worker -> [msg : Message \cup {None},
                              at : {"none", "acquire", "handle", "delete"}]]
    BY <1>2, <1>3 DEF TypeOK
  <2> QED BY <1>2, <1>6, <2>1 DEF TypeOK
<1>8. Counts'  BY <1>2, <1>5, <1>6 DEF Counts
<1>9. Owners'  BY <1>1, <1>2, <1>4, <1>5 DEF Owners, Busy
<1>10. NoOverlap'
  BY <1>1, <1>2, <1>4, <1>5 DEF NoOverlap, Owners, Busy
<1>11. Returned'
  BY <1>1, <1>2, <1>4 DEF Returned
<1> QED BY <1>2, <1>7, <1>8, <1>9, <1>10, <1>11 DEF DeletedMeansHandled

\* A handler that gets past the limiter, and one that returns.
LEMMA HandlerKeeps ==
  ASSUME SqsInv, NEW w \in Worker, Acquire(w) \/ Handled(w) \/ HandledEarly(w)
  PROVE  SqsInv'
<1> USE SqsAssumption DEF SqsInv
<1>1. /\ work[w].at \in {"acquire", "handle"}
      /\ UNCHANGED <<queue, loop, batch, pending, stopFlag, stopping, crashes>>
  BY DEF Acquire, Handled, HandledEarly, At, loopVars, stopVars
<1>2. PICK p \in {"handle", "delete"} :
         /\ work' = [work EXCEPT ![w].at = p]
         /\ p = "handle" => Acquire(w)
         /\ p = "delete" => Handled(w) \/ HandledEarly(w)
  BY DEF Acquire, Handled, HandledEarly
<1> DEFINE r == [msg |-> work[w].msg, at |-> p]
<1>3. /\ work' = [work EXCEPT ![w] = r] /\ work'[w] = r
      /\ \A v \in Worker \ {w} : work'[v] = work[v]
      /\ Busy' = Busy /\ w \in Busy
      /\ Holding' = IF p = "handle" THEN Holding \cup {w} ELSE Holding \ {w}
  BY <1>1, <1>2, Advance
<1>4. r.msg = work[w].msg /\ r.at = p /\ work[w].msg \in Message  BY <1>3 DEF Owners
<1>5. r \in [msg : Message \cup {None}, at : {"none", "acquire", "handle", "delete"}]  BY <1>4
<1> HIDE DEF r
<1>6. \A v \in Worker : work'[v].msg = work[v].msg  BY <1>3, <1>4
<1>7. /\ limiter' \in 0 .. MaxInFlight /\ Cardinality(Holding') <= limiter'
      /\ handled \subseteq handled' /\ handled' \subseteq Message
      /\ p = "delete" => work[w].msg \in handled'
  <2>1. /\ IsFiniteSet(Holding) /\ Cardinality(Holding) \in Nat
        /\ Cardinality(Holding) <= limiter /\ limiter \in 0 .. MaxInFlight
        /\ handled \subseteq Message
    BY HoldingFinite DEF Counts, TypeOK
  <2>2. /\ w \notin Holding => Cardinality(Holding \cup {w}) = Cardinality(Holding) + 1
        /\ w \in Holding => Cardinality(Holding \ {w}) = Cardinality(Holding) - 1
    BY <2>1, CountOne
  <2>3. w \in Holding <=> work[w].at = "handle"  BY DEF Holding
  <2>4. CASE p = "handle"
    BY <1>2, <1>3, <2>1, <2>2, <2>3, <2>4 DEF Acquire, At
  <2>5. CASE p = "delete"
    <3>1. w \in Holding /\ Cardinality(Holding') = Cardinality(Holding) - 1
      BY <1>2, <1>3, <2>2, <2>3, <2>5 DEF Handled, HandledEarly, At
    <3>2. /\ handled' = handled \cup {work[w].msg}
          /\ limiter' \in {limiter - 1, limiter}
      BY <1>2, <2>5 DEF Handled, HandledEarly
    <3>3. Cardinality(Holding') \in Nat
      <4>1. IsFiniteSet(Holding')  BY <1>3, <2>1, <2>5, FS_Subset
      <4> QED BY <4>1, FS_CardinalityType
    <3> QED BY <1>4, <2>1, <2>5, <3>1, <3>2, <3>3
  <2> QED BY <2>4, <2>5
<1>8. TypeOK'
  <2>1. work' \in [Worker -> [msg : Message \cup {None},
                              at : {"none", "acquire", "handle", "delete"}]]
    BY <1>3, <1>5 DEF TypeOK
  <2> QED BY <1>1, <1>3, <1>7, <2>1 DEF TypeOK
<1>9. Counts'  BY <1>3, <1>7 DEF Counts
<1>10. Owners'
  <2>1. \A v \in Worker : work[v].at # "none" => work'[v].at # "none"  BY <1>3, <1>4
  <2> QED BY <1>1, <1>3, <1>6, <2>1 DEF Owners, Busy
<1>11. NoOverlap'  BY <1>3, <1>6 DEF NoOverlap, Busy
<1>12. Returned'  BY <1>3, <1>4, <1>7 DEF Returned
<1>13. DeletedMeansHandled'  BY <1>1, <1>7 DEF DeletedMeansHandled
<1> QED BY <1>8, <1>9, <1>10, <1>11, <1>12, <1>13

\* The deferred function deletes the message whose handler has returned, if the
\* call succeeds, and ends the goroutine.
LEMMA DeleteKeeps ==
  ASSUME SqsInv, NEW w \in Worker, Delete(w)
  PROVE  SqsInv'
<1> USE SqsAssumption DEF SqsInv
<1>1. /\ work[w].at = "delete" /\ pending' = pending - 1
      /\ work' = [work EXCEPT ![w] = Idle]
      /\ queue' \in {queue, [queue EXCEPT ![work[w].msg] = "deleted"]}
      /\ UNCHANGED <<loop, batch, limiter, handled, stopFlag, stopping, crashes>>
  BY DEF Delete, At, stopVars
<1>2. /\ Idle.at = "none"
      /\ Idle \in [msg : Message \cup {None}, at : {"none", "acquire", "handle", "delete"}]
  BY DEF Idle
<1>3. w \in Busy /\ w \notin Holding  BY <1>1, <1>2 DEF Busy, Holding
<1>4. /\ work'[w] = Idle /\ \A v \in Worker \ {w} : work'[v] = work[v]
      /\ Busy' = Busy \ {w} /\ Holding' = Holding
  <2>1. /\ work'[w] = Idle /\ \A v \in Worker \ {w} : work'[v] = work[v]
        /\ Busy' = Busy \ {w}
        /\ Holding' = IF Idle.at = "handle" THEN Holding \cup {w} ELSE Holding \ {w}
    BY <1>1, WorkChange
  <2> QED BY <1>2, <1>3, <2>1
<1>5. IsFiniteSet(Busy') /\ Cardinality(Busy') = Cardinality(Busy) - 1
  BY <1>3, <1>4, CountOne DEF Counts
<1>6. /\ queue' \in [Message -> {"visible", "hidden", "deleted"}]
      /\ \A m \in Message : queue'[m] = "deleted" => queue[m] = "deleted" \/ m = work[w].msg
  BY <1>1 DEF TypeOK
<1>7. TypeOK'
  <2>1. work' \in [Worker -> [msg : Message \cup {None},
                              at : {"none", "acquire", "handle", "delete"}]]
    BY <1>1, <1>2 DEF TypeOK
  <2> QED BY <1>1, <1>5, <1>6, <2>1 DEF TypeOK
<1>8. Counts'  BY <1>1, <1>4, <1>5 DEF Counts
<1>9. Owners'  BY <1>1, <1>4 DEF Owners, Busy
<1>10. NoOverlap'  BY <1>1, <1>4 DEF NoOverlap, Busy
<1>11. Returned'  BY <1>1, <1>2, <1>4 DEF Returned
<1>12. DeletedMeansHandled'
  BY <1>1, <1>6 DEF DeletedMeansHandled, Returned
<1> QED BY <1>7, <1>8, <1>9, <1>10, <1>11, <1>12

\* The rest of the system: a stop, a restart, a visibility timeout.
LEMMA OutsideKeeps ==
  ASSUME SqsInv, Stop \/ Restart \/ \E m \in Message : Reappear(m)
  PROVE  SqsInv'
<1> USE SqsAssumption DEF SqsInv
<1>1. CASE Stop
  <2>1. /\ UNCHANGED <<queue, loop, batch, pending, work, limiter, handled>>
        /\ UNCHANGED <<stopFlag, crashes>>
        /\ stopping' \in BOOLEAN
    BY <1>1 DEF Stop, loopVars
  <2>2. Busy' = Busy /\ Holding' = Holding  BY <2>1, SameWork
  <2> QED BY <2>1, <2>2 DEF TypeOK, Counts, Owners, NoOverlap, Returned, DeletedMeansHandled
<1>2. ASSUME NEW m \in Message, Reappear(m) PROVE SqsInv'
  <2>1. /\ UNCHANGED <<loop, batch, pending, work, limiter, handled>>
        /\ UNCHANGED <<stopFlag, stopping, crashes>>
        /\ queue' = [queue EXCEPT ![m] = "visible"]
    BY <1>2 DEF Reappear, loopVars, stopVars
  <2>2. Busy' = Busy /\ Holding' = Holding  BY <2>1, SameWork
  <2> QED BY <2>1, <2>2 DEF TypeOK, Counts, Owners, NoOverlap, Returned, DeletedMeansHandled
<1>3. CASE Restart
  <2>1. /\ loop' = "check" /\ batch' = {} /\ pending' = 0 /\ limiter' = 0
        /\ work' = [v \in Worker |-> Idle]
        /\ stopFlag' \in BOOLEAN /\ stopping' \in BOOLEAN
        /\ crashes' \in 0 .. MaxCrashes
        /\ UNCHANGED <<queue, handled>>
    <3>1. stopFlag' \in BOOLEAN /\ stopping' \in BOOLEAN  BY <1>3 DEF Restart
    <3> QED BY <1>3, <3>1 DEF Restart, TypeOK
  <2>2. /\ Idle.at = "none"
        /\ Idle \in [msg : Message \cup {None}, at : {"none", "acquire", "handle", "delete"}]
    BY DEF Idle
  <2>3. Busy' = {} /\ Holding' = {}  BY <2>1, <2>2 DEF Busy, Holding
  <2>4. /\ IsFiniteSet(Busy') /\ Cardinality(Busy') = 0 /\ Cardinality(Holding') = 0
    BY <2>3, FS_EmptySet
  <2>5. TypeOK'
    <3>1. work' \in [Worker -> [msg : Message \cup {None},
                                at : {"none", "acquire", "handle", "delete"}]]
      BY <2>1, <2>2
    <3> QED BY <2>1, <2>4, <3>1 DEF TypeOK
  <2>6. Counts' /\ Owners' /\ NoOverlap'  BY <2>1, <2>3, <2>4 DEF Counts, Owners, NoOverlap
  <2>7. Returned' /\ DeletedMeansHandled'  BY <2>1, <2>2 DEF Returned, DeletedMeansHandled
  <2> QED BY <2>5, <2>6, <2>7
<1> QED BY <1>1, <1>2, <1>3

-----------------------------------------------------------------------------
(* The theorems *)

\* The invariant over the loop, the wait group, the goroutines and the limiter
\* is inductive.
THEOREM SqsInvariance == Spec => []SqsInv
<1>1. Init => SqsInv
  <2> SUFFICES ASSUME Init PROVE SqsInv  OBVIOUS
  <2> USE SqsAssumption DEF Init
  <2>1. /\ Idle.at = "none"
        /\ Idle \in [msg : Message \cup {None}, at : {"none", "acquire", "handle", "delete"}]
    BY DEF Idle
  <2>2. Busy = {} /\ Holding = {}  BY <2>1 DEF Busy, Holding
  <2>3. IsFiniteSet(Busy) /\ Cardinality(Busy) = 0 /\ Cardinality(Holding) = 0
    BY <2>2, FS_EmptySet
  <2>4. TypeOK
    <3>1. stopFlag \in BOOLEAN /\ stopping \in BOOLEAN  OBVIOUS
    <3>2. work \in [Worker -> [msg : Message \cup {None},
                               at : {"none", "acquire", "handle", "delete"}]]
      BY <2>1
    <3> QED BY <2>3, <3>1, <3>2 DEF TypeOK
  <2>5. Counts /\ Owners /\ NoOverlap  BY <2>2, <2>3 DEF Counts, Owners, NoOverlap
  <2>6. Returned /\ DeletedMeansHandled  BY <2>1 DEF Returned, DeletedMeansHandled
  <2> QED BY <2>4, <2>5, <2>6 DEF SqsInv
<1>2. SqsInv /\ [Next]_vars => SqsInv'
  <2> SUFFICES ASSUME SqsInv, [Next]_vars PROVE SqsInv'  OBVIOUS
  <2>1. CASE PollStep
    BY <2>1, PollKeeps, LaunchKeeps DEF PollStep
  <2>2. ASSUME NEW w \in Worker, WorkerStep(w) PROVE SqsInv'
    BY <2>2, HandlerKeeps, DeleteKeeps DEF WorkerStep
  <2>3. CASE Stop \/ Restart \/ \E m \in Message : Reappear(m)
    BY <2>3, OutsideKeeps
  <2>4. CASE UNCHANGED vars
    BY <2>4 DEF vars, loopVars, stopVars, SqsInv, TypeOK, Counts, Owners, NoOverlap, Returned,
                DeletedMeansHandled, Busy, Holding
  <2> QED BY <2>1, <2>2, <2>3, <2>4 DEF Next
<1> QED BY <1>1, <1>2, PTL DEF Spec

\* The counter of the wait group is the number of goroutines of the batch, so
\* wg.Done never takes it below zero, which would panic (sqs.go:81).
THEOREM SqsTypeCorrect == Spec => []TypeOK
<1>1. SqsInv => TypeOK  BY DEF SqsInv
<1> QED BY <1>1, SqsInvariance, PTL

\* A loader never works on one message in two goroutines, although SQS shows
\* it again while its handler is at work.
THEOREM OneHandlerPerMessage == Spec => []NoOverlap
<1>1. SqsInv => NoOverlap  BY DEF SqsInv
<1> QED BY <1>1, SqsInvariance, PTL

\* A message leaves SQS only after a handler has returned for it, across
\* restarts of the loader.
THEOREM DeletedAfterHandled == Spec => []DeletedMeansHandled
<1>1. SqsInv => DeletedMeansHandled  BY DEF SqsInv
<1> QED BY <1>1, SqsInvariance, PTL

\* A message once deleted from SQS stays deleted, and no returned handler is
\* forgotten, whatever the loader and the visibility timeout do.
THEOREM DeletedForGood ==
  Spec => [][/\ handled \subseteq handled'
             /\ \A m \in Message : queue[m] = "deleted" => queue'[m] = "deleted"]_vars
<1> DEFINE Kept == /\ handled \subseteq handled'
                   /\ \A m \in Message : queue[m] = "deleted" => queue'[m] = "deleted"
<1>1. SqsInv /\ [Next]_vars => [Kept]_vars
  <2> SUFFICES ASSUME SqsInv, Next PROVE Kept  OBVIOUS
  <2>1. queue \in [Message -> {"visible", "hidden", "deleted"}]  BY DEF SqsInv, TypeOK
  <2>2. CASE PollStep
    BY <2>1, <2>2 DEF PollStep, CheckStop, Receive, Launched, Wait, SkipEmpty, Launch
  <2>3. ASSUME NEW w \in Worker, WorkerStep(w) PROVE Kept
    BY <2>1, <2>3 DEF WorkerStep, Acquire, Handled, HandledEarly, Delete, loopVars, stopVars
  <2>4. CASE Stop \/ Restart \/ \E m \in Message : Reappear(m)
    BY <2>1, <2>4 DEF Stop, Restart, Reappear
  <2> QED BY <2>2, <2>3, <2>4 DEF Next
<1> QED BY <1>1, SqsInvariance, PTL DEF Spec
=============================================================================
