---------------------------- MODULE RunnerProofs ----------------------------
(***************************************************************************)
(* Proofs about Runner, for every number of compile steps, every memory    *)
(* limit, every page size and every name of the program.                   *)
(*                                                                         *)
(* RunnerInv is inductive.  Stages ties the positions of the three         *)
(* goroutines to the state of the program, Causes says what an error that  *)
(* runProject has returned stands for, Measured bounds what the samples    *)
(* can show by what the program had.                                       *)
(***************************************************************************)
EXTENDS Runner, SequenceTheorems, TLAPS

-----------------------------------------------------------------------------
(* The line of /proc/<pid>/stat *)

Token == Nat \cup {Word}

\* What the parts of a line keep when they are joined.
LEMMA Join ==
  ASSUME NEW s \in Seq(Token), NEW t \in Seq(Token)
  PROVE  /\ s \o t \in Seq(Token)
         /\ Len(s \o t) = Len(s) + Len(t)
         /\ \A i \in 1 .. Len(s) : (s \o t)[i] = s[i]
<1>1. /\ s \o t \in Seq(Token)
      /\ Len(s \o t) = Len(s) + Len(t)
      /\ \A i \in 1 .. Len(s) + Len(t) :
           (s \o t)[i] = IF i <= Len(s) THEN s[i] ELSE t[i - Len(s)]
  BY ConcatProperties
<1>2. Len(s) \in Nat /\ Len(t) \in Nat  OBVIOUS
<1>3. \A i \in 1 .. Len(s) : i \in 1 .. Len(s) + Len(t) /\ i <= Len(s)  BY <1>2
<1> QED BY <1>1, <1>3

\* The tokens of a line are numbers or words, there are enough of them for
\* every field that statFromProc reads, and the resident set comes after as
\* many tokens as the name has words, and 22 more.
LEMMA Line ==
  ASSUME NEW w \in Nat \ {0}, NEW rss \in Nat, NEW vsize \in Nat
  PROVE  /\ StatFile(w, rss, vsize) \in Seq(Token)
         /\ Len(StatFile(w, rss, vsize)) = 51 + w
         /\ StatFile(w, rss, vsize)[23 + w] = rss
<1> DEFINE name == [i \in 1 .. w |-> Word]
           nums == [i \in 1 .. 19 |-> Other]
           rest == [i \in 1 .. 27 |-> Other]
           a == <<Other>> \o name
           b == a \o <<Word>>
           c == b \o nums
           d == c \o <<vsize, rss>>
           e == d \o rest
<1>1. name \in Seq(Token) /\ Len(name) = w
  BY DEF Token
<1>2. nums \in Seq(Token) /\ Len(nums) = 19
  BY DEF Token, Other
<1>3. rest \in Seq(Token) /\ Len(rest) = 27
  BY DEF Token, Other
<1>4. /\ <<Other>> \in Seq(Token) /\ <<Word>> \in Seq(Token) /\ <<vsize, rss>> \in Seq(Token)
      /\ Len(<<Other>>) = 1 /\ Len(<<Word>>) = 1 /\ Len(<<vsize, rss>>) = 2
  BY DEF Token, Other
<1>5. StatFile(w, rss, vsize) = e \o <<Word>>
  BY DEF StatFile
<1> HIDE DEF name, nums, rest, e
<1>6. a \in Seq(Token) /\ Len(a) = 1 + w
  BY <1>1, <1>4, Join
<1> HIDE DEF a
<1>7. b \in Seq(Token) /\ Len(b) = 2 + w
  BY <1>4, <1>6, Join
<1> HIDE DEF b
<1>8. c \in Seq(Token) /\ Len(c) = 21 + w
  <2>1. c \in Seq(Token) /\ Len(c) = Len(b) + Len(nums)  BY <1>2, <1>7, Join
  <2> QED BY <1>2, <1>7, <2>1
<1> HIDE DEF c
<1>9. d \in Seq(Token) /\ Len(d) = 23 + w
  BY <1>4, <1>8, Join
<1>10. d[23 + w] = rss
  <2>1. d[23 + w] = IF 23 + w <= Len(c) THEN c[23 + w] ELSE <<vsize, rss>>[23 + w - Len(c)]
    BY <1>4, <1>8, ConcatProperties
  <2> QED BY <1>8, <2>1
<1> HIDE DEF d
<1>11. e \in Seq(Token) /\ Len(e) = 50 + w /\ e[23 + w] = d[23 + w]
  <2>1. e \in Seq(Token) /\ Len(e) = Len(d) + Len(rest)  BY <1>3, <1>9, Join DEF e
  <2>2. 23 + w \in 1 .. Len(d)  BY <1>9
  <2>3. e[23 + w] = d[23 + w]  BY <1>3, <1>9, <2>2, Join DEF e
  <2> QED BY <1>3, <1>9, <2>1, <2>3
<1>12. e \o <<Word>> \in Seq(Token) /\ Len(e \o <<Word>>) = 51 + w
  BY <1>4, <1>11, Join
<1>13. (e \o <<Word>>)[23 + w] = e[23 + w]
  <2>1. 23 + w \in 1 .. Len(e) + Len(<<Word>>) /\ 23 + w <= Len(e)  BY <1>4, <1>11
  <2> QED BY <1>4, <1>11, <2>1, Join
<1> QED BY <1>5, <1>10, <1>11, <1>12, <1>13

\* Whatever the program's name is, a sample is a number.
LEMMA SampleType ==
  ASSUME NEW w \in Nat \ {0}, NEW rss \in Nat, NEW vsize \in Nat, NEW g \in Nat
  PROVE  statFromProc(w, rss, vsize, g) \in Nat
<1>1. Info(StatFile(w, rss, vsize), "Rss") \in Token
  <2>1. Index["Rss"] = 23  BY DEF Index
  <2>2. 24 \in 1 .. 51 + w  OBVIOUS
  <2>3. /\ StatFile(w, rss, vsize) \in Seq(Token)
        /\ 24 \in 1 .. Len(StatFile(w, rss, vsize))
    BY <2>2, Line
  <2>4. StatFile(w, rss, vsize)[24] \in Token  BY <2>3
  <2> QED BY <2>1, <2>4 DEF Info
<1>2. parseInt64(Info(StatFile(w, rss, vsize), "Rss")) \in Nat
  BY <1>1 DEF Token, parseInt64, Word
<1>3. PageSize(g) \in Nat
  BY DEF PageSize, parseInt64, Word, Unset
<1>4. \A a, b \in Nat : a * b \in Nat  OBVIOUS
<1> QED BY <1>2, <1>3, <1>4 DEF statFromProc

\* With a name of one word the Rss field is the resident set, counted in pages
\* of the size that was found.
LEMMA OneWord ==
  ASSUME NEW rss \in Nat, NEW vsize \in Nat, NEW g \in Nat
  PROVE  statFromProc(1, rss, vsize, g) = rss * PageSize(g)
<1>1. StatFile(1, rss, vsize)[24] = rss
  BY Line
<1>2. Info(StatFile(1, rss, vsize), "Rss") = rss
  BY <1>1 DEF Info, Index
<1>3. parseInt64(rss) = rss  BY DEF parseInt64, Word
<1> QED BY <1>2, <1>3 DEF statFromProc

-----------------------------------------------------------------------------
(* The inductive invariant *)

\* How far the three goroutines are tells what the program can be: it is
\* reaped before pidDone is closed, pidDone is closed before the stream ends,
\* and the stream ends before the main goroutine asks for the usage.
Stages ==
  /\ pc \in {"read", "compile", "compiled", "launch"} =>
       child = "none" /\ runtimeErr = "nil" /\ file = "none"
  /\ pc = "launch" => compileErr = "nil"
  /\ child = "none" => waiter = "none" /\ stream = "none" /\ ~killed
  /\ child \in {"running", "zombie"} <=> waiter = "waiting"
  /\ child = "reaped" <=> waiter \in {"reaped", "closed"}
  /\ stream = "closed" => waiter = "closed"
  /\ pc = "usage" => stream = "closed"
  /\ pc = "collect" => child = "reaped" /\ peak <= ExecutionMemory
  /\ pc \in {"watch", "usage", "collect"} =>
       child # "none" /\ compileErr = "nil" /\ runtimeErr = "nil"
  /\ pc # "exited" => file = "none"

\* What the errors of runProject stand for: no error means a program that
\* ended within its memory, a kill always leaves an error
\* behind, and a program that still runs was over its memory.
Causes ==
  /\ killed /\ pc \in {"watch", "usage", "collect"} => Done("run")
  /\ pc = "report" /\ child \in {"running", "zombie"} => runtimeErr = "memory"
  /\ killed /\ pc = "report" => runtimeErr \in {"memory", "deadline"}
  /\ pc = "report" /\ compileErr = "nil" /\ runtimeErr = "nil" =>
       child = "reaped" /\ ~killed /\ peak <= ExecutionMemory

\* As long as the name has one word, nothing that was measured is more than the
\* program had.
Measured ==
  /\ mem * machine.page <= peak
  /\ words = 1 => sample <= peak /\ consumption <= peak
  /\ words = 1 /\ runtimeErr = "memory" => peak > ExecutionMemory
  /\ words = 1 => MemoryVerdictSound

\* All of it, with the properties it is for.
RunnerInv ==
  /\ TypeOK /\ Stages /\ Causes /\ Measured
  /\ FinishedIsClean /\ KilledIsReported

\* The page size of the machine, and what getconf says of it.
LEMMA MachineType ==
  ASSUME TypeOK
  PROVE  /\ machine.page \in Nat \ {0} /\ machine.getconf \in Nat
         /\ PageSize(machine.getconf) \in {1, machine.page}
<1>1. machine.page \in Nat \ {0}  BY RunnerAssumption DEF TypeOK
<1>2. machine.getconf \in {machine.page, 0}  BY DEF TypeOK, Unset
<1> QED BY <1>1, <1>2 DEF PageSize, parseInt64, Unset, Word

\* No step breaks the types.
LEMMA TypeStep ==
  ASSUME TypeOK, Next
  PROVE  TypeOK'
<1> USE RunnerAssumption DEF TypeOK, mainVars, watchVars, childVars, Status, Error, Return
<1>1. CASE ReadConfig
  BY <1>1 DEF ReadConfig
<1>2. CASE CompileStep
  BY <1>2 DEF CompileStep
<1>3. CASE CompileEnds
  BY <1>3 DEF CompileEnds
<1>4. CASE Decide
  BY <1>4 DEF Decide
<1>5. CASE Launch
  BY <1>5 DEF Launch
<1>6. CASE LaunchFails
  BY <1>6 DEF LaunchFails
<1>7. CASE Watch
  <2>1. consumption' \in Nat  BY <1>7 DEF Watch, Larger
  <2>2. child' \in {"none", "running", "zombie", "reaped"} /\ mem' \in 0 .. MaxMemory
    BY <1>7 DEF Watch
  <2>3. killed' \in BOOLEAN  BY <1>7 DEF Watch
  <2> QED BY <1>7, <2>1, <2>2, <2>3 DEF Watch
<1>8. CASE WatchEnds
  BY <1>8 DEF WatchEnds
<1>9. CASE Usage
  BY <1>9 DEF Usage, Larger, LastCheck
<1>10. CASE Collect
  BY <1>10 DEF Collect
<1>11. CASE Report
  BY <1>11 DEF Report, ResponseCode, determineExecutionError
<1>12. CASE Wait
  BY <1>12 DEF Wait
<1>13. CASE CloseDone
  BY <1>13 DEF CloseDone
<1>14. CASE Stat
  <2>1. sample' \in Nat
    <3>1. words \in Nat \ {0} /\ mem \in Nat  OBVIOUS
    <3>2. (IF child = "zombie" THEN 0 ELSE Vsize) \in Nat  BY DEF Vsize
    <3>3. machine.getconf \in Nat  BY MachineType
    <3> QED BY <1>14, <3>1, <3>2, <3>3, SampleType DEF Stat
  <2> QED BY <1>14, <2>1 DEF Stat
<1>15. CASE StatFails
  BY <1>15 DEF StatFails
<1>16. CASE SendDone
  BY <1>16 DEF SendDone
<1>17. CASE Expire
  <2>1. PICK c \in {"main", "compile", "run"} : Fires(c)
    BY <1>17 DEF Expire, ExpireMain, ExpireCompile, ExpireRun
  <2> QED BY <2>1 DEF Fires, Context
<1>18. CASE CommandContext
  BY <1>18 DEF CommandContext
<1>19. CASE Use
  <2>1. \A a, b \in Nat : a * b \in Nat  OBVIOUS
  <2>2. mem' \in Nat /\ machine.page \in Nat  BY <1>19, MachineType DEF Use
  <2>3. mem' * machine.page \in Nat  BY <2>1, <2>2
  <2> QED BY <1>19, <2>3 DEF Use, Larger
<1>20. CASE Rename
  BY <1>20 DEF Rename
<1>21. CASE ProgramExits
  BY <1>21 DEF ProgramExits
<1>22. CASE ContainerKilled
  BY <1>22 DEF ContainerKilled
<1> QED
  BY <1>1, <1>2, <1>3, <1>4, <1>5, <1>6, <1>7, <1>8, <1>9, <1>10, <1>11, <1>12, <1>13, <1>14,
     <1>15, <1>16, <1>17, <1>18, <1>19, <1>20, <1>21, <1>22
  DEF Next, MainStep, WaiterStep, StreamStep

\* No goroutine gets ahead of the order that Stages states.
LEMMA StagesStep ==
  ASSUME TypeOK, Stages, Next
  PROVE  Stages'
<1> USE RunnerAssumption DEF TypeOK, Stages, mainVars, watchVars, childVars, Return, Alive
<1>1. CASE ReadConfig
  BY <1>1 DEF ReadConfig
<1>2. CASE CompileStep
  BY <1>2 DEF CompileStep
<1>3. CASE CompileEnds
  BY <1>3 DEF CompileEnds
<1>4. CASE Decide
  BY <1>4 DEF Decide
<1>5. CASE Launch
  BY <1>5 DEF Launch
<1>6. CASE LaunchFails
  BY <1>6 DEF LaunchFails
<1>7. CASE Watch
  BY <1>7 DEF Watch
<1>8. CASE WatchEnds
  BY <1>8 DEF WatchEnds
<1>9. CASE Usage
  BY <1>9 DEF Usage, Larger, LastCheck
<1>10. CASE Collect
  BY <1>10 DEF Collect
<1>11. CASE Report
  BY <1>11 DEF Report
<1>12. CASE Wait
  BY <1>12 DEF Wait
<1>13. CASE CloseDone
  BY <1>13 DEF CloseDone
<1>14. CASE Stat
  BY <1>14 DEF Stat
<1>15. CASE StatFails
  BY <1>15 DEF StatFails
<1>16. CASE SendDone
  BY <1>16 DEF SendDone
<1>17. CASE Expire
  BY <1>17 DEF Expire, ExpireMain, ExpireCompile, ExpireRun, Fires
<1>18. CASE CommandContext
  BY <1>18 DEF CommandContext
<1>19. CASE Use
  BY <1>19 DEF Use
<1>20. CASE Rename
  BY <1>20 DEF Rename
<1>21. CASE ProgramExits
  BY <1>21 DEF ProgramExits
<1>22. CASE ContainerKilled
  BY <1>22 DEF ContainerKilled
<1> QED
  BY <1>1, <1>2, <1>3, <1>4, <1>5, <1>6, <1>7, <1>8, <1>9, <1>10, <1>11, <1>12, <1>13, <1>14,
     <1>15, <1>16, <1>17, <1>18, <1>19, <1>20, <1>21, <1>22
  DEF Next, MainStep, WaiterStep, StreamStep

\* The errors keep their meaning, also while the program outlives runProject.
LEMMA CausesStep ==
  ASSUME TypeOK, Stages, Causes, Next
  PROVE  Causes'
<1> USE RunnerAssumption DEF TypeOK, Stages, Causes, mainVars, watchVars, childVars, Return,
        Alive, Done
<1>1. CASE ReadConfig
  BY <1>1 DEF ReadConfig
<1>2. CASE CompileStep
  BY <1>2 DEF CompileStep
<1>3. CASE CompileEnds
  BY <1>3 DEF CompileEnds
<1>4. CASE Decide
  BY <1>4 DEF Decide
<1>5. CASE Launch
  BY <1>5 DEF Launch
<1>6. CASE LaunchFails
  BY <1>6 DEF LaunchFails
<1>7. CASE Watch
  BY <1>7 DEF Watch
<1>8. CASE WatchEnds
  BY <1>8 DEF WatchEnds
<1>9. CASE Usage
  BY <1>9 DEF Usage, Larger, LastCheck
<1>10. CASE Collect
  BY <1>10 DEF Collect
<1>11. CASE Report
  BY <1>11 DEF Report
<1>12. CASE Wait
  BY <1>12 DEF Wait
<1>13. CASE CloseDone
  BY <1>13 DEF CloseDone
<1>14. CASE Stat
  BY <1>14 DEF Stat
<1>15. CASE StatFails
  BY <1>15 DEF StatFails
<1>16. CASE SendDone
  BY <1>16 DEF SendDone
<1>17. CASE Expire
  BY <1>17 DEF Expire, ExpireMain, ExpireCompile, ExpireRun, Fires
<1>18. CASE CommandContext
  BY <1>18 DEF CommandContext
<1>19. CASE Use
  BY <1>19 DEF Use
<1>20. CASE Rename
  BY <1>20 DEF Rename
<1>21. CASE ProgramExits
  BY <1>21 DEF ProgramExits
<1>22. CASE ContainerKilled
  BY <1>22 DEF ContainerKilled
<1> QED
  BY <1>1, <1>2, <1>3, <1>4, <1>5, <1>6, <1>7, <1>8, <1>9, <1>10, <1>11, <1>12, <1>13, <1>14,
     <1>15, <1>16, <1>17, <1>18, <1>19, <1>20, <1>21, <1>22
  DEF Next, MainStep, WaiterStep, StreamStep

\* Every sample is at most what the program had, as long as its name is one
\* word: the page size that was found is the machine's, or smaller.
LEMMA MeasuredStep ==
  ASSUME TypeOK, Stages, Measured, Next
  PROVE  Measured'
<1> USE RunnerAssumption DEF TypeOK, Stages, Measured, MemoryVerdictSound, mainVars,
        watchVars, childVars, Return, Alive
<1>1. CASE ReadConfig
  BY <1>1 DEF ReadConfig
<1>2. CASE CompileStep
  BY <1>2 DEF CompileStep
<1>3. CASE CompileEnds
  BY <1>3 DEF CompileEnds
<1>4. CASE Decide
  BY <1>4 DEF Decide
<1>5. CASE Launch
  BY <1>5 DEF Launch
<1>6. CASE LaunchFails
  BY <1>6 DEF LaunchFails
<1>7. CASE Watch
  <2>1. (mem' = mem \/ mem' = 0) => mem' * machine.page <= peak  BY MachineType
  <2>2. mem' = mem \/ mem' = 0  BY <1>7 DEF Watch
  <2> QED BY <1>7, <2>1, <2>2 DEF Watch, Larger
<1>8. CASE WatchEnds
  BY <1>8 DEF WatchEnds
<1>9. CASE Usage
  BY <1>9 DEF Usage, Larger, LastCheck
<1>10. CASE Collect
  BY <1>10 DEF Collect
<1>11. CASE Report
  BY <1>11 DEF Report, ResponseCode, determineExecutionError
<1>12. CASE Wait
  BY <1>12 DEF Wait
<1>13. CASE CloseDone
  BY <1>13 DEF CloseDone
<1>14. CASE Stat
  <2>1. words = 1 => sample' = mem * PageSize(machine.getconf)
    <3>1. mem \in Nat /\ (IF child = "zombie" THEN 0 ELSE Vsize) \in Nat  BY DEF Vsize
    <3> QED BY <1>14, <3>1, MachineType, OneWord DEF Stat
  <2>2. mem * PageSize(machine.getconf) <= mem * machine.page
    <3>1. \A a \in Nat, b \in Nat \ {0} : a * 1 <= a * b  OBVIOUS
    <3>2. mem \in Nat  OBVIOUS
    <3> QED BY <3>1, <3>2, MachineType
  <2>3. words = 1 => sample' <= peak  BY <2>1, <2>2, MachineType
  <2> QED BY <1>14, <2>3 DEF Stat
<1>15. CASE StatFails
  BY <1>15 DEF StatFails
<1>16. CASE SendDone
  BY <1>16 DEF SendDone
<1>17. CASE Expire
  BY <1>17 DEF Expire, ExpireMain, ExpireCompile, ExpireRun, Fires
<1>18. CASE CommandContext
  <2>1. mem' = 0 => mem' * machine.page <= peak  BY MachineType DEF TypeOK
  <2> QED BY <1>18, <2>1 DEF CommandContext
<1>19. CASE Use
  <2>1. \A a, b \in Nat : a * b \in Nat  OBVIOUS
  <2>2. mem' * machine.page \in Nat  BY <1>19, <2>1, MachineType DEF Use
  <2>3. peak <= peak' /\ mem' * machine.page <= peak' /\ peak' \in Nat
    BY <1>19, <2>2 DEF Use, Larger
  <2> QED BY <1>19, <2>3 DEF Use
<1>20. CASE Rename
  BY <1>20 DEF Rename
<1>21. CASE ProgramExits
  <2>1. mem' = 0 => mem' * machine.page <= peak  BY MachineType DEF TypeOK
  <2> QED BY <1>21, <2>1 DEF ProgramExits
<1>22. CASE ContainerKilled
  BY <1>22 DEF ContainerKilled
<1> QED
  BY <1>1, <1>2, <1>3, <1>4, <1>5, <1>6, <1>7, <1>8, <1>9, <1>10, <1>11, <1>12, <1>13, <1>14,
     <1>15, <1>16, <1>17, <1>18, <1>19, <1>20, <1>21, <1>22
  DEF Next, MainStep, WaiterStep, StreamStep

\* The two verdicts, at the moment they are written and after it.
LEMMA VerdictStep ==
  ASSUME TypeOK, Stages, Causes, FinishedIsClean, KilledIsReported, Next
  PROVE  FinishedIsClean' /\ KilledIsReported'
<1> USE RunnerAssumption DEF TypeOK, Stages, Causes, FinishedIsClean, KilledIsReported,
        mainVars, watchVars, childVars, Return, Alive
<1>1. CASE ReadConfig
  BY <1>1 DEF ReadConfig
<1>2. CASE CompileStep
  BY <1>2 DEF CompileStep
<1>3. CASE CompileEnds
  BY <1>3 DEF CompileEnds
<1>4. CASE Decide
  BY <1>4 DEF Decide
<1>5. CASE Launch
  BY <1>5 DEF Launch
<1>6. CASE LaunchFails
  BY <1>6 DEF LaunchFails
<1>7. CASE Watch
  BY <1>7 DEF Watch
<1>8. CASE WatchEnds
  BY <1>8 DEF WatchEnds
<1>9. CASE Usage
  BY <1>9 DEF Usage
<1>10. CASE Collect
  BY <1>10 DEF Collect
<1>11. CASE Report
  BY <1>11 DEF Report, ResponseCode, determineExecutionError
<1>12. CASE Wait
  BY <1>12 DEF Wait
<1>13. CASE CloseDone
  BY <1>13 DEF CloseDone
<1>14. CASE Stat
  BY <1>14 DEF Stat
<1>15. CASE StatFails
  BY <1>15 DEF StatFails
<1>16. CASE SendDone
  BY <1>16 DEF SendDone
<1>17. CASE Expire
  BY <1>17 DEF Expire, ExpireMain, ExpireCompile, ExpireRun, Fires
<1>18. CASE CommandContext
  BY <1>18 DEF CommandContext
<1>19. CASE Use
  BY <1>19 DEF Use
<1>20. CASE Rename
  BY <1>20 DEF Rename
<1>21. CASE ProgramExits
  BY <1>21 DEF ProgramExits
<1>22. CASE ContainerKilled
  BY <1>22 DEF ContainerKilled
<1> QED
  BY <1>1, <1>2, <1>3, <1>4, <1>5, <1>6, <1>7, <1>8, <1>9, <1>10, <1>11, <1>12, <1>13, <1>14,
     <1>15, <1>16, <1>17, <1>18, <1>19, <1>20, <1>21, <1>22
  DEF Next, MainStep, WaiterStep, StreamStep

-----------------------------------------------------------------------------
(* The theorems *)

\* The invariant over goroutines, contexts, program and measurements is
\* inductive.
THEOREM RunnerInvariance == Spec => []RunnerInv
<1>1. Init => RunnerInv
  <2> SUFFICES ASSUME Init PROVE RunnerInv  OBVIOUS
  <2> USE RunnerAssumption DEF Init
  <2>1. machine.page \in Page /\ machine.getconf \in {machine.page, Unset}  OBVIOUS
  <2>2. TypeOK
    <3>1. killed \in BOOLEAN  OBVIOUS
    <3>2. step \in 0 .. CompileSteps /\ mem \in 0 .. MaxMemory /\ words \in 1 .. MaxWords
      OBVIOUS
    <3> QED BY <2>1, <3>1, <3>2 DEF TypeOK, Error, Context
  <2>3. Stages /\ Causes  BY DEF Stages, Causes, Done
  <2>4. Measured
    <3>1. mem * machine.page = 0  BY <2>2, MachineType
    <3> QED BY <3>1 DEF Measured, MemoryVerdictSound
  <2> QED BY <2>2, <2>3, <2>4 DEF RunnerInv, FinishedIsClean, KilledIsReported
<1>2. RunnerInv /\ [Next]_vars => RunnerInv'
  <2>1. CASE Next
    BY <2>1, TypeStep, StagesStep, CausesStep, MeasuredStep, VerdictStep DEF RunnerInv
  <2>2. CASE UNCHANGED vars
    BY <2>2 DEF vars, mainVars, watchVars, childVars, RunnerInv, TypeOK, Stages, Causes,
               Done, Measured, MemoryVerdictSound, FinishedIsClean, KilledIsReported
  <2> QED BY <2>1, <2>2
<1> QED BY <1>1, <1>2, PTL DEF Spec

\* cars-runner is type correct; runner-out.json holds one of four statuses.
THEOREM RunnerTypeCorrect == Spec => []TypeOK
<1>1. RunnerInv => TypeOK  BY DEF RunnerInv
<1> QED BY <1>1, RunnerInvariance, PTL

\* runProject never reads the ProcessState of a program that was not waited for
\* (main.go:207).
THEOREM UsageIsSafe == Spec => []UsageAfterWait
<1>1. RunnerInv => UsageAfterWait
  BY DEF RunnerInv, Stages, UsageAfterWait
<1> QED BY <1>1, RunnerInvariance, PTL

\* Finished is only written for a program that ended by itself and never had
\* more memory than allowed.
THEOREM FinishedIsJustified == Spec => []FinishedIsClean
<1>1. RunnerInv => FinishedIsClean  BY DEF RunnerInv
<1> QED BY <1>1, RunnerInvariance, PTL

\* MemoryConstraintExceeded is only written for a program that was over its
\* limit, if its name has no blank.
THEOREM MemoryIsJustified == Spec => []MemoryVerdictSound
<1>1. RunnerInv => MemoryVerdictSound
  BY DEF RunnerInv, Measured, MemoryVerdictSound
<1> QED BY <1>1, RunnerInvariance, PTL

\* A program that the runner has killed is never reported in another way than
\* over its time or its memory.
THEOREM KillIsReported == Spec => []KilledIsReported
<1>1. RunnerInv => KilledIsReported  BY DEF RunnerInv
<1> QED BY <1>1, RunnerInvariance, PTL
=============================================================================
