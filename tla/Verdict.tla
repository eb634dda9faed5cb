------------------------------ MODULE Verdict ------------------------------
(***************************************************************************)
(* How a test is judged: the handler attaches a sandbox.Test to the        *)
(* request (queue.go), cars-runner keeps the first lines of the program's  *)
(* output (cars-runner/main.go), and Container.GetResponse compares them   *)
(* with the expected lines (sandbox.go).  Loader summarises the comparison *)
(* by the field match of runner-out.json.                                  *)
(***************************************************************************)
EXTENDS Naturals, Sequences, FiniteSetsExt

CONSTANTS
  Body,       \* the lines, but for a carriage return at their end
  TooLong,    \* those that do not fit into the scanner's buffer
  MaxLines,   \* the number of lines the runner keeps, 1000 in the code
  MaxWritten  \* bound on the lines a program writes

Line == [body : Body, cr : BOOLEAN]

\* bufio.ScanLines drops a carriage return before the newline.
Text(line) == [line EXCEPT !.cr = FALSE]

Lines(n) == UNION {[1 .. k -> Line] : k \in 0 .. n}

ASSUME VerdictAssumption ==
  /\ TooLong \subseteq Body
  /\ MaxLines \in Nat \ {0} /\ MaxWritten \in Nat

VARIABLES
  written,   \* the lines the program has written to its standard output
  status,    \* the status of the run
  stdin,     \* CompileMessage.StdinData
  expected,  \* CompileMessage.ExpectedStdoutData
  pc,        \* scan, compare, done
  lines,     \* outputLines, then ExecutionResponse.Output
  i,         \* the position of the loop
  verdict    \* testStatus

inputs == <<written, status, stdin, expected>>
vars == <<inputs, pc, lines, i, verdict>>

Init ==
  /\ written \in Lines(MaxWritten)
  /\ status \in {"Finished", "TimeLimitExceeded"}
  /\ stdin \in Lines(1)
  /\ expected \in Lines(MaxLines)
  /\ pc = "scan"
  /\ lines = <<>>
  /\ i = 0
  /\ verdict = "NoTest"

\* The condition under which sandboxRequest.Test is set.
HasTest == Len(stdin) > 0 \/ Len(expected) > 0

-----------------------------------------------------------------------------
(* runProject *)

\* scanner.Scan() has another token.
CanScan == Len(lines) < Len(written) /\ written[Len(lines) + 1].body \notin TooLong

\* Mutant: the count is looked at before the line is kept.
Scan_OneMore ==
  /\ pc = "scan" /\ CanScan
  /\ lines' = Append(lines, Text(written[Len(lines) + 1]))
  /\ pc' = IF Len(lines) >= MaxLines THEN "compare" ELSE "scan"
  /\ UNCHANGED <<inputs, i, verdict>>

\* One line more, and a break at the limit.
Scan ==
  /\ pc = "scan" /\ CanScan
  /\ lines' = Append(lines, Text(written[Len(lines) + 1]))
  /\ pc' = IF Len(lines') >= MaxLines THEN "compare" ELSE "scan"
  /\ UNCHANGED <<inputs, i, verdict>>

\* End of the file, or bufio.ErrTooLong, which nobody asks for.
ScanEnds ==
  /\ pc = "scan" /\ ~CanScan
  /\ pc' = "compare"
  /\ UNCHANGED <<inputs, lines, i, verdict>>

-----------------------------------------------------------------------------
(* GetResponse *)

Judge(v, next) ==
  /\ verdict' = v
  /\ pc' = next
  /\ UNCHANGED <<inputs, lines>>

NotJudged ==
  /\ pc = "compare" /\ ~(status = "Finished" /\ HasTest)
  /\ Judge("NoTest", "done") /\ UNCHANGED i

\* The lengths first.
Compare ==
  /\ pc = "compare" /\ status = "Finished" /\ HasTest
  /\ IF Len(lines) # Len(expected) THEN Judge("TestFailed", "done")
     ELSE Judge("TestPassed", "loop")
  /\ UNCHANGED i

\* Mutant: no break, so a later line can make up for an earlier one.
CompareLine_NoBreak ==
  /\ pc = "loop" /\ i < Len(expected)
  /\ i' = i + 1
  /\ Judge(IF lines[i + 1] # expected[i + 1] THEN "TestFailed" ELSE "TestPassed", "loop")

\* The loop over ExpectedStdoutData, with its break.
CompareLine ==
  /\ pc = "loop" /\ i < Len(expected)
  /\ i' = i + 1
  /\ IF lines[i + 1] # expected[i + 1] THEN Judge("TestFailed", "done")
     ELSE Judge(verdict, "loop")

Compared ==
  /\ pc = "loop" /\ i = Len(expected)
  /\ Judge(verdict, "done") /\ UNCHANGED i

Next == Scan \/ ScanEnds \/ NotJudged \/ Compare \/ CompareLine \/ Compared

Spec == Init /\ [][Next]_vars
-----------------------------------------------------------------------------
(* Properties *)

\* The output as the client should see it: everything before the first line
\* that is too long, at most MaxLines of it, without carriage returns.
KeptLength ==
  Max({n \in 0 .. Len(written) :
         n <= MaxLines /\ \A k \in 1 .. n : written[k].body \notin TooLong})
Kept == [k \in 1 .. KeptLength |-> Text(written[k])]

\* The scanner loop of runProject keeps exactly that output: the break at the
\* limit and the silent end at a line that is too long lose no line before
\* them and let none through after them.
KeptExact == pc # "scan" => lines = Kept

\* What a client can rely on.  A passed test is a finished run whose whole kept
\* output is the expected one; a finished run with expected output passes
\* exactly then; a request with neither input nor expected output has no test.
\* Two cases are left open, because the code and its documentation differ there
\* (consumer.proto:140-143): input without expected output is compared with no
\* lines at all, and a run that was stopped reports no test.
VerdictExact ==
  pc = "done" =>
    /\ verdict = "TestPassed" => status = "Finished" /\ Kept = expected
    /\ status = "Finished" /\ expected # <<>>
         => verdict = IF Kept = expected THEN "TestPassed" ELSE "TestFailed"
    /\ stdin = <<>> /\ expected = <<>> => verdict = "NoTest"
=============================================================================
