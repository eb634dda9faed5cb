---------------------------- MODULE VerdictProofs ----------------------------
(***************************************************************************)
(* Proofs about Verdict, for every output, every limit on the lines that   *)
(* are kept and every expectation of no more lines than that.              *)
(*                                                                         *)
(* VerdictInv is inductive: what the scanner has kept is a prefix of the   *)
(* output (Prefix), the scan ends at the first obstacle (Obstacle), and    *)
(* the comparison has so far found no difference or has found one          *)
(* (Comparison).                                                           *)
(***************************************************************************)
EXTENDS Verdict, SequenceTheorems, TLAPS

VerdictType ==
  /\ written \in Seq(Line) /\ expected \in Seq(Line) /\ stdin \in Seq(Line)
  /\ lines \in Seq(Line)
  /\ i \in 0 .. Len(expected)
  /\ pc \in {"scan", "compare", "loop", "done"}

\* The lines that are kept are the first ones written, and short enough.
Prefix ==
  /\ Len(lines) <= Len(written) /\ Len(lines) <= MaxLines
  /\ \A k \in 1 .. Len(lines) :
       lines[k] = Text(written[k]) /\ written[k].body \notin TooLong

\* The scan goes on below the limit, and ends at it or when there is no token.
Obstacle ==
  IF pc = "scan" THEN Len(lines) < MaxLines ELSE Len(lines) = MaxLines \/ ~CanScan

Judged == status = "Finished" /\ HasTest

\* No difference was found so far; at the end the verdict is decided.
Comparison ==
  /\ pc \in {"scan", "compare"} => i = 0
  /\ pc = "loop" => /\ Judged /\ verdict = "TestPassed"
                    /\ Len(lines) = Len(expected)
                    /\ \A k \in 1 .. i : lines[k] = expected[k]
  /\ pc = "done" => verdict = IF ~Judged THEN "NoTest"
                              ELSE IF lines = expected THEN "TestPassed" ELSE "TestFailed"

VerdictInv == VerdictType /\ Prefix /\ Obstacle /\ Comparison

-----------------------------------------------------------------------------
(* Lemmas *)

\* The inputs are sequences of lines, and the scanner keeps lines.
LEMMA LinesType ==
  ASSUME NEW n \in Nat, NEW s \in Lines(n)
  PROVE  s \in Seq(Line)
<1>1. PICK k \in 0 .. n : s \in [1 .. k -> Line]  BY DEF Lines
<1>2. k \in Nat  BY <1>1
<1> QED BY <1>1, <1>2

\* Dropping a carriage return leaves a line.
LEMMA TextType ==
  ASSUME NEW line \in Line
  PROVE  Text(line) \in Line
BY DEF Line, Text

\* A prefix that ends at the first obstacle is the output that is to be kept:
\* the maximum in KeptLength is its length.
LEMMA PrefixIsKept ==
  ASSUME VerdictType, Prefix, Obstacle, pc # "scan"
  PROVE  lines = Kept
<1> USE VerdictAssumption
<1> DEFINE n == Len(lines)
           S == {m \in 0 .. Len(written) :
                   m <= MaxLines /\ \A k \in 1 .. m : written[k].body \notin TooLong}
<1>1. n \in Nat /\ Len(written) \in Nat  BY DEF VerdictType
<1>2. n \in S  BY <1>1 DEF Prefix
<1>3. \A m \in S : m <= n
  <2> SUFFICES ASSUME NEW m \in S, m > n PROVE FALSE
    BY <1>1
  <2>1. n + 1 \in 1 .. m /\ n < Len(written) /\ n < MaxLines  BY <1>1
  <2>2. written[n + 1].body \notin TooLong  BY <2>1
  <2>3. CanScan  BY <2>1, <2>2 DEF CanScan
  <2> QED BY <1>1, <2>1, <2>3 DEF Obstacle
<1> HIDE DEF n
<1>4. \A m \in S : m \in Nat  BY <1>1
<1> HIDE DEF S
<1>5. Max(S) \in S /\ \A m \in S : Max(S) >= m
  <2>1. \E x \in S : \A y \in S : x >= y  BY <1>2, <1>3, <1>4
  <2> QED BY <2>1 DEF Max
<1>6. Max(S) = n
  <2>1. PICK x \in S : x = Max(S) /\ \A m \in S : x >= m  BY <1>5
  <2>2. x \in Nat /\ x <= n /\ x >= n  BY <1>2, <1>3, <1>4, <2>1
  <2> QED BY <1>1, <2>1, <2>2
<1>7. KeptLength = n  BY <1>6 DEF KeptLength, S
<1>8. lines = [k \in 1 .. n |-> lines[k]]  BY DEF VerdictType, n
<1>9. \A k \in 1 .. n : lines[k] = Text(written[k])  BY DEF Prefix, n
<1> QED BY <1>7, <1>8, <1>9 DEF Kept

\* Two sequences of lines are the same when they are line by line.
LEMMA SameLines ==
  ASSUME NEW s \in Seq(Line), NEW t \in Seq(Line), Len(s) = Len(t),
         \A k \in 1 .. Len(t) : s[k] = t[k]
  PROVE  s = t
BY SeqEqual

-----------------------------------------------------------------------------
(* The steps *)

\* The scanner keeps one line more.
LEMMA ScanKeeps ==
  ASSUME VerdictInv, Scan
  PROVE  VerdictInv'
<1> USE VerdictAssumption DEF VerdictInv
<1> DEFINE n == Len(lines)
           t == Text(written[n + 1])
<1>1. /\ pc = "scan" /\ n < Len(written) /\ written[n + 1].body \notin TooLong
      /\ lines' = Append(lines, t)
      /\ pc' = IF Len(lines') >= MaxLines THEN "compare" ELSE "scan"
      /\ UNCHANGED <<written, status, stdin, expected, i, verdict>>
  BY DEF Scan, CanScan, inputs
<1>2. n \in Nat /\ Len(written) \in Nat /\ n < MaxLines  BY <1>1 DEF VerdictType, Obstacle
<1>3. written[n + 1] \in Line  BY <1>1, <1>2 DEF VerdictType
<1>4. t \in Line  BY <1>3, TextType
<1>5. /\ lines' \in Seq(Line) /\ Len(lines') = n + 1
      /\ lines'[n + 1] = t /\ \A k \in 1 .. n : lines'[k] = lines[k]
  BY <1>1, <1>4, AppendProperties DEF VerdictType
<1>6. VerdictType'  BY <1>1, <1>5 DEF VerdictType
<1>7. Prefix'
  <2>1. \A k \in 1 .. n + 1 : k \in 1 .. n \/ k = n + 1  BY <1>2
  <2>2. ASSUME NEW k \in 1 .. n + 1
        PROVE  lines'[k] = Text(written[k]) /\ written[k].body \notin TooLong
    BY <1>1, <1>5, <2>1, <2>2 DEF Prefix
  <2> QED BY <1>1, <1>2, <1>5, <2>2 DEF Prefix
<1>8. Obstacle'  BY <1>1, <1>2, <1>5 DEF Obstacle
<1>9. Comparison'  BY <1>1 DEF Comparison
<1> QED BY <1>6, <1>7, <1>8, <1>9

\* GetResponse compares another line.
LEMMA CompareLineKeeps ==
  ASSUME VerdictInv, CompareLine
  PROVE  VerdictInv'
<1> USE VerdictAssumption DEF VerdictInv
<1>1. /\ pc = "loop" /\ i < Len(expected) /\ i' = i + 1
      /\ UNCHANGED <<written, status, stdin, expected, lines>>
  BY DEF CompareLine, Judge, inputs
<1>2. /\ i \in Nat /\ Len(expected) \in Nat /\ i + 1 \in 1 .. Len(expected)
      /\ \A k \in 1 .. i + 1 : k \in 1 .. i \/ k = i + 1
  BY <1>1 DEF VerdictType
<1>3. pc' \in {"loop", "done"}  BY DEF CompareLine, Judge
<1>4. VerdictType'  BY <1>1, <1>2, <1>3 DEF VerdictType
<1>5. Prefix'  BY <1>1 DEF Prefix
<1>6. Obstacle'  BY <1>1, <1>3 DEF Obstacle, CanScan
<1>7. Judged' /\ Judged  BY <1>1 DEF Comparison, Judged, HasTest
<1>8. CASE lines[i + 1] # expected[i + 1]
  <2>1. pc' = "done" /\ verdict' = "TestFailed"  BY <1>8 DEF CompareLine, Judge
  <2>2. lines # expected  BY <1>8
  <2>3. Comparison'  BY <1>1, <1>7, <2>1, <2>2 DEF Comparison
  <2> QED BY <1>4, <1>5, <1>6, <2>3
<1>9. CASE lines[i + 1] = expected[i + 1]
  <2>1. pc' = "loop" /\ verdict' = verdict  BY <1>9 DEF CompareLine, Judge
  <2>2. \A k \in 1 .. i' : lines'[k] = expected'[k]  BY <1>1, <1>2, <1>9 DEF Comparison
  <2>3. Comparison'  BY <1>1, <1>7, <2>1, <2>2 DEF Comparison
  <2> QED BY <1>4, <1>5, <1>6, <2>3
<1> QED BY <1>8, <1>9

\* The steps before the loop and after it.
LEMMA OtherKeeps ==
  ASSUME VerdictInv, ScanEnds \/ NotJudged \/ Compare \/ Compared
  PROVE  VerdictInv'
<1> USE VerdictAssumption DEF VerdictInv
<1>1. UNCHANGED <<written, status, stdin, expected, lines, i>>
  BY DEF ScanEnds, NotJudged, Compare, Compared, Judge, inputs
<1>2. Prefix'  BY <1>1 DEF Prefix
<1>3. Judged' = Judged /\ CanScan' = CanScan  BY <1>1 DEF Judged, HasTest, CanScan
<1>4. CASE ScanEnds
  BY <1>1, <1>2, <1>3, <1>4 DEF ScanEnds, VerdictType, Obstacle, Comparison
<1>5. CASE NotJudged
  BY <1>1, <1>2, <1>3, <1>5 DEF NotJudged, Judge, VerdictType, Obstacle, Comparison, Judged
<1>6. CASE Compare
  <2>1. pc = "compare" /\ Judged /\ i = 0 /\ pc' \in {"loop", "done"}
    BY <1>6 DEF Compare, Judge, Judged, Comparison
  <2>2. VerdictType' /\ Obstacle'  BY <1>1, <1>3, <2>1 DEF VerdictType, Obstacle
  <2>3. CASE Len(lines) # Len(expected)
    <3>1. pc' = "done" /\ verdict' = "TestFailed"  BY <1>6, <2>3 DEF Compare, Judge
    <3>2. lines # expected  BY <2>3
    <3> QED BY <1>1, <1>2, <1>3, <2>1, <2>2, <3>1, <3>2 DEF Comparison
  <2>4. CASE Len(lines) = Len(expected)
    <3>1. pc' = "loop" /\ verdict' = "TestPassed"  BY <1>6, <2>4 DEF Compare, Judge
    <3> QED BY <1>1, <1>2, <1>3, <2>1, <2>2, <2>4, <3>1 DEF Comparison
  <2> QED BY <2>3, <2>4
<1>7. CASE Compared
  <2>1. pc = "loop" /\ i = Len(expected) /\ pc' = "done" /\ verdict' = verdict
    BY <1>7 DEF Compared, Judge
  <2>2. lines = expected  BY <2>1, SameLines DEF VerdictType, Comparison
  <2>3. Judged /\ verdict = "TestPassed"  BY <2>1 DEF Comparison
  <2> QED BY <1>1, <1>2, <1>3, <2>1, <2>2, <2>3 DEF VerdictType, Obstacle, Comparison
<1> QED BY <1>4, <1>5, <1>6, <1>7

-----------------------------------------------------------------------------
(* The theorems *)

\* The invariant over the scanner and the comparison is inductive.
THEOREM VerdictInvariance == Spec => []VerdictInv
<1>1. Init => VerdictInv
  <2> SUFFICES ASSUME Init PROVE VerdictInv  OBVIOUS
  <2> USE VerdictAssumption
  <2>1. /\ written \in Lines(MaxWritten) /\ stdin \in Lines(1) /\ expected \in Lines(MaxLines)
        /\ pc = "scan" /\ lines = <<>> /\ i = 0
    BY DEF Init
  <2>2. written \in Seq(Line) /\ stdin \in Seq(Line) /\ expected \in Seq(Line)
    BY <2>1, LinesType
  <2>3. lines \in Seq(Line) /\ Len(lines) = 0  BY <2>1
  <2> QED BY <2>1, <2>2, <2>3 DEF VerdictInv, VerdictType, Prefix, Obstacle, Comparison
<1>2. VerdictInv /\ [Next]_vars => VerdictInv'
  <2> SUFFICES ASSUME VerdictInv, [Next]_vars PROVE VerdictInv'  OBVIOUS
  <2>1. CASE UNCHANGED vars
    BY <2>1 DEF vars, inputs, VerdictInv, VerdictType, Prefix, Obstacle, Comparison, CanScan,
                Judged, HasTest
  <2> QED BY <2>1, ScanKeeps, CompareLineKeeps, OtherKeeps DEF Next
<1> QED BY <1>1, <1>2, PTL DEF Spec

\* The scanner loop of runProject keeps the lines before the first one that is
\* too long, up to the limit, and no other.
THEOREM OutputIsExact == Spec => []KeptExact
<1>1. VerdictInv => KeptExact  BY PrefixIsKept DEF VerdictInv, KeptExact
<1> QED BY <1>1, VerdictInvariance, PTL

\* A passed test is a finished run that kept exactly the expected lines, a
\* finished run with expected output passes whenever it kept them, and without
\* input and expected output there is no test.
THEOREM VerdictIsExact == Spec => []VerdictExact
<1>1. VerdictInv => VerdictExact
  <2> SUFFICES ASSUME VerdictInv, pc = "done" PROVE VerdictExact
    BY DEF VerdictExact
  <2>1. lines = Kept  BY PrefixIsKept DEF VerdictInv
  <2>2. /\ stdin = <<>> /\ expected = <<>> => ~HasTest
        /\ expected # <<>> => HasTest
    BY DEF VerdictInv, VerdictType, HasTest
  <2>3. verdict = IF ~Judged THEN "NoTest"
                  ELSE IF lines = expected THEN "TestPassed" ELSE "TestFailed"
    BY DEF VerdictInv, Comparison
  <2> QED BY <2>1, <2>2, <2>3 DEF Judged, VerdictExact
<1> QED BY <1>1, VerdictInvariance, PTL
=============================================================================
