------------------------------ MODULE ProcStat ------------------------------
(***************************************************************************)
(* internal/pid/pid.go: how GetStat gets the memory of a process out of    *)
(* the line in /proc/<pid>/stat.  Memory is counted in units of the        *)
(* default page size, 4096 bytes.                                          *)
(***************************************************************************)
EXTENDS Integers, Sequences

Unset == 0    \* what getconf says where there is no getconf
Word  == -1   \* a token that is not a number
Other == 1    \* the fields nobody looks at

\* strconv.ParseInt, whose error is dropped: zero for what is not a number.
parseInt64(token) == IF token = Word THEN 0 ELSE token

\* Set by init; without getconf the default stays.
PageSize(getconf) == IF getconf = Unset THEN 1 ELSE parseInt64(getconf)

\* The line, split at its blanks: pid, the words of the name, state, 19
\* numbers, vsize, rss, and 28 more, the last of which ends in a newline.
StatFile(words, rss, vsize) ==
  <<Other>> \o [i \in 1 .. words |-> Word] \o <<Word>> \o [i \in 1 .. 19 |-> Other]
    \o <<vsize, rss>> \o [i \in 1 .. 27 |-> Other] \o <<Word>>

\* The positions of the fields in infos.
Index == [Pid |-> 0, Comm |-> 1, State |-> 2, Starttime |-> 21, Vsize |-> 22,
          Rss |-> 23, Rsslim |-> 24, ExitCode |-> 51]

\* Mutant: the fields are counted from one.
Info_FromOne(infos, field) == infos[Index[field]]

\* infos[i]: Go counts from zero.
Info(infos, field) == infos[Index[field] + 1]

\* SysInfo.Memory
statFromProc(words, rss, vsize, getconf) ==
  parseInt64(Info(StatFile(words, rss, vsize), "Rss")) * PageSize(getconf)
=============================================================================
