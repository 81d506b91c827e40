--------------------------- MODULE HeapProfStartup ---------------------------
(***************************************************************************)
(* JVM_OnLoad of src/heapprof/heapprof.c and what print_counts then does   *)
(* with the report sink it set up.  The options string picks the log path; *)
(* open(2) may return a descriptor, -1 on failure, or 0 when the process   *)
(* was started with standard input closed; GetEnv and each EnableEvent may *)
(* fail.  A report is a sequence of rows; print_counts rewinds the stream, *)
(* truncates the file when log_fd is not 0, and writes the rows.  A write  *)
(* through a NULL FILE* crashes the process.                               *)
(***************************************************************************)
EXTENDS Integers, Sequences

CONSTANTS
  Options,   \* abstract option strings: NoOptions, "log=" with a path, others
  LogOpt,    \* the options "log=<path>" with a non-empty path
  FdOk,      \* a descriptor open(2) may return, other than 0
  Reports,   \* the row sequences a print_counts may write
  MaxPrints  \* bound on the number of reports

ASSUME LogOpt \subseteq Options /\ FdOk \in Nat \ {0}
ASSUME Reports \subseteq Seq(Nat) /\ MaxPrints \in Nat

\* stdio streams
NULL == "NULL"
Stream == "stream"

VARIABLES
  phase,     \* "unloaded", "running" (JNI_OK), "failed" (JNI_ERR), "exited"
  logPath,   \* "default" (/tmp/heapprof.log) or "option"
  logFd,     \* log_fd
  logFile,   \* log_file
  file,      \* the rows the log file holds
  written,   \* the rows the last print_counts wrote
  prints,    \* reports written so far
  crashed    \* the process died on a NULL stream

vars == <<phase, logPath, logFd, logFile, file, written, prints, crashed>>

\* Mutant: the strlen(options) > 4 test is left out, so "log=" selects
\* the empty path.
PathOfNoLength(opt) ==
  IF opt \in LogOpt THEN "option" ELSE IF opt = "log=" THEN "empty" ELSE "default"

\* the log path JVM_OnLoad settles on
PathOf(opt) == IF opt \in LogOpt THEN "option" ELSE "default"

\* JVM_OnLoad in one step: the path from the options, open(2) answering
\* fd, fdopen giving NULL for -1, exit(1) on !log_fd, then GetEnv and the
\* EnableEvent calls, any of which may return JNI_ERR.
OnLoad(opt, fd, jvmOk) ==
  /\ phase = "unloaded"
  /\ logPath' = PathOf(opt)
  /\ logFd' = fd
  /\ IF fd = 0
     THEN /\ phase' = "exited"
          /\ UNCHANGED logFile
     ELSE /\ logFile' = IF fd = -1 THEN NULL ELSE Stream
          /\ phase' = IF jvmOk THEN "running" ELSE "failed"
  /\ UNCHANGED <<file, written, prints, crashed>>

PrintCounts(rows) ==
  /\ phase = "running" /\ ~crashed /\ prints < MaxPrints
  /\ prints' = prints + 1
  /\ IF logFile = NULL
     THEN /\ crashed' = TRUE
          /\ UNCHANGED <<file, written>>
     ELSE /\ file' = IF logFd # 0 THEN rows
                     ELSE rows \o SubSeq(file, Len(rows) + 1, Len(file))
          /\ written' = rows
          /\ UNCHANGED crashed
  /\ UNCHANGED <<phase, logPath, logFd, logFile>>

Init ==
  /\ phase = "unloaded"
  /\ logPath = "default"
  /\ logFd = 0
  /\ logFile = NULL
  /\ file = <<>>
  /\ written = <<>>
  /\ prints = 0
  /\ crashed = FALSE

Next ==
  \/ \E opt \in Options, fd \in {-1, 0, FdOk}, ok \in BOOLEAN : OnLoad(opt, fd, ok)
  \/ \E rows \in Reports : PrintCounts(rows)

\* the process may stop: after exit(1), a failed load, a crash, or the
\* last report within the bound
Spec == Init /\ [][Next]_vars

TypeOK ==
  /\ phase \in {"unloaded", "running", "failed", "exited"}
  /\ logPath \in {"default", "option"}
  /\ logFd \in {-1, 0, FdOk}
  /\ logFile \in {NULL, Stream}
  /\ file \in Seq(Nat) /\ written \in Seq(Nat)
  /\ prints \in 0 .. MaxPrints

SinkUsable ==
  phase = "running" => logFile # NULL

=============================================================================
