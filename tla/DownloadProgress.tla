-------------------------- MODULE DownloadProgress --------------------------
(***************************************************************************)
(* What is known of a running download: aria2OutputWriter (aria2.go) cuts  *)
(* what aria2c prints into lines, and the lines that tell a progress are   *)
(* recorded in the `downloads` map and in the reference's row, as are the  *)
(* statuses startReferenceDownload and its watcher set (app.go).  The      *)
(* request handler, the goroutine that copies the output and the watcher   *)
(* run at the same time; the map has a lock, a row is updated after it.    *)
(***************************************************************************)
EXTENDS Naturals, Sequences, SequencesExt

CONSTANTS
  Text,     \* what aria2c would print: progress numbers and line ends
  End,      \* a line end, "\r" or "\n"
  Full      \* the progress of a download with every byte

ASSUME ProgressAssumption ==
  /\ Text \in Seq(Nat)
  /\ Full \in Nat \ {0}

\* A line tells the progress n when it is complete: both of its halves are n.
ProgressOf(line) ==
  IF Len(line) = 2 /\ line[1] = line[2] /\ line[1] > 0 THEN <<line[1]>> ELSE <<>>

VARIABLES
  written,   \* how much of Text aria2c has printed
  exit,      \* aria2c: none (not started), running, ok or failed
  pending,   \* the writer's incomplete line
  updates,   \* progress read from the output and not yet recorded
  memory,    \* a.downloads[id]
  row,       \* the columns of the import_references row
  wpc,       \* output writer: idle, emitting, or storing (memory is set, the row is not)
  hpc,       \* where the handler is
  apc,       \* where the watcher is
  copy,      \* the handler's or the watcher's copy of memory
  told,      \* history: the progress recorded, in order
  raced      \* history: the last progress was recorded before the started status was

progressVars ==
  <<written, exit, pending, updates, memory, row, wpc, hpc, apc, copy, told, raced>>
output == <<written, pending, updates, told>>

Unknown == [status |-> "none", progress |-> 0]

ProgressInit ==
  /\ written = 0
  /\ exit = "none"
  /\ pending = <<>>
  /\ updates = <<>>
  /\ memory = Unknown
  /\ row = Unknown
  /\ wpc = "idle"
  /\ hpc = "starting"
  /\ apc = "none"
  /\ copy = Unknown
  /\ told = <<>>
  /\ raced = FALSE

-----------------------------------------------------------------------------
(* aria2OutputWriter.                                                      *)

\* One more character: the progress of the lines that have ended, and the line
\* that has not.
Read(before, char) ==
  IF char = End
  THEN [told |-> before.told \o ProgressOf(before.line), line |-> <<>>]
  ELSE [told |-> before.told, line |-> Append(before.line, char)]

\* What the first characters of a text tell, for any number of them.
Reading(text) ==
  LET read[n \in 0..Len(text)] ==
        IF n = 0 THEN [told |-> <<>>, line |-> <<>>] ELSE Read(read[n - 1], text[n])
  IN  read

\* Wrong: what is left behind the last line end is dropped.
ConsumeWrong(text) ==
  /\ updates' = Reading(text)[Len(text)].told
  /\ pending' = <<>>

\* consumeLocked
Consume(text) ==
  /\ updates' = Reading(text)[Len(text)].told
  /\ pending' = Reading(text)[Len(text)].line

\* Write gets whatever part of the output the pipe holds.  The next one waits
\* until emit has recorded all updates of this one.
WriteOutput(n) ==
  /\ exit = "running"
  /\ wpc = "idle"
  /\ written + n <= Len(Text)
  /\ written' = written + n
  /\ Consume(pending \o SubSeq(Text, written + 1, written + n))
  /\ wpc' = IF updates' = <<>> THEN "idle" ELSE "emitting"
  /\ UNCHANGED <<exit, memory, row, hpc, apc, copy, told, raced>>

\* setDownloadProgress: memory under downloadMu, then the row.
RecordInMemory ==
  /\ wpc = "emitting"
  /\ memory' = [memory EXCEPT !.progress = Head(updates)]
  /\ told' = Append(told, Head(updates))
  /\ raced' = (hpc # "ended")
  /\ wpc' = "storing"
  /\ UNCHANGED <<written, exit, pending, updates, row, hpc, apc, copy>>

\* Wrong: the row is updated when another update follows, not for the last.
RecordInRowWrong ==
  /\ wpc = "storing"
  /\ row' = IF Len(updates) = 1 THEN row ELSE [row EXCEPT !.progress = Head(updates)]
  /\ updates' = Tail(updates)
  /\ wpc' = IF updates' = <<>> THEN "idle" ELSE "emitting"
  /\ UNCHANGED <<written, exit, pending, memory, hpc, apc, copy, told, raced>>

RecordInRow ==
  /\ wpc = "storing"
  /\ row' = [row EXCEPT !.progress = Head(updates)]
  /\ updates' = Tail(updates)
  /\ wpc' = IF updates' = <<>> THEN "idle" ELSE "emitting"
  /\ UNCHANGED <<written, exit, pending, memory, hpc, apc, copy, told, raced>>

\* aria2c ends, on its own or killed, or its output can no longer be logged:
\* in the middle of a line if so it happens.
ProcessExits(how) ==
  /\ exit = "running"
  /\ wpc = "idle"
  /\ exit' = how
  /\ UNCHANGED <<output, memory, row, wpc, hpc, apc, copy, raced>>

-----------------------------------------------------------------------------
(* startReferenceDownload.                                                 *)

\* setDownloadStatus: memory, then the row.
SetStarting ==
  /\ hpc = "starting"
  /\ memory' = [status |-> "starting", progress |-> 0]
  /\ hpc' = "saving"
  /\ UNCHANGED <<output, exit, row, wpc, apc, copy, raced>>

StoreStarting ==
  /\ hpc = "saving"
  /\ row' = [status |-> "starting", progress |-> 0]
  /\ hpc' = "exec"
  /\ UNCHANGED <<output, exit, memory, wpc, apc, copy, raced>>

StartProcess ==
  /\ hpc = "exec"
  /\ exit' = "running"
  /\ hpc' = "copying"
  /\ UNCHANGED <<output, memory, row, wpc, apc, copy, raced>>

StartFails ==
  /\ hpc = "exec"
  /\ copy' = [status |-> "not_started", progress |-> 0]
  /\ memory' = copy'
  /\ hpc' = "storing"
  /\ UNCHANGED <<output, exit, row, wpc, apc, raced>>

CopyStarted ==
  /\ hpc = "copying"
  /\ copy' = [memory EXCEPT !.status = "started"]
  /\ hpc' = "copied"
  /\ UNCHANGED <<output, exit, memory, row, wpc, apc, raced>>

SetStarted ==
  /\ hpc = "copied"
  /\ memory' = copy
  /\ hpc' = "storing"
  /\ UNCHANGED <<output, exit, row, wpc, apc, copy, raced>>

\* With the started status stored, the watcher is launched.
StoreStatus ==
  /\ hpc = "storing"
  /\ row' = copy
  /\ hpc' = "ended"
  /\ apc' = IF copy.status = "started" THEN "waiting" ELSE "ended"
  /\ UNCHANGED <<output, exit, memory, wpc, copy, raced>>

-----------------------------------------------------------------------------
(* The watcher.                                                            *)

\* Wait returns when the process has ended and its output is copied; Flush
\* takes an unterminated last line for a line.
WaitAndFlush ==
  /\ apc = "waiting"
  /\ exit \in {"ok", "failed"}
  /\ wpc = "idle"
  /\ updates' = ProgressOf(pending)
  /\ pending' = <<>>
  /\ wpc' = IF updates' = <<>> THEN "idle" ELSE "emitting"
  /\ apc' = "flushed"
  /\ UNCHANGED <<written, exit, memory, row, hpc, copy, told, raced>>

\* Wrong: the flush is not waited for.
CopyCompletedWrong ==
  /\ apc = "flushed"
  /\ copy' = [status |-> IF exit = "ok" THEN "completed" ELSE "failed",
              progress |-> IF memory.progress > 0 THEN Full ELSE 0]
  /\ apc' = "copied"
  /\ UNCHANGED <<output, exit, memory, row, wpc, hpc, raced>>

\* Once a total is known the numbers are those of a whole download, also when
\* aria2c has failed.
CopyCompleted ==
  /\ apc = "flushed"
  /\ wpc = "idle"
  /\ copy' = [status |-> IF exit = "ok" THEN "completed" ELSE "failed",
              progress |-> IF memory.progress > 0 THEN Full ELSE 0]
  /\ apc' = "copied"
  /\ UNCHANGED <<output, exit, memory, row, wpc, hpc, raced>>

SetCompleted ==
  /\ apc = "copied"
  /\ memory' = copy
  /\ apc' = "storing"
  /\ UNCHANGED <<output, exit, row, wpc, hpc, copy, raced>>

StoreCompleted ==
  /\ apc = "storing"
  /\ row' = copy
  /\ apc' = "ended"
  /\ UNCHANGED <<output, exit, memory, wpc, hpc, copy, raced>>

ProgressNext ==
  \/ \E n \in 1..Len(Text) : WriteOutput(n)
  \/ RecordInMemory \/ RecordInRow
  \/ \E how \in {"ok", "failed"} : ProcessExits(how)
  \/ SetStarting \/ StoreStarting \/ StartProcess \/ StartFails
  \/ CopyStarted \/ SetStarted \/ StoreStatus
  \/ WaitAndFlush \/ CopyCompleted \/ SetCompleted \/ StoreCompleted

ProgressSpec == ProgressInit /\ [][ProgressNext]_progressVars
-----------------------------------------------------------------------------
\* What one reading of the whole output printed so far would tell.
Expected(flushed) ==
  LET all == Reading(Text)[written]
  IN  all.told \o (IF flushed THEN ProgressOf(all.line) ELSE <<>>)

\* However the pipe cuts the output, every complete line is recorded once and
\* in order, and a last line without an end when the process is gone.
ChunksDoNotMatter ==
  LET waiting == IF wpc = "storing" THEN Tail(updates) ELSE updates
  IN  told \o waiting = Expected(apc \notin {"none", "waiting"})

\* When the watcher is done, memory and row agree on the outcome of aria2c, and
\* no progress, late or left in the writer, changes it.  The numbers are those of
\* a whole download, unless the started status overwrote all that was recorded.
OutcomeStands ==
  apc = "ended" /\ exit # "none" =>
    /\ memory = row
    /\ memory.status = IF exit = "ok" THEN "completed" ELSE "failed"
    /\ told # <<>> /\ ~raced => memory.progress = Full

\* While the download runs and no update is under way, memory and row show the
\* last progress that was printed.  Progress recorded before the started status
\* is in its place may be lost to it, but only until the next is recorded.
ProgressIsShown ==
  apc = "waiting" /\ wpc = "idle" /\ ~raced =>
    /\ memory = row
    /\ memory.status = "started"
    /\ memory.progress = IF told = <<>> THEN 0 ELSE Last(told)
=============================================================================
