------------------------------- MODULE JobLog -------------------------------
(***************************************************************************)
(* The log of one backup or deployment job: its ring buffer (RingBuffer in *)
(* src/api/internal/engine/rustic.go), the log_output of its row, and one  *)
(* connection that follows it (handleStreamJob in                          *)
(* src/api/internal/server/router.go).                                     *)
(*                                                                         *)
(* engine.jobBufs is keyed by a number.  backup_jobs and restore_jobs      *)
(* number their rows independently, so the job shares its buffer with the  *)
(* restore of the same id, which is modelled as a second writer.           *)
(***************************************************************************)
EXTENDS Integers, Sequences

CONSTANTS
    Cap,            \* lines a buffer holds
    MaxLines,       \* bound: writer -> lines it writes in one behaviour
    NoLine,         \* a slot of the buffer that was never written
    MaxRestarts     \* bound: container restarts in one behaviour

Writers == {"job", "restore"}

ASSUME CapAssumption == Cap \in Nat \ {0}
ASSUME LinesAssumption == MaxLines \in [Writers -> Nat]
ASSUME RestartAssumption == MaxRestarts \in Nat

VARIABLES
    lines,      \* RingBuffer.lines
    pos,        \* RingBuffer.pos
    kind,       \* the caller that runs the job: "now", "cron" or "deploy"
    run,        \* where the job's goroutine stands
    status,     \* backup_jobs.status
    logOutput,  \* backup_jobs.log_output
    stream,     \* where handleStreamJob stands
    sent,       \* its count of lines sent
    received,   \* history: the lines the client of this connection has
    verdict,    \* history: the "done" event it has, or "none"
    written,    \* history: writer -> lines it has written
    restarts    \* restarts so far

bufVars == <<lines, pos, written>>
jobVars == <<kind, run, status, logOutput>>
streamVars == <<stream, sent, received, verdict>>
vars == <<bufVars, jobVars, streamVars, restarts>>

-----------------------------------------------------------------------------
(* Types *)

Terminal == {"completed", "failed", "cancelled"}

\* A line is known by its writer and by its place in the whole log.
Line == [from : Writers, at : Nat]

\* "late": the row says completed and the goroutine has one more thing to say;
\* "resave": it has said it and saves the log again.
Runs == {"idle", "running", "late", "resave", "over"}

\* "poll": until the next tick; "check": the lines are sent.
Streams == {"closed", "poll", "check"}

TypeOK ==
    /\ lines \in [0 .. Cap - 1 -> Line \cup {NoLine}]
    /\ pos \in Nat
    /\ kind \in {"now", "cron", "deploy"}
    /\ run \in Runs
    /\ status \in {"absent", "running"} \cup Terminal
    /\ logOutput \in Seq(Line)
    /\ stream \in Streams
    /\ sent \in 0 .. Cap
    /\ received \in Seq(Line)
    /\ verdict \in {"none"} \cup Terminal
    /\ written \in [Writers -> Nat]
    /\ restarts \in Nat

EmptyBuffer == [i \in 0 .. Cap - 1 |-> NoLine]

Init ==
    /\ lines = EmptyBuffer
    /\ pos = 0
    /\ kind \in {"now", "cron", "deploy"}
    /\ run = "idle"
    /\ status = "absent"
    /\ logOutput = <<>>
    /\ stream = "closed"
    /\ sent = 0
    /\ received = <<>>
    /\ verdict = "none"
    /\ written = [w \in Writers |-> 0]
    /\ restarts = 0

-----------------------------------------------------------------------------
(* The ring buffer *)

Kept == IF pos < Cap THEN pos ELSE Cap

\* Mutant: the buffer is read from its first slot even after it has wrapped.
FromTheFirstSlot == 0

Oldest == IF pos > Cap THEN pos % Cap ELSE 0

\* RingBuffer.Lines.
Lines == [i \in 1 .. Kept |-> lines[(Oldest + i - 1) % Cap]]

\* RingBuffer.Write.
Write(w) ==
    /\ written[w] < MaxLines[w]
    /\ lines' = [lines EXCEPT ![pos % Cap] = [from |-> w, at |-> pos + 1]]
    /\ pos' = pos + 1
    /\ written' = [written EXCEPT ![w] = @ + 1]

-----------------------------------------------------------------------------
(* The job and the restore that shares its number *)

StartJob ==
    /\ run = "idle"
    /\ run' = "running"
    /\ status' = "running"
    /\ UNCHANGED <<bufVars, kind, logOutput, streamVars, restarts>>

JobWrites ==
    /\ run = "running"
    /\ Write("job")
    /\ UNCHANGED <<jobVars, streamVars, restarts>>

RestoreWrites ==
    /\ Write("restore")
    /\ UNCHANGED <<jobVars, streamVars, restarts>>

\* The updates of a backup are guarded by the status; nothing cancels a
\* deployment, which may fail without saving its log.  The log is taken from the
\* buffer just before the update; the two are one step here.  After a success,
\* Run now has the catalog sync to report and a deployment a last line to write.
Record(s) ==
    /\ run = "running"
    /\ status = "running"
    /\ status' = s
    /\ \/ logOutput' = Lines
       \/ kind = "deploy" /\ s = "failed" /\ UNCHANGED logOutput
    /\ run' = IF s = "completed" /\ kind \in {"now", "deploy"} THEN "late"
                                                               ELSE "over"
    /\ UNCHANGED <<bufVars, kind, streamVars, restarts>>

\* The guarded update of a cancelled backup changes nothing.
RecordTooLate ==
    /\ run = "running"
    /\ status = "cancelled"
    /\ run' = "over"
    /\ UNCHANGED <<bufVars, kind, status, logOutput, streamVars, restarts>>

LateLine ==
    /\ run = "late"
    /\ Write("job")
    /\ run' = IF kind = "now" THEN "resave" ELSE "over"
    /\ UNCHANGED <<kind, status, logOutput, streamVars, restarts>>

NothingToAdd ==
    /\ run = "late"
    /\ kind = "now"
    /\ run' = "over"
    /\ UNCHANGED <<bufVars, kind, status, logOutput, streamVars, restarts>>

SaveAgain ==
    /\ run = "resave"
    /\ logOutput' = Lines
    /\ run' = "over"
    /\ UNCHANGED <<bufVars, kind, status, streamVars, restarts>>

\* A deployment has no cancel func.
Cancel ==
    /\ run = "running"
    /\ status = "running"
    /\ kind # "deploy"
    /\ status' = "cancelled"
    /\ UNCHANGED <<bufVars, kind, run, logOutput, streamVars, restarts>>

-----------------------------------------------------------------------------
(* The stream *)

\* Mutant: the lines that are already there are skipped.
ConnectAtTheEnd ==
    /\ status # "absent"
    /\ stream = "closed"
    /\ stream' = "poll"
    /\ sent' = Kept
    /\ received' = <<>>
    /\ verdict' = "none"
    /\ UNCHANGED <<bufVars, jobVars, restarts>>

Connect ==
    /\ status # "absent"
    /\ stream = "closed"
    /\ stream' = "poll"
    /\ sent' = 0
    /\ received' = <<>>
    /\ verdict' = "none"
    /\ UNCHANGED <<bufVars, jobVars, restarts>>

\* Mutant: the lines sent are counted as the buffer counts the lines written.
CountWritten == pos

\* The loop over lines[sent:] leaves sent at the length of the buffer, which
\* never exceeds its capacity.
SentAfter == IF sent < Kept THEN Kept ELSE sent

\* Mutant: the loop starts over at every tick.
FromTheStart == Lines

Unsent == SubSeq(Lines, sent + 1, Kept)

SendLines ==
    /\ stream = "poll"
    /\ received' = received \o Unsent
    /\ sent' = SentAfter
    /\ stream' = "check"
    /\ UNCHANGED <<bufVars, jobVars, verdict, restarts>>

\* Mutant: a failed job is taken for one that still runs.
OnlyCompleted == {"completed"}

\* What handleStreamJob takes for the end of a job.
Done == {"completed", "failed"}

CheckDone ==
    /\ stream = "check"
    /\ IF status \in Done
       THEN verdict' = status /\ stream' = "closed"
       ELSE stream' = "poll" /\ UNCHANGED verdict
    /\ UNCHANGED <<bufVars, jobVars, sent, received, restarts>>

Disconnect ==
    /\ stream # "closed"
    /\ stream' = "closed"
    /\ UNCHANGED <<bufVars, jobVars, sent, received, verdict, restarts>>

-----------------------------------------------------------------------------

\* A restart empties the buffers and drops the connection; the reconciliation
\* fails a job that was running.
Restart ==
    /\ restarts < MaxRestarts
    /\ restarts' = restarts + 1
    /\ lines' = EmptyBuffer
    /\ pos' = 0
    /\ run' = IF run = "idle" THEN "idle" ELSE "over"
    /\ status' = IF status = "running" THEN "failed" ELSE status
    /\ stream' = "closed"
    /\ sent' = 0
    /\ received' = <<>>
    /\ verdict' = "none"
    /\ UNCHANGED <<kind, logOutput, written>>

Next ==
    \/ StartJob \/ JobWrites \/ RestoreWrites
    \/ (\E s \in {"completed", "failed"} : Record(s))
    \/ RecordTooLate \/ LateLine \/ NothingToAdd \/ SaveAgain \/ Cancel
    \/ Connect \/ SendLines \/ CheckDone \/ Disconnect
    \/ Restart

\* The ticker keeps ticking while the connection is open.
Fairness == WF_vars(SendLines) /\ WF_vars(CheckDone)

Spec == Init /\ [][Next]_vars /\ Fairness

-----------------------------------------------------------------------------
(* Properties *)

\* The stream implements LogFeed: lines come in the order in which they were
\* written and none twice, even when the buffer wraps between two polls and drops
\* some of them (rustic.go:39-50 with router.go:886-896), and the last event is
\* the job's own verdict, which nothing follows.
Feed == INSTANCE LogFeed WITH open <- stream # "closed",
                              log <- [i \in DOMAIN received |-> received[i].at]

StreamIsFeed == Feed!Spec

\* While the log fits the buffer, a client has exactly its first lines, however
\* polls and writes interleave and whenever it connected.
ShortLogHasNoGap ==
    pos <= Cap =>
        /\ Len(received) <= pos
        /\ \A i \in 1 .. Len(received) : received[i].at = i

\* An open connection to a job that has completed or failed ends, with the
\* verdict of the row unless the client leaves (router.go:899-907).
StreamEnds ==
    (stream # "closed" /\ status \in {"completed", "failed"})
        ~> (stream = "closed")

\* A log that fits the buffer is followed: what has been written reaches every
\* client that stays connected, unless the stream ends or the log outgrows the
\* buffer first.
LinesArrive ==
    \A n \in 1 .. Cap :
        (stream = "poll" /\ pos = n)
            ~> (Len(received) >= n \/ stream = "closed" \/ pos > Cap)

\* "JobBuffers stores per-job log ring buffers." (rustic.go:61): the log saved
\* with a job holds lines of that job only.
SavedLogIsOwn ==
    \A i \in 1 .. Len(logOutput) : logOutput[i].from = "job"

=============================================================================
