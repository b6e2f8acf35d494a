------------------------------- MODULE ExportJobs -------------------------------
(***************************************************************************)
(* Data exports: the routes that create and delete a job, the broker that  *)
(* delivers and may redeliver its task, and the workers that write one     *)
(* file per data source.  Every step is one transaction (or one change of  *)
(* the file system); an attempt works on the copy of the row it has read   *)
(* and an UPDATE writes only the columns that it changed in that copy.     *)
(***************************************************************************)
EXTENDS Naturals, Sequences, FiniteSets

CONSTANTS Jobs,        \* export jobs that may be created
          Workers,     \* Celery worker processes
          Sources,     \* number of data sources of a job
          MaxRetries,  \* max_retries of process_export_job
          MaxFaults,   \* bound: exceptions during attempts
          MaxLosses,   \* bound: workers that die, messages delivered again
          MaxDeletes,  \* bound: deletions
          MaxTroubles, \* bound: faults, losses and deletions together
          NoJob, NoRow

ASSUME SourcesAssumption == Sources \in Nat \ {0}
ASSUME MaxRetriesAssumption == MaxRetries \in Nat

VARIABLES request,    \* [Jobs -> progress of the request that creates the job]
          row,        \* [Jobs -> the row in export_jobs, or NoRow]
          fileRows,   \* the rows of export_files
          disk,       \* the files in the export directory
          messages,   \* [Jobs -> [0..MaxRetries -> messages waiting with that many retries]]
          worker,     \* [Workers -> the attempt a worker is making]
          deleter,    \* the request or clean-up that is deleting a job
          attempts,   \* [Jobs -> attempts begun: names an attempt's files]
          lost,       \* ghost: jobs whose last chance passed without a report
          removed,    \* ghost: the files that a deletion took away
          calm,       \* ghost: no message has come twice
          faults, losses, deletes

vars == <<request, row, fileRows, disk, messages, worker, deleter, attempts,
          lost, removed, calm, faults, losses, deletes>>
outside == <<request, deleter, removed, deletes>>   \* not an attempt's business

Terminal == {"completed", "failed"}                 \* ExportStatus: nothing ever sets CANCELLED
QueuedRow == [status |-> "queued", count |-> 0, files |-> <<>>]
Idle == [at |-> "idle", job |-> NoJob, retries |-> 0, again |-> FALSE, local |-> NoRow,
         attempt |-> 0, source |-> 1, files |-> <<>>]
NoDeletion == [at |-> "idle", job |-> NoJob, files |-> {}]

File == [job : Jobs, index : 1..Sources, attempt : Nat]
Row == [status : {"queued", "processing"} \cup Terminal, count : Nat, files : Seq(File)]
Present(j) == row[j] # NoRow
RowsOf(j) == {f \in fileRows : f.job = j}

TypeOK ==
  /\ request \in [Jobs -> {"none", "flushed", "sending", "done"}]
  /\ row \in [Jobs -> Row \cup {NoRow}]
  /\ fileRows \subseteq File /\ disk \subseteq File /\ removed \subseteq File
  /\ messages \in [Jobs -> [0..MaxRetries -> Nat]]
  /\ worker \in [Workers ->
        [at : {"idle", "received", "loaded", "extract", "written", "recorded", "finished"},
         job : Jobs \cup {NoJob}, retries : 0..MaxRetries, again : BOOLEAN,
         local : Row \cup {NoRow}, attempt : Nat, source : 1..(Sources + 1), files : Seq(File)]]
  /\ deleter \in [at : {"idle", "read", "erased"}, job : Jobs \cup {NoJob}, files : SUBSET File]
  /\ attempts \in [Jobs -> Nat]
  /\ lost \subseteq Jobs
  /\ calm \in BOOLEAN
  /\ faults \in 0..MaxFaults /\ losses \in 0..MaxLosses /\ deletes \in 0..MaxDeletes

Init ==
  /\ request = [j \in Jobs |-> "none"]
  /\ row = [j \in Jobs |-> NoRow]
  /\ fileRows = {} /\ disk = {} /\ removed = {}
  /\ messages = [j \in Jobs |-> [r \in 0..MaxRetries |-> 0]]
  /\ worker = [w \in Workers |-> Idle]
  /\ deleter = NoDeletion
  /\ attempts = [j \in Jobs |-> 0]
  /\ lost = {}
  /\ calm = TRUE
  /\ faults = 0 /\ losses = 0 /\ deletes = 0

Trouble == faults + losses + deletes < MaxTroubles

-----------------------------------------------------------------------------
(* The routes that create jobs *)

Enqueue(j, r) == messages' = [messages EXCEPT ![j][r] = @ + 1]

\* /create and /convert commit the row and then send the task ...
CreateJob(j) ==
  /\ request[j] = "none"
  /\ request' = [request EXCEPT ![j] = "sending"]
  /\ row' = [row EXCEPT ![j] = QueuedRow]
  /\ UNCHANGED <<fileRows, disk, messages, worker, deleter, attempts, lost, removed, calm,
                 faults, losses, deletes>>

SendTask(j) ==
  /\ request[j] = "sending"
  /\ request' = [request EXCEPT ![j] = "done"]
  /\ Enqueue(j, 0)
  /\ UNCHANGED <<row, fileRows, disk, worker, deleter, attempts, lost, removed, calm,
                 faults, losses, deletes>>

\* ... unless the broker refuses it or the process dies in between.
SendFails(j) ==
  /\ request[j] = "sending"
  /\ request' = [request EXCEPT ![j] = "done"]
  /\ lost' = lost \cup {j}
  /\ UNCHANGED <<row, fileRows, disk, messages, worker, deleter, attempts, removed, calm,
                 faults, losses, deletes>>

\* /bulk sends the task of a row that it has flushed and commits at the end.
BulkSend(j) ==
  /\ request[j] = "none"
  /\ request' = [request EXCEPT ![j] = "flushed"]
  /\ Enqueue(j, 0)
  /\ UNCHANGED <<row, fileRows, disk, worker, deleter, attempts, lost, removed, calm,
                 faults, losses, deletes>>

BulkEnd(j) ==
  /\ request[j] = "flushed"
  /\ request' = [request EXCEPT ![j] = "done"]
  /\ row' \in {row, [row EXCEPT ![j] = QueuedRow]}     \* rolled back or committed
  /\ UNCHANGED <<fileRows, disk, messages, worker, deleter, attempts, lost, removed, calm,
                 faults, losses, deletes>>

-----------------------------------------------------------------------------
(* An attempt: process_export_job and ExportProcessor.process_export *)

\* A retry waits for its countdown, by which time a bulk request has ended.
Receive(w, j, r) ==
  /\ worker[w].at = "idle"
  /\ messages[j][r] > 0
  /\ r > 0 => request[j] # "flushed"
  /\ messages' = [messages EXCEPT ![j][r] = @ - 1]
  /\ worker' = [worker EXCEPT ![w] = [Idle EXCEPT !.at = "received", !.job = j, !.retries = r]]
  /\ UNCHANGED <<row, fileRows, disk, attempts, lost, calm, faults, losses, outside>>

\* _get_job
Load(w) ==
  LET j == worker[w].job IN
  /\ worker[w].at = "received"
  /\ Present(j)
  /\ worker' = [worker EXCEPT ![w].at = "loaded", ![w].local = row[j],
                              ![w].attempt = attempts[j] + 1]
  /\ attempts' = [attempts EXCEPT ![j] = @ + 1]
  /\ UNCHANGED <<row, fileRows, disk, messages, lost, calm, faults, losses, outside>>

\* A status that is "processing" in the copy already is not written.
Initialize(w) ==
  LET j == worker[w].job IN
  /\ worker[w].at = "loaded"
  /\ Present(j)
  /\ row' = IF worker[w].local.status = "processing" THEN row
            ELSE [row EXCEPT ![j].status = "processing"]
  /\ worker' = [worker EXCEPT ![w].at = "extract", ![w].local.status = "processing"]
  /\ UNCHANGED <<fileRows, disk, messages, attempts, lost, calm, faults, losses, outside>>

NextFile(w) == [job |-> worker[w].job, index |-> worker[w].source, attempt |-> worker[w].attempt]

\* Mutant: a source without rows is counted as well.
SkipCounted(w) ==
  LET j == worker[w].job IN
  /\ worker[w].at = "extract"
  /\ worker[w].source <= Sources
  /\ row' = IF Present(j) THEN [row EXCEPT ![j].count = worker[w].local.count + 1] ELSE row
  /\ worker' = [worker EXCEPT ![w].source = @ + 1, ![w].local.count = @ + 1]
  /\ UNCHANGED <<fileRows, disk, messages, attempts, lost, calm, faults, losses, outside>>

\* A data source without rows leaves no file and no trace.
SkipEmpty(w) ==
  /\ worker[w].at = "extract"
  /\ worker[w].source <= Sources
  /\ worker' = [worker EXCEPT ![w].source = @ + 1]
  /\ UNCHANGED <<row, fileRows, disk, messages, attempts, lost, calm, faults, losses, outside>>

WriteFile(w) ==
  /\ worker[w].at = "extract"
  /\ worker[w].source <= Sources
  /\ disk' = disk \cup {NextFile(w)}
  /\ worker' = [worker EXCEPT ![w].at = "written"]
  /\ UNCHANGED <<row, fileRows, messages, attempts, lost, calm, faults, losses, outside>>

\* The foreign key of export_files refuses a row for a job that is gone.
RecordFile(w) ==
  /\ worker[w].at = "written"
  /\ Present(worker[w].job)
  /\ fileRows' = fileRows \cup {NextFile(w)}
  /\ worker' = [worker EXCEPT ![w].at = "recorded"]
  /\ UNCHANGED <<row, disk, messages, attempts, lost, calm, faults, losses, outside>>

\* Mutant: the list of files is built back to front.
CountFileFirst(w) ==
  LET j == worker[w].job IN
  /\ worker[w].at = "recorded"
  /\ Present(j)
  /\ row' = [row EXCEPT ![j].count = worker[w].local.count + 1]
  /\ worker' = [worker EXCEPT ![w].at = "extract", ![w].local.count = @ + 1,
                              ![w].source = @ + 1, ![w].files = <<NextFile(w)>> \o @]
  /\ UNCHANGED <<fileRows, disk, messages, attempts, lost, calm, faults, losses, outside>>

\* files_created += 1 adds to the copy and writes the sum.
CountFile(w) ==
  LET j == worker[w].job IN
  /\ worker[w].at = "recorded"
  /\ Present(j)
  /\ row' = [row EXCEPT ![j].count = worker[w].local.count + 1]
  /\ worker' = [worker EXCEPT ![w].at = "extract", ![w].local.count = @ + 1,
                              ![w].source = @ + 1, ![w].files = Append(@, NextFile(w))]
  /\ UNCHANGED <<fileRows, disk, messages, attempts, lost, calm, faults, losses, outside>>

\* Mutant: the delivery fails after the commit, and the task is retried.
FinalizeUndelivered(w) ==
  LET j == worker[w].job IN
  /\ worker[w].at = "extract"
  /\ worker[w].source > Sources
  /\ Present(j)
  /\ row' = [row EXCEPT ![j].status = "completed", ![j].files = worker[w].files]
  /\ IF worker[w].retries < MaxRetries THEN Enqueue(j, worker[w].retries + 1)
                                       ELSE UNCHANGED messages
  /\ worker' = [worker EXCEPT ![w] = Idle]
  /\ UNCHANGED <<fileRows, disk, attempts, lost, calm, faults, losses, outside>>

\* _finalize_export; _deliver_export is a placeholder.
Finalize(w) ==
  LET j == worker[w].job IN
  /\ worker[w].at = "extract"
  /\ worker[w].source > Sources
  /\ Present(j)
  /\ row' = [row EXCEPT ![j].status = "completed", ![j].files = worker[w].files]
  /\ worker' = [worker EXCEPT ![w].at = "finished"]
  /\ UNCHANGED <<fileRows, disk, messages, attempts, lost, calm, faults, losses, outside>>

\* acks_late: the message is acknowledged when the task has returned.
Acknowledge(w) ==
  /\ worker[w].at = "finished"
  /\ worker' = [worker EXCEPT ![w] = Idle]
  /\ UNCHANGED <<row, fileRows, disk, messages, attempts, lost, calm, faults, losses, outside>>

-----------------------------------------------------------------------------
(* An attempt that does not come to its end *)

\* run_async starts over on a RuntimeError, once; any other exception goes to
\* self.retry, and with no retries left the message is acknowledged.
RunAgain(w) ==
  /\ ~worker[w].again
  /\ worker' = [worker EXCEPT ![w] = [Idle EXCEPT !.at = "received", !.job = worker[w].job,
                                       !.retries = worker[w].retries, !.again = TRUE]]
  /\ UNCHANGED messages

\* Mutant: the message is acknowledged whatever retries are left.
RetryNever(w) ==
  /\ UNCHANGED messages
  /\ worker' = [worker EXCEPT ![w] = Idle]

Retry(w) ==
  /\ IF worker[w].retries < MaxRetries THEN Enqueue(worker[w].job, worker[w].retries + 1)
                                       ELSE UNCHANGED messages
  /\ worker' = [worker EXCEPT ![w] = Idle]

\* The row that the next statement of the attempt needs is not there.
Gone(w) == ~Present(worker[w].job) /\ (worker[w].at = "extract" => worker[w].source > Sources)

\* A statement fails, or its row is gone.  The session cannot be used for the
\* UPDATE to "failed" either, so nobody learns of it.
DatabaseFails(w) ==
  /\ worker[w].at \notin {"idle", "finished"}
  /\ Gone(w) \/ (faults < MaxFaults /\ Trouble)
  /\ faults' = IF Gone(w) THEN faults ELSE faults + 1
  /\ \/ ~Gone(w) /\ RunAgain(w) /\ UNCHANGED lost
     \/ /\ Retry(w)
        /\ lost' = IF worker[w].retries < MaxRetries THEN lost ELSE lost \cup {worker[w].job}
  /\ UNCHANGED <<row, fileRows, disk, attempts, calm, losses, outside>>

\* The file cannot be written: part of it may be there, and the job has failed.
WriteFails(w) ==
  LET j == worker[w].job IN
  /\ worker[w].at = "extract"
  /\ worker[w].source <= Sources
  /\ faults < MaxFaults /\ Trouble
  /\ faults' = faults + 1
  /\ disk' \in {disk, disk \cup {NextFile(w)}}
  /\ row' = IF Present(j) THEN [row EXCEPT ![j].status = "failed"] ELSE row
  /\ RunAgain(w) \/ Retry(w)
  /\ UNCHANGED <<fileRows, attempts, lost, calm, losses, outside>>

\* reject_on_worker_lost: the message of a worker that dies is delivered again.
WorkerDies(w) ==
  /\ worker[w].at # "idle"
  /\ losses < MaxLosses /\ Trouble
  /\ losses' = losses + 1
  /\ calm' = FALSE
  /\ Enqueue(worker[w].job, worker[w].retries)
  /\ worker' = [worker EXCEPT ![w] = Idle]
  /\ UNCHANGED <<row, fileRows, disk, attempts, lost, faults, outside>>

\* The hard time limit kills the worker and acknowledges the message.
TimeLimit(w) ==
  /\ worker[w].at # "idle"
  /\ losses < MaxLosses /\ Trouble
  /\ losses' = losses + 1
  /\ lost' = lost \cup {worker[w].job}
  /\ worker' = [worker EXCEPT ![w] = Idle]
  /\ UNCHANGED <<row, fileRows, disk, messages, attempts, calm, faults, outside>>

\* The broker gives up waiting for an acknowledgement while the task still runs.
Redeliver(w) ==
  /\ worker[w].at # "idle"
  /\ losses < MaxLosses /\ Trouble
  /\ losses' = losses + 1
  /\ calm' = FALSE
  /\ Enqueue(worker[w].job, worker[w].retries)
  /\ UNCHANGED <<row, fileRows, disk, worker, attempts, lost, faults, outside>>

-----------------------------------------------------------------------------
(* delete_export, and cleanup_old_exports for a job that is old and terminal *)

DeleteRead(j) ==
  /\ deleter.at = "idle"
  /\ deletes < MaxDeletes /\ Trouble
  /\ Present(j)
  /\ deletes' = deletes + 1
  /\ deleter' = [at |-> "read", job |-> j, files |-> RowsOf(j)]
  /\ UNCHANGED <<request, row, fileRows, disk, messages, worker, attempts, lost, removed,
                 calm, faults, losses>>

DeleteFiles ==
  /\ deleter.at = "read"
  /\ deleter' = [deleter EXCEPT !.at = "erased"]
  /\ disk' = disk \ deleter.files
  /\ removed' = removed \cup deleter.files
  /\ UNCHANGED <<request, row, fileRows, messages, worker, attempts, lost, calm, faults,
                 losses, deletes>>

DeleteRows ==
  /\ deleter.at = "erased"
  /\ deleter' = NoDeletion
  /\ fileRows' = fileRows \ RowsOf(deleter.job)
  /\ row' = [row EXCEPT ![deleter.job] = NoRow]
  /\ UNCHANGED <<request, disk, messages, worker, attempts, lost, removed, calm, faults,
                 losses, deletes>>

\* Mutant: the file rows went in a transaction of their own.
DeleteFailsHalfway ==
  /\ deleter.at # "idle"
  /\ deleter' = NoDeletion
  /\ fileRows' = fileRows \ RowsOf(deleter.job)
  /\ UNCHANGED <<request, row, disk, messages, worker, attempts, lost, removed, calm,
                 faults, losses, deletes>>

\* The transaction fails or its process dies: the files are not put back.
DeleteFails ==
  /\ deleter.at # "idle"
  /\ deleter' = NoDeletion
  /\ UNCHANGED <<request, row, fileRows, disk, messages, worker, attempts, lost, removed,
                 calm, faults, losses, deletes>>

-----------------------------------------------------------------------------
Creates(j) == CreateJob(j) \/ BulkSend(j)
Requests(j) == SendTask(j) \/ SendFails(j) \/ BulkEnd(j)
Works(w) ==
  \/ \E j \in Jobs, r \in 0..MaxRetries : Receive(w, j, r)
  \/ Load(w) \/ Initialize(w) \/ SkipEmpty(w) \/ WriteFile(w) \/ RecordFile(w)
  \/ CountFile(w) \/ Finalize(w) \/ Acknowledge(w) \/ DatabaseFails(w)
Breaks(w) == WriteFails(w) \/ WorkerDies(w) \/ TimeLimit(w) \/ Redeliver(w)
Deletes == DeleteFiles \/ DeleteRows \/ DeleteFails \/ \E j \in Jobs : DeleteRead(j)

Next ==
  \/ \E j \in Jobs : Creates(j) \/ Requests(j)
  \/ \E w \in Workers : Works(w) \/ Breaks(w)
  \/ Deletes

Spec == Init /\ [][Next]_vars

\* Requests run to their end and the worker pool keeps taking tasks.
FairSpec ==
  /\ Spec
  /\ \A j \in Jobs : WF_vars(Requests(j))
  /\ \A w \in Workers : WF_vars(Works(w))

-----------------------------------------------------------------------------
(* What the exports promise *)

Completed(j) == Present(j) /\ row[j].status = "completed"

\* Every file that a completed job lists has its row in export_files and is on
\* disk, unless a deletion has taken it from there: whichever attempt completed
\* the job, whatever other attempts, retries and deletions do meanwhile.
CompletedHasItsFiles ==
  \A j \in Jobs : Completed(j) =>
    \A i \in 1..Len(row[j].files) : /\ row[j].files[i] \in fileRows
                                    /\ row[j].files[i] \in disk \cup removed

\* files_created is never more than the rows of the job in export_files, although
\* retries go on counting and overlapping attempts overwrite each other's sums.
CountedFilesExist ==
  \A j \in Jobs : Present(j) => row[j].count <= Cardinality(RowsOf(j))

\* As long as no message comes twice, a completed job stays as it is until it is
\* deleted: only a redelivery can take a finished export away from its user.
CompletedIsFinal ==
  [][\A j \in Jobs : calm /\ Completed(j) => row'[j] \in {row[j], NoRow}]_vars

\* The link of the i-th listed file asks for the row with file_index i.  For a
\* job that needed one attempt and has rows in every source there is exactly one,
\* and it is that file; after a source without rows the links are off by one.
OneAttemptDownloads ==
  \A j \in Jobs : Completed(j) /\ attempts[j] = 1 /\ Len(row[j].files) = Sources =>
    \A i \in 1..Sources : {f \in RowsOf(j) : f.index = i} = {row[j].files[i]}

\* A job that is there ends as completed or failed or is deleted, unless its last
\* chance passed in one of the ways that nobody reports: the task was never sent,
\* the time limit killed it, the database failed with no retries left.
EndsOrIsLost ==
  \A j \in Jobs : (Present(j) /\ row[j].status \notin Terminal)
                   ~> (~Present(j) \/ row[j].status \in Terminal \/ j \in lost)
=============================================================================
