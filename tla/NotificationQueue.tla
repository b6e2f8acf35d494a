-------------------------- MODULE NotificationQueue --------------------------
(***************************************************************************)
(* The analytics.notification_queue table and the three kinds of code that *)
(* change it: NotificationSystem (enqueue and process one row), the        *)
(* Celery tasks process_notification_queue / retry_failed_notifications,   *)
(* and DeliveryTracker.mark_for_retry.                                     *)
(*                                                                         *)
(* A worker is one run of process_notification_queue: it selects a batch,  *)
(* without a row lock, and then processes its rows one at a time.  The     *)
(* session is created with expire_on_commit=False, so the second SELECT in *)
(* process_notification finds the object in the identity map and returns   *)
(* it with the attributes of the first: seen[w] keeps the attempts a row   *)
(* had when the batch was selected.  A commit writes only the attributes   *)
(* that changed, whatever the row holds by then.                           *)
(*                                                                         *)
(* When a template cannot be rendered, the except branch itself raises: it *)
(* logs content.get(...) of None.  status = failed is set by then but not  *)
(* committed; the commit for the next row of the batch writes it, and when *)
(* there is none get_db closes the session, which rolls it back.           *)
(***************************************************************************)
EXTENDS Naturals, FiniteSets

CONSTANTS Rows,         \* ids of notification_queue rows
          Workers,      \* runs of process_notification_queue
          Retriers,     \* runs of retry_failed_notifications or mark_for_retry
          MaxAttempts,  \* notification_queue.max_attempts
          BatchSize,    \* the task's batch_size, its LIMIT
          MaxFaults,    \* bound: how many processes may die and answers get lost
          NoRow         \* a worker that is between two rows

ASSUME MaxAttemptsAssumption == MaxAttempts \in Nat \ {0}
ASSUME BatchSizeAssumption == BatchSize \in Nat \ {0}
ASSUME MaxFaultsAssumption == MaxFaults \in Nat
ASSUME NoRowAssumption == NoRow \notin Rows
ASSUME WorkersAssumption == IsFiniteSet(Workers)

VARIABLES row,       \* [Rows -> status and attempts]: the table
          due,       \* rows whose scheduled_for is in the past
          pc,        \* [Workers -> control point]
          held,      \* [Workers -> rows of the batch still to process]
          seen,      \* [Workers -> attempts of each row when it was selected]
          cur,       \* [Workers -> the row being processed]
          retry,     \* [Retriers -> rows read as failed, not yet written back]
          marking,   \* retriers that are in mark_for_retry
          tries,     \* [Rows -> number of times processing was begun]
          accepted,  \* [Rows -> number of sends a channel accepted]
          denied,    \* [Rows -> number of sends that arrived but returned False]
          log,       \* [Rows -> notification_log entries, by delivery_status]
          unlogged,  \* [Rows -> number of tries whose template failed]
          orphans,   \* rows whose worker died while it processed them
          forgotten, \* rows whose failure was rolled back at the end of a run
          faults     \* deaths and lost answers so far

table == <<row, due>>
worker == <<pc, held, seen, cur>>
retrier == <<retry, marking>>
history == <<tries, accepted, denied, log, unlogged>>
fate == <<orphans, forgotten, faults>>
vars == <<table, worker, retrier, history, fate>>

Statuses == {"absent", "pending", "processing", "delivered", "failed"}
ControlPoints == {"idle", "batch", "processing", "sending", "accepted", "refused", "unrendered"}
InFlight == {"processing", "sending", "accepted", "refused"}

\* Where a worker has a current row.
Engaged == InFlight \cup {"unrendered"}

NotRead == [n \in Rows |-> 0]

TypeOK ==
  /\ row \in [Rows -> [status: Statuses, attempts: Nat]]
  /\ due \subseteq Rows
  /\ pc \in [Workers -> ControlPoints]
  /\ held \in [Workers -> SUBSET Rows]
  /\ seen \in [Workers -> [Rows -> Nat]]
  /\ cur \in [Workers -> Rows \cup {NoRow}]
  /\ \A w \in Workers : cur[w] \in Rows <=> pc[w] \in Engaged
  /\ retry \in [Retriers -> SUBSET Rows]
  /\ marking \subseteq Retriers
  /\ tries \in [Rows -> Nat]
  /\ accepted \in [Rows -> Nat]
  /\ denied \in [Rows -> Nat]
  /\ log \in [Rows -> [delivered: Nat, failed: Nat]]
  /\ unlogged \in [Rows -> Nat]
  /\ orphans \subseteq Rows
  /\ forgotten \subseteq Rows
  /\ faults \in 0..MaxFaults

Init ==
  /\ row = [n \in Rows |-> [status |-> "absent", attempts |-> 0]]
  /\ due = {}
  /\ pc = [w \in Workers |-> "idle"]
  /\ held = [w \in Workers |-> {}]
  /\ seen = [w \in Workers |-> NotRead]
  /\ cur = [w \in Workers |-> NoRow]
  /\ retry = [r \in Retriers |-> {}]
  /\ marking = {}
  /\ tries = [n \in Rows |-> 0]
  /\ accepted = [n \in Rows |-> 0]
  /\ denied = [n \in Rows |-> 0]
  /\ log = [n \in Rows |-> [delivered |-> 0, failed |-> 0]]
  /\ unlogged = [n \in Rows |-> 0]
  /\ orphans = {}
  /\ forgotten = {}
  /\ faults = 0

-----------------------------------------------------------------------------
(* Producers and the clock. *)

\* _queue_notification: insert one row and commit it; it is due at once
\* unless the caller gave a later scheduled_for.
QueueNotification(n, later) ==
  /\ row[n].status = "absent"
  /\ row' = [row EXCEPT ![n] = [status |-> "pending", attempts |-> 0]]
  /\ due' = IF later THEN due ELSE due \cup {n}
  /\ UNCHANGED <<worker, retrier, history, fate>>

\* scheduled_for <= utcnow() becomes true of a row.
ReachSchedule(n) ==
  /\ row[n].status # "absent"
  /\ n \notin due
  /\ due' = due \cup {n}
  /\ UNCHANGED <<row, worker, retrier, history, fate>>

-----------------------------------------------------------------------------
(* process_notification_queue and process_notification. *)

\* Mutant of Selectable: the limit is off by one.
SelectableAtLimit == {n \in due : row[n].status = "pending" /\ row[n].attempts <= MaxAttempts}

\* The WHERE clause of the batch.
Selectable == {n \in due : row[n].status = "pending" /\ row[n].attempts < MaxAttempts}

\* The batch: any BatchSize of the selectable rows, there is no ORDER BY.
SelectBatch(w) ==
  /\ pc[w] = "idle"
  /\ \E S \in (SUBSET Selectable) \ {{}} :
       /\ Cardinality(S) <= BatchSize
       /\ S = Selectable \/ Cardinality(S) = BatchSize
       /\ held' = [held EXCEPT ![w] = S]
       /\ seen' = [seen EXCEPT ![w] = [n \in Rows |-> IF n \in S THEN row[n].attempts ELSE 0]]
  /\ pc' = [pc EXCEPT ![w] = "batch"]
  /\ UNCHANGED <<table, cur, retrier, history, fate>>

\* What a commit of worker w writes of the row before: its failure, if the
\* template failed, as the session still holds it.
Flushed(w) == IF pc[w] = "unrendered" THEN [row EXCEPT ![cur[w]].status = "failed"] ELSE row

\* status = processing, attempts += 1 on the object in the session, commit.
MarkProcessing(w, n) ==
  /\ pc[w] \in {"batch", "unrendered"}
  /\ n \in held[w]
  /\ row' = [Flushed(w) EXCEPT ![n] = [status |-> "processing", attempts |-> seen[w][n] + 1]]
  /\ tries' = [tries EXCEPT ![n] = @ + 1]
  /\ held' = [held EXCEPT ![w] = @ \ {n}]
  /\ seen' = [seen EXCEPT ![w][n] = 0]
  /\ cur' = [cur EXCEPT ![w] = n]
  /\ pc' = [pc EXCEPT ![w] = "processing"]
  /\ UNCHANGED <<due, retrier, accepted, denied, log, unlogged, fate>>

\* template_engine.render returned content.
Render(w) ==
  /\ pc[w] = "processing"
  /\ pc' = [pc EXCEPT ![w] = "sending"]
  /\ UNCHANGED <<table, held, seen, cur, retrier, history, fate>>

\* It returned None: the except branch sets status = failed, then its call of
\* _log_notification raises, before the log entry and before the commit.
RenderFails(w) ==
  /\ pc[w] = "processing"
  /\ pc' = [pc EXCEPT ![w] = "unrendered"]
  /\ unlogged' = [unlogged EXCEPT ![cur[w]] = @ + 1]
  /\ UNCHANGED <<table, held, seen, cur, retrier, tries, accepted, denied, log, fate>>

\* That was the last row of the batch: the run ends without a commit.
RunForgets(w) ==
  /\ pc[w] = "unrendered"
  /\ held[w] = {}
  /\ forgotten' = forgotten \cup {cur[w]}
  /\ cur' = [cur EXCEPT ![w] = NoRow]
  /\ pc' = [pc EXCEPT ![w] = "idle"]
  /\ UNCHANGED <<table, held, seen, retrier, history, orphans, faults>>

\* channel_manager.send returned True: the channel has the message.
SendAccepted(w) ==
  /\ pc[w] = "sending"
  /\ accepted' = [accepted EXCEPT ![cur[w]] = @ + 1]
  /\ pc' = [pc EXCEPT ![w] = "accepted"]
  /\ UNCHANGED <<table, held, seen, cur, retrier, tries, denied, log, unlogged, fate>>

\* Mutant of SendRefused: the result of send is not looked at.
SendResultIgnored(w) ==
  /\ pc[w] = "sending"
  /\ pc' = [pc EXCEPT ![w] = "accepted"]
  /\ UNCHANGED <<table, held, seen, cur, retrier, history, fate>>

\* channel_manager.send returned False, which raises: the channel has no message.
SendRefused(w) ==
  /\ pc[w] = "sending"
  /\ pc' = [pc EXCEPT ![w] = "refused"]
  /\ UNCHANGED <<table, held, seen, cur, retrier, history, fate>>

\* It also does so after an exception that hides that the channel has the
\* message, such as a timeout while it waits for the answer.
AnswerLost(w) ==
  /\ faults < MaxFaults
  /\ pc[w] = "sending"
  /\ faults' = faults + 1
  /\ denied' = [denied EXCEPT ![cur[w]] = @ + 1]
  /\ pc' = [pc EXCEPT ![w] = "refused"]
  /\ UNCHANGED <<table, held, seen, cur, retrier, tries, accepted, log, unlogged, orphans, forgotten>>

\* Mutant of NextRow: the row just processed stays the current one.
NextRowNotCleared(w) ==
  /\ cur' = cur
  /\ pc' = [pc EXCEPT ![w] = IF held[w] = {} THEN "idle" ELSE "batch"]

\* The worker goes on with its batch, or its run ends.
NextRow(w) ==
  /\ cur' = [cur EXCEPT ![w] = NoRow]
  /\ pc' = [pc EXCEPT ![w] = IF held[w] = {} THEN "idle" ELSE "batch"]

\* status = delivered and the log entry, in one commit.
CommitDelivered(w) ==
  /\ pc[w] = "accepted"
  /\ row' = [row EXCEPT ![cur[w]].status = "delivered"]
  /\ log' = [log EXCEPT ![cur[w]].delivered = @ + 1]
  /\ NextRow(w)
  /\ UNCHANGED <<due, held, seen, retrier, tries, accepted, denied, unlogged, fate>>

\* Mutant of CommitFailed: the except branch logs but leaves the status.
CommitFailedStatusKept(w) ==
  /\ pc[w] = "refused"
  /\ log' = [log EXCEPT ![cur[w]].failed = @ + 1]
  /\ NextRow(w)
  /\ UNCHANGED <<table, held, seen, retrier, tries, accepted, denied, unlogged, fate>>

\* The except branch: status = failed and the log entry, in one commit.
CommitFailed(w) ==
  /\ pc[w] = "refused"
  /\ row' = [row EXCEPT ![cur[w]].status = "failed"]
  /\ log' = [log EXCEPT ![cur[w]].failed = @ + 1]
  /\ NextRow(w)
  /\ UNCHANGED <<due, held, seen, retrier, tries, accepted, denied, unlogged, fate>>

\* The worker process dies, or its session breaks and the rest of the batch
\* is given up: what it had not committed is gone.
WorkerDies(w) ==
  /\ faults < MaxFaults
  /\ pc[w] # "idle"
  /\ faults' = faults + 1
  /\ orphans' = IF pc[w] \in Engaged THEN orphans \cup {cur[w]} ELSE orphans
  /\ pc' = [pc EXCEPT ![w] = "idle"]
  /\ held' = [held EXCEPT ![w] = {}]
  /\ seen' = [seen EXCEPT ![w] = NotRead]
  /\ cur' = [cur EXCEPT ![w] = NoRow]
  /\ UNCHANGED <<table, retrier, history, forgotten>>

-----------------------------------------------------------------------------
(* retry_failed_notifications and mark_for_retry. *)

\* Mutants of MayRetry: rows stuck in processing are retried as well; the limit
\* is off by one.
MayRetryStuck(n) == row[n].status \in {"failed", "processing"} /\ row[n].attempts < MaxAttempts
MayRetryOnceLess(n) == row[n].status = "failed" /\ row[n].attempts + 1 < MaxAttempts

MayRetry(n) == row[n].status = "failed" /\ row[n].attempts < MaxAttempts

\* The SELECT of the retry task.
RetrySelect(r) ==
  /\ retry[r] = {}
  /\ \E n \in Rows : MayRetry(n)
  /\ retry' = [retry EXCEPT ![r] = {n \in Rows : MayRetry(n)}]
  /\ UNCHANGED <<table, worker, marking, history, fate>>

\* Mutant of PutBack: a retry starts over with no attempts made.
PutBackFromZero(S) == [n \in Rows |-> IF n \in S THEN [status |-> "pending", attempts |-> 0]
                                                ELSE row[n]]

\* Only status is dirty: attempts and the rest keep what the table holds.
PutBack(S) == [n \in Rows |-> IF n \in S THEN [row[n] EXCEPT !.status = "pending"]
                                        ELSE row[n]]

\* The commit of the retry task: status = pending for every row it read.
RetryCommit(r) ==
  /\ retry[r] # {}
  /\ r \notin marking
  /\ row' = PutBack(retry[r])
  /\ retry' = [retry EXCEPT ![r] = {}]
  /\ UNCHANGED <<due, worker, marking, history, fate>>

\* mark_for_retry reads its row and should_retry says yes.
MarkForRetrySelect(r, n) ==
  /\ retry[r] = {}
  /\ MayRetry(n)
  /\ retry' = [retry EXCEPT ![r] = {n}]
  /\ marking' = marking \cup {r}
  /\ UNCHANGED <<table, worker, history, fate>>

\* mark_for_retry commits: pending, scheduled for now or for later.
MarkForRetryCommit(r, later) ==
  /\ retry[r] # {}
  /\ r \in marking
  /\ row' = PutBack(retry[r])
  /\ due' = IF later THEN due \ retry[r] ELSE due \cup retry[r]
  /\ retry' = [retry EXCEPT ![r] = {}]
  /\ marking' = marking \ {r}
  /\ UNCHANGED <<worker, history, fate>>

\* The retry process dies before its commit.
RetrierDies(r) ==
  /\ faults < MaxFaults
  /\ retry[r] # {}
  /\ faults' = faults + 1
  /\ retry' = [retry EXCEPT ![r] = {}]
  /\ marking' = marking \ {r}
  /\ UNCHANGED <<table, worker, history, orphans, forgotten>>

-----------------------------------------------------------------------------
WorkerStep(w) ==
  \/ SelectBatch(w)
  \/ \E n \in Rows : MarkProcessing(w, n)
  \/ Render(w)
  \/ RenderFails(w)
  \/ RunForgets(w)
  \/ SendAccepted(w)
  \/ SendRefused(w)
  \/ CommitDelivered(w)
  \/ CommitFailed(w)

RetryTaskStep(r) == RetrySelect(r) \/ RetryCommit(r)

Next ==
  \/ \E n \in Rows, later \in BOOLEAN : QueueNotification(n, later)
  \/ \E n \in Rows : ReachSchedule(n)
  \/ \E w \in Workers : WorkerStep(w) \/ AnswerLost(w) \/ WorkerDies(w)
  \/ \E r \in Retriers : RetryTaskStep(r) \/ RetrierDies(r)
  \/ \E r \in Retriers, n \in Rows : MarkForRetrySelect(r, n)
  \/ \E r \in Retriers, later \in BOOLEAN : MarkForRetryCommit(r, later)

Spec == Init /\ [][Next]_vars

\* Time passes; Celery beat starts both tasks again and again; an await on the
\* database or on a channel (whose client has a timeout) returns.
FairSpec ==
  /\ Spec
  /\ \A n \in Rows : WF_vars(ReachSchedule(n))
  /\ \A w \in Workers : WF_vars(WorkerStep(w))
  /\ \A r \in Retriers : /\ WF_vars(RetrySelect(r))
                         /\ WF_vars(RetryCommit(r))
                         /\ WF_vars(\E later \in BOOLEAN : MarkForRetryCommit(r, later))
-----------------------------------------------------------------------------
(* What holds however the tasks overlap. *)

\* The attempts column never passes max_attempts: every commit of
\* process_notification writes one more than a value that the batch's WHERE
\* clause found below the limit, stale as that value may be by then.
AttemptsBounded == \A n \in Rows : row[n].attempts <= MaxAttempts

\* A row is in processing only while a worker is on it, or after the worker died
\* on it, or its template failed and it was the last row of a batch.  No order
\* of commits by overlapping workers leaves a row there in another way.
ProcessingHasWorker ==
  \A n \in Rows : row[n].status = "processing" =>
    \/ n \in orphans
    \/ n \in forgotten /\ unlogged[n] # 0
    \/ \E w \in Workers : pc[w] \in Engaged /\ cur[w] = n

\* Workers that are on row n, and those a channel has said yes to.
WorkersOn(n) == {w \in Workers : pc[w] \in InFlight /\ cur[w] = n}
AcceptedOn(n) == {w \in WorkersOn(n) : pc[w] = "accepted"}

\* Each attempt ends in exactly one log entry, also when two workers process
\* the same row, unless its template failed or its worker died; and a delivered
\* entry stands for one message a channel said yes to.
LogAccountsForTries ==
  \A n \in Rows \ orphans :
    /\ tries[n] = log[n].delivered + log[n].failed + unlogged[n] + Cardinality(WorkersOn(n))
    /\ accepted[n] = log[n].delivered + Cardinality(AcceptedOn(n))

\* Why AttemptsBounded is inductive: what a worker has read is below the limit.
ReadBelowLimit == \A w \in Workers : \A n \in held[w] : seen[w][n] < MaxAttempts

\* Why ProcessingHasWorker is inductive: a try whose template failed is counted.
FailuresAreCounted == \A w \in Workers : pc[w] = "unrendered" => unlogged[cur[w]] # 0

-----------------------------------------------------------------------------
(* What holds only as long as runs of a task do not overlap each other.  A    *)
(* batch that is still sending when beat starts the next run breaks NoOverlap. *)

NoOverlap ==
  /\ \A w1, w2 \in Workers : w1 = w2
  /\ \A r1, r2 \in Retriers : r1 = r2

\* Once a channel has said yes to a notification, nothing of it is sent again, be
\* it delivered or lost with its worker: a recipient gets it more than once only
\* where a channel reported a send as failed that had arrived.
NothingAfterYes ==
  [][\A n \in Rows : accepted'[n] > accepted[n] \/ denied'[n] > denied[n] => accepted[n] = 0]_vars

\* "Retry failed notifications that haven't exceeded max attempts": no row is
\* attempted more than max_attempts times.
TriesWithinLimit == \A n \in Rows : tries[n] <= MaxAttempts

\* Every notification that is queued is delivered in the end, or has failed
\* max_attempts times, or its last outcome was never committed, because its
\* worker died or its template failed at the end of a batch: nothing puts such a
\* row back, retry_failed_notifications looks at failed rows only.
Settled(n) ==
  \/ row[n].status = "delivered"
  \/ row[n].status = "failed" /\ row[n].attempts = MaxAttempts
  \/ n \in orphans \cup forgotten
Settles == \A n \in Rows : (row[n].status # "absent") ~> Settled(n)

\* The queue keeps the DeliveryContract: a row that is pending or failed waits,
\* one that is processing is being attempted.  So no row is attempted more often
\* than max_attempts, two attempts never overlap, each of them reaches the
\* recipient once at most, and none begins when one was recorded as delivered.
PhaseOf(status) ==
  CASE status = "absent" -> "absent"
    [] status \in {"pending", "failed"} -> "waiting"
    [] status = "processing" -> "attempting"
    [] status = "delivered" -> "delivered"

Contract == INSTANCE DeliveryContract
              WITH phase <- [n \in Rows |-> PhaseOf(row[n].status)], begun <- tries,
                   arrived <- [n \in Rows |-> accepted[n] + denied[n]]

KeepsContract == Contract!ContractSpec

\* Why NothingAfterYes and KeepsContract are inductive when runs do not overlap: the
\* rows a process has read still are what it read, an attempt is in the column
\* once it is begun, and an accepted message belongs to a delivered row, to the
\* worker that has not committed yet or to a row that nobody will take up again.
ReadsAreFresh ==
  /\ \A w \in Workers : \A n \in held[w] :
       row[n].status = "pending" /\ seen[w][n] = row[n].attempts
  /\ \A w \in Workers : pc[w] \in Engaged =>
       row[cur[w]].status = "processing" /\ cur[w] \notin orphans \cup forgotten
  /\ \A r \in Retriers : \A n \in retry[r] : row[n].status = "failed"
  /\ \A n \in orphans \cup forgotten : row[n].status = "processing"

AttemptsAreCounted ==
  \A n \in Rows : /\ tries[n] = row[n].attempts
                  /\ row[n].status = "absent" => tries[n] = 0

AcceptedIsAccountedFor ==
  \A n \in Rows : accepted[n] # 0 =>
    /\ accepted[n] = 1
    /\ \/ row[n].status = "delivered"
       \/ n \in orphans
       \/ \E w \in Workers : pc[w] = "accepted" /\ cur[w] = n

\* An attempt arrives once at most: not before its send, and before it is delivered.
ArrivalsAreCounted ==
  /\ \A n \in Rows : accepted[n] + denied[n] <= tries[n]
  /\ \A w \in Workers : pc[w] \in {"processing", "sending"} =>
       accepted[cur[w]] + denied[cur[w]] < tries[cur[w]]
  /\ \A w \in Workers : pc[w] = "accepted" => accepted[cur[w]] > 0

SoloInv == ReadsAreFresh /\ AttemptsAreCounted /\ AcceptedIsAccountedFor /\ ArrivalsAreCounted

-----------------------------------------------------------------------------
(* What the repository says of this code. *)

\* "Process pending notifications from queue."
OnlyPendingIsProcessed ==
  [][\A n \in Rows : tries'[n] > tries[n] => row[n].status = "pending"]_vars
=============================================================================
