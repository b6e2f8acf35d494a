------------------------------- MODULE Rollup -------------------------------
(***************************************************************************)
(* The hourly and daily rollup: Celery tasks that count the execution logs *)
(* of an hour into three hourly tables and the hourly rows of a day into a *)
(* daily table.  One workspace: rows of different workspaces never meet.   *)
(*                                                                         *)
(* Two ticks make an hour: the first ends at minute 5, when beat sends the *)
(* hourly task.  An upsert is two steps, because PostgreSQL evaluates its  *)
(* SELECT in the snapshot of the statement's start (READ COMMITTED) and    *)
(* others see the rows only after the commit.                              *)
(***************************************************************************)
EXTENDS Integers, Sequences, FiniteSetsExt

CONSTANTS
  HoursPerDay,  \* length of a day
  LastHour,     \* bound: the last hour in which a task is sent
  MaxLogs,      \* bound on execution logs and user activity
  MaxRetries,   \* max_retries of the tasks
  MaxIncidents, \* bound on exceptions, lost workers and tasks sent by hand
  Manual,       \* a task sent by hand with a target_hour
  Daily,        \* the daily task of the second day
  NoSnap        \* no statement under way

ASSUME RollupAssumption ==
  /\ HoursPerDay \in Nat \ {0}
  /\ LastHour \in Nat \ {0}
  /\ MaxLogs \in Nat /\ MaxRetries \in Nat /\ MaxIncidents \in Nat

VARIABLES
  clock,     \* in ticks
  started,   \* execution_logs by the hour of started_at
  ended,     \* those whose status is completed
  pairs,     \* (session, event type) pairs in user_activity by hour
  table,     \* the hourly tables; a row with total 0 does not exist
  daily,     \* execution_metrics_daily of the first day
  task,      \* the Celery tasks
  incidents  \* exceptions, lost workers and tasks sent by hand so far

vars == <<clock, started, ended, pairs, table, daily, task, incidents>>
world == <<clock, started, ended, pairs>>

Hours == 0..LastHour
LastTick == 2 * LastHour + 3    \* by then the last task has expired
HourOf(c) == c \div 2
HourlyTables == <<"exec", "activity", "credits">>
Hourly == 1..LastHour           \* the task sent at 5 past that hour
Tasks == Hourly \cup {Manual, Daily}
Row == [total : Nat, done : Nat, by : Tasks \cup {NoSnap}]   \* "by" is history
NoRow == [total |-> 0, done |-> 0, by |-> NoSnap]
Steps(t) == IF t = Daily THEN <<"daily">> ELSE HourlyTables

Sum(f, S) == MapThenSumSet(LAMBDA h : f[h], S)
FirstDay == {h \in Hours : h < HoursPerDay}

Init ==
  /\ clock = 0
  /\ started = [h \in Hours |-> 0] /\ ended = started /\ pairs = started
  /\ table = [i \in {"exec", "activity", "credits"} |-> [h \in Hours |-> NoRow]]
  /\ daily = NoRow
  /\ task = [t \in Tasks |-> [pc |-> "unsent", target |-> 0, step |-> 1,
                              snap |-> NoSnap, tries |-> 0, again |-> FALSE]]
  /\ incidents = 0

-----------------------------------------------------------------------------
(* What is counted: written by the services whose executions are analysed. *)

ExecutionStarts ==
  /\ HourOf(clock) \in Hours
  /\ Sum(started, Hours) + Sum(pairs, Hours) < MaxLogs
  /\ started' = [started EXCEPT ![HourOf(clock)] = @ + 1]
  /\ UNCHANGED <<clock, ended, pairs, table, daily, task, incidents>>

\* An execution may end in a later hour than it started in.
ExecutionEnds(h) ==
  /\ ended[h] < started[h]
  /\ ended' = [ended EXCEPT ![h] = @ + 1]
  /\ UNCHANGED <<clock, started, pairs, table, daily, task, incidents>>

UserActs ==
  /\ HourOf(clock) \in Hours
  /\ Sum(started, Hours) + Sum(pairs, Hours) < MaxLogs
  /\ pairs' = [pairs EXCEPT ![HourOf(clock)] = @ + 1]
  /\ UNCHANGED <<clock, started, ended, table, daily, task, incidents>>

-----------------------------------------------------------------------------
(* Beat and the life of a task. *)

\* The tick in which a task is sent, and the first in which it has expired.
SentAt(t) == IF t = Daily THEN 2 * (HoursPerDay + 1) ELSE 2 * t + 1
ExpiresAt(t) == IF t = Daily THEN SentAt(t) + 4 ELSE SentAt(t) + 2
Expired(t) == t # Manual /\ clock >= ExpiresAt(t)

Tick ==
  /\ clock < LastTick
  /\ clock' = clock + 1
  /\ task' = [t \in Tasks |-> IF t # Manual /\ SentAt(t) = clock + 1
                              THEN [task[t] EXCEPT !.pc = "queued"] ELSE task[t]]
  /\ UNCHANGED <<started, ended, pairs, table, daily, incidents>>

Incident == incidents < MaxIncidents /\ incidents' = incidents + 1

\* A gap is filled by hand: the target is an hour that is over.
TriggerManually ==
  /\ task[Manual].pc = "unsent"
  /\ Incident
  /\ \E h \in Hours :
       /\ h < HourOf(clock)
       /\ task' = [task EXCEPT ![Manual].pc = "queued", ![Manual].target = h]
  /\ UNCHANGED <<world, table, daily>>

\* Mutant: the hour that has just begun.
CurrentHour(t) == IF t = Manual THEN task[t].target
                  ELSE IF t = Daily THEN 0 ELSE Min({LastHour, HourOf(clock)})

\* Without an argument the target is computed when the task runs.
Target(t) ==
  IF t = Manual THEN task[t].target
  ELSE IF t = Daily THEN 0              \* the first day: the task expires before the next
  ELSE HourOf(clock) - 1

Begin(t, fields) ==
  task' = [task EXCEPT ![t] = [fields EXCEPT !.pc = "running", !.target = Target(t),
                                             !.step = 1, !.snap = NoSnap]]

\* A worker takes the message, unless it has expired.
Start(t) ==
  /\ task[t].pc = "queued"
  /\ ~Expired(t)
  /\ Begin(t, [task[t] EXCEPT !.again = FALSE])
  /\ UNCHANGED <<world, table, daily, incidents>>

Expire(t) ==
  /\ task[t].pc = "queued"
  /\ Expired(t)
  /\ task' = [task EXCEPT ![t].pc = "expired"]
  /\ UNCHANGED <<world, table, daily, incidents>>

\* run_async: a RuntimeError of the rollup starts it a second time.
RunAgain(t) ==
  /\ task[t].pc = "running" /\ ~task[t].again
  /\ Incident
  /\ Begin(t, [task[t] EXCEPT !.again = TRUE])
  /\ UNCHANGED <<world, table, daily>>

\* Mutant: the exception is only logged.
FailSwallowed(t) ==
  /\ task[t].pc = "running"
  /\ Incident
  /\ task' = [task EXCEPT ![t].pc = "done", ![t].snap = NoSnap]
  /\ UNCHANGED <<world, table, daily>>

\* Mutant: no rollback, the statement stays open.
FailWithoutRollback(t) ==
  /\ task[t].pc = "running"
  /\ Incident
  /\ task' = [task EXCEPT ![t].pc = IF task[t].tries < MaxRetries THEN "queued" ELSE "failed"]
  /\ UNCHANGED <<world, table, daily>>

\* An exception: what is not committed is rolled back; retry or give up.
Fail(t) ==
  /\ task[t].pc = "running"
  /\ Incident
  /\ task' = [task EXCEPT
       ![t].pc = IF task[t].tries < MaxRetries THEN "queued" ELSE "failed",
       ![t].tries = IF @ < MaxRetries THEN @ + 1 ELSE @,
       ![t].snap = NoSnap]
  /\ UNCHANGED <<world, table, daily>>

\* The worker is lost and its message, not acknowledged, is delivered again.
LoseWorker(t) ==
  /\ task[t].pc = "running"
  /\ Incident
  /\ task' = [task EXCEPT ![t].pc = "queued", ![t].snap = NoSnap]
  /\ UNCHANGED <<world, table, daily>>

-----------------------------------------------------------------------------
(* The upserts. *)

\* Mutant: FILTER (status = 'running').
RunningLogsOf(t, h) == [total |-> started[h], done |-> started[h] - ended[h], by |-> t]

\* COUNT(*) and COUNT(*) FILTER (status = 'completed') of the hour's logs.
LogsOf(t, h) == [total |-> started[h], done |-> ended[h], by |-> t]

\* Credits: the same logs, summed by user and agent.
CreditsOf(t, h) == [total |-> started[h], done |-> ended[h], by |-> t]

\* The inner GROUP BY leaves one line per session and event type, and the
\* outer COUNT counts those lines.
ActivityOf(t, h) == [total |-> pairs[h], done |-> 0, by |-> t]

\* The hourly rows of the day joined with the logs of the day: every sum is
\* taken once for each log (LEFT JOIN: at least once).
DayOf ==
  LET copies == Max({1, Sum(started, FirstDay)})
      rows == table["exec"]
  IN [total |-> copies * Sum([h \in FirstDay |-> rows[h].total], FirstDay),
      done |-> copies * Sum([h \in FirstDay |-> rows[h].done], FirstDay),
      by |-> Daily]

\* The statement starts: what it will write is what it sees now.
Snapshot(t) ==
  /\ task[t].pc = "running" /\ task[t].snap = NoSnap
  /\ task' = [task EXCEPT ![t].snap =
       CASE Steps(t)[task[t].step] = "activity" -> ActivityOf(t, task[t].target)
         [] Steps(t)[task[t].step] = "daily" -> DayOf
         [] Steps(t)[task[t].step] = "credits" -> CreditsOf(t, task[t].target)
         [] OTHER -> LogsOf(t, task[t].target)]
  /\ UNCHANGED <<world, table, daily, incidents>>

\* ON CONFLICT DO UPDATE SET ... = EXCLUDED and commit; a SELECT without rows
\* writes nothing.
Commit(t) ==
  LET s == task[t].snap
      name == Steps(t)[task[t].step]
  IN
  /\ task[t].pc = "running" /\ s # NoSnap
  /\ IF s.total = 0 THEN UNCHANGED <<table, daily>>
     ELSE IF t = Daily THEN daily' = s /\ UNCHANGED table
     ELSE table' = [table EXCEPT ![name][task[t].target] = s] /\ UNCHANGED daily
  /\ task' = [task EXCEPT
       ![t].pc = IF task[t].step = Len(Steps(t)) THEN "done" ELSE @,
       ![t].step = IF @ = Len(Steps(t)) THEN 1 ELSE @ + 1,
       ![t].snap = NoSnap]
  /\ UNCHANGED <<world, incidents>>

-----------------------------------------------------------------------------
TaskStep(t) == Start(t) \/ Expire(t) \/ Snapshot(t) \/ Commit(t)

Next ==
  \/ Tick \/ ExecutionStarts \/ UserActs \/ TriggerManually
  \/ \E h \in Hours : ExecutionEnds(h)
  \/ \E t \in Tasks : TaskStep(t) \/ RunAgain(t) \/ Fail(t) \/ LoseWorker(t)

\* Time passes and the workers work; nothing makes executions end.
Fairness == WF_vars(Tick) /\ \A t \in Tasks : WF_vars(TaskStep(t))

Spec == Init /\ [][Next]_vars /\ Fairness

-----------------------------------------------------------------------------
(* Properties. *)

\* The tables hold counts and every task is in a state of its life cycle.
TypeOK ==
  /\ clock \in 0..LastTick
  /\ \A h \in Hours : ended[h] <= started[h]
  /\ \A i \in DOMAIN table : table[i] \in [Hours -> Row]
  /\ daily \in Row
  /\ \A t \in Tasks :
       /\ task[t].pc \in {"unsent", "queued", "running", "done", "failed", "expired"}
       /\ task[t].target \in Hours
       /\ task[t].snap # NoSnap => task[t].pc = "running"

\* An hour enters the tables only when it is over, so a count of the hour's
\* executions or events is final as soon as it is there, however late, often
\* or concurrently the tasks run.
TotalsAreFinal ==
  \A h \in Hours :
    /\ table["exec"][h].total \in {0, started[h]}
    /\ table["credits"][h].total \in {0, started[h]}
    /\ table["activity"][h].total \in {0, pairs[h]}

\* An upsert replaces a count by the one its statement has seen, older or
\* not.  The executions counted as completed become fewer only where one task
\* overwrites what another has counted, never by retries, redeliveries or second
\* runs of one task.
OnlyOtherTasksSetBack ==
  [][\A h \in Hours, i \in DOMAIN table :
       table'[i][h].done < table[i][h].done => table'[i][h].by # table[i][h].by]_vars

Missed(h) ==
  \/ task[h + 1].pc \in {"expired", "failed"}
  \/ task[h + 1].pc \in {"running", "done"} /\ task[h + 1].target # h

\* Every hour with executions gets its row, unless the task that was to count
\* it expired, failed for good, or began (again) after the end of its own hour
\* and counted another one.
HourIsRolledUp ==
  \A h \in Hours \ {LastHour} :
    (HourOf(clock) > h /\ started[h] > 0) ~> (table["exec"][h].total > 0 \/ Missed(h))

\* aggregate_daily_metrics: "Aggregate daily metrics from hourly data."
DailyIsSumOfHours ==
  daily.total <= Sum(started, FirstDay)
=============================================================================
