------------------------------ MODULE RollupProofs ------------------------------
(***************************************************************************)
(* Theorems about Rollup, for every length of the day and of the run, and  *)
(* any number of logs, retries and incidents.                              *)
(***************************************************************************)
EXTENDS Rollup, FiniteSetTheorems, WellFoundedInduction, TLAPS

\* The names of the hourly tables.
TableNames == {"exec", "activity", "credits"}

\* What the table called name counts of the hour h.
Counted(name, h) == IF name = "activity" THEN pairs[h] ELSE started[h]

\* Of the state only what the argument needs.
Shape ==
  /\ clock \in Nat
  /\ DOMAIN started = Hours /\ DOMAIN pairs = Hours
  /\ DOMAIN table = TableNames /\ \A i \in TableNames : DOMAIN table[i] = Hours
  /\ DOMAIN task = Tasks
  /\ \A t \in Tasks : /\ DOMAIN task[t] = {"pc", "target", "step", "snap", "tries", "again"}
                      /\ t # Daily => task[t].step \in {1, 2, 3}

\* The hour h is over.
IsOver(h) == h \in Int /\ h < HourOf(clock)

\* A task that was sent by hand, or that runs, has an hour as its target that is over.
TargetsAreOver ==
  \A t \in Tasks \ {Daily} :
    task[t].pc = "running" \/ (t = Manual /\ task[t].pc # "unsent") => IsOver(task[t].target)

\* What a statement will write it has counted in an hour that was over.
SnapsAreFinal ==
  \A t \in Tasks \ {Daily}, h \in Hours, i \in TableNames :
    task[t].pc = "running" /\ task[t].snap # NoSnap
      /\ task[t].target = h /\ HourlyTables[task[t].step] = i
    => task[t].snap.total = Counted(i, h)

\* A row is there only for an hour that is over, with its count.
RowsAreFinal ==
  \A i \in TableNames, h \in Hours :
    table[i][h].total # 0 => IsOver(h) /\ table[i][h].total = Counted(i, h)

\* The inductive invariant.
RollupInv == Shape /\ TargetsAreOver /\ SnapsAreFinal /\ RowsAreFinal

-----------------------------------------------------------------------------
\* An hour that is over stays so.
LEMMA OverStaysOver ==
  ASSUME clock \in Nat, clock' \in {clock, clock + 1}, NEW h, IsOver(h)
  PROVE  IsOver(h)'
<1>1. HourOf(clock) <= HourOf(clock') /\ HourOf(clock) \in Int /\ HourOf(clock') \in Int
  BY DEF HourOf
<1> QED  BY <1>1 DEF IsOver

\* Nothing more is counted in it.
LEMMA OverStaysCounted ==
  ASSUME Shape, NEW h \in Hours, IsOver(h),
         \/ UNCHANGED <<started, pairs>> \/ ExecutionStarts \/ UserActs
  PROVE  \A i : Counted(i, h)' = Counted(i, h)
<1>1. h # HourOf(clock)
  BY DEF IsOver
<1> QED  BY <1>1 DEF Counted, ExecutionStarts, UserActs, Shape

\* Executions and activity, and the clock: the tasks do nothing.
LEMMA WorldKeeps ==
  ASSUME RollupInv,
         \/ ExecutionStarts \/ UserActs \/ Tick \/ (\E h \in Hours : ExecutionEnds(h))
         \/ UNCHANGED vars
  PROVE  RollupInv'
<1> USE DEF RollupInv
<1>1. /\ clock' \in {clock, clock + 1} /\ clock \in Nat
      /\ UNCHANGED <<started, pairs>> \/ ExecutionStarts \/ UserActs
      /\ table' = table
  BY DEF ExecutionStarts, UserActs, Tick, ExecutionEnds, vars, Shape
<1>2. /\ DOMAIN task' = Tasks
      /\ \A t \in Tasks : /\ DOMAIN task'[t] = DOMAIN task[t]
                          /\ task'[t].step = task[t].step /\ task'[t].snap = task[t].snap
                          /\ task'[t].target = task[t].target
                          /\ task'[t].pc = task[t].pc \/ (task'[t].pc = "queued" /\ t # Manual)
  BY DEF ExecutionStarts, UserActs, Tick, ExecutionEnds, vars, Shape
<1>3. Shape'
  BY <1>1, <1>2 DEF Shape, ExecutionStarts, UserActs
<1>4. TargetsAreOver'
  BY <1>1, <1>2, OverStaysOver DEF TargetsAreOver
<1>5. SnapsAreFinal'
  <2> SUFFICES ASSUME NEW t \in Tasks \ {Daily}, NEW h \in Hours, NEW i \in TableNames,
                      task'[t].pc = "running", task'[t].snap # NoSnap,
                      task'[t].target = h, HourlyTables[task'[t].step] = i
               PROVE  task'[t].snap.total = Counted(i, h)'
    BY DEF SnapsAreFinal
  <2>1. IsOver(h) /\ task[t].snap.total = Counted(i, h)
    BY <1>2 DEF TargetsAreOver, SnapsAreFinal
  <2> QED  BY <1>1, <1>2, <2>1, OverStaysCounted
<1>6. RowsAreFinal'
  BY <1>1, OverStaysOver, OverStaysCounted DEF RowsAreFinal
<1> QED  BY <1>3, <1>4, <1>5, <1>6

\* A task that begins has nothing counted yet, and its target is over.
LEMMA BeginKeeps ==
  ASSUME RollupInv, NEW t \in Tasks, NEW fields, Begin(t, fields),
         DOMAIN fields = DOMAIN task[t], fields.target = task[t].target,
         t = Manual => task[t].pc # "unsent",
         UNCHANGED <<clock, started, pairs, table>>
  PROVE  RollupInv'
<1> USE DEF RollupInv
<1>1. /\ DOMAIN task' = Tasks /\ \A u \in Tasks \ {t} : task'[u] = task[u]
      /\ DOMAIN task'[t] = DOMAIN task[t] /\ task'[t].step = 1
      /\ task'[t].snap = NoSnap /\ task'[t].target = Target(t)
  BY DEF Begin, Shape
<1>2. t # Daily => IsOver(Target(t))
  <2>1. HourOf(clock) \in Int
    BY DEF Shape, HourOf
  <2> QED  BY <2>1 DEF Target, IsOver, TargetsAreOver
<1>3. Shape'
  BY <1>1 DEF Shape
<1>4. TargetsAreOver'
  <2>1. \A h : IsOver(h)' <=> IsOver(h)
    BY DEF IsOver
  <2>2. \A u \in Tasks \ {Daily} :
          task'[u].pc = "running" \/ (u = Manual /\ task'[u].pc # "unsent") =>
            IsOver(task'[u].target)
    BY <1>1, <1>2 DEF TargetsAreOver
  <2> QED  BY <2>2 DEF TargetsAreOver, IsOver
<1>5. SnapsAreFinal'
  BY <1>1 DEF SnapsAreFinal, Counted
<1>6. RowsAreFinal'
  BY DEF RowsAreFinal, Counted, IsOver
<1> QED  BY <1>3, <1>4, <1>5, <1>6

\* A task that is sent by hand, expires, fails or loses its worker does not run.
LEMMA WaitKeeps ==
  ASSUME RollupInv,
         TriggerManually \/ \E t \in Tasks : Expire(t) \/ Fail(t) \/ LoseWorker(t)
  PROVE  RollupInv'
<1> USE DEF RollupInv
<1>1. UNCHANGED <<clock, started, pairs, table>> /\ DOMAIN task' = Tasks
  BY DEF TriggerManually, Expire, Fail, LoseWorker, world, Shape
<1>2. \A t \in Tasks :
        /\ DOMAIN task'[t] = DOMAIN task[t] /\ task'[t].step = task[t].step
        /\ \/ task'[t] = task[t]
           \/ /\ task'[t].pc # "running"
              /\ \/ task[t].pc # "unsent" /\ task'[t].target = task[t].target
                 \/ IsOver(task'[t].target)
  <2>1. CASE TriggerManually
    BY <2>1 DEF TriggerManually, Shape, IsOver, Hours
  <2>2. ASSUME NEW t \in Tasks, Expire(t) \/ Fail(t) \/ LoseWorker(t)
        PROVE  /\ \A u \in Tasks \ {t} : task'[u] = task[u]
               /\ task'[t].step = task[t].step /\ DOMAIN task'[t] = DOMAIN task[t]
               /\ task'[t].target = task[t].target
               /\ task[t].pc # "unsent" /\ task'[t].pc # "running"
    <3>1. CASE Expire(t)
      BY <3>1 DEF Expire, Shape
    <3>2. CASE Fail(t)
      BY <3>2 DEF Fail, Shape
    <3>3. CASE LoseWorker(t)
      BY <3>3 DEF LoseWorker, Shape
    <3> QED  BY <2>2, <3>1, <3>2, <3>3
  <2> QED  BY <2>1, <2>2
<1>3. Shape'
  BY <1>1, <1>2 DEF Shape
<1>4. TargetsAreOver'
  BY <1>1, <1>2 DEF TargetsAreOver, IsOver
<1>5. SnapsAreFinal'
  BY <1>1, <1>2 DEF SnapsAreFinal, Counted
<1>6. RowsAreFinal'
  BY <1>1 DEF RowsAreFinal, Counted, IsOver
<1> QED  BY <1>3, <1>4, <1>5, <1>6

\* Start and RunAgain begin a task.
LEMMA StartKeeps ==
  ASSUME RollupInv, NEW t \in Tasks, Start(t) \/ RunAgain(t)
  PROVE  RollupInv'
<1> DEFINE fields(a) == [task[t] EXCEPT !.again = a]
<1>1. \A a : DOMAIN fields(a) = DOMAIN task[t] /\ fields(a).target = task[t].target
  BY DEF RollupInv, Shape
<1>2. UNCHANGED <<clock, started, pairs, table>> /\ task[t].pc # "unsent"
  BY DEF Start, RunAgain, world
<1>3. Begin(t, fields(TRUE)) \/ Begin(t, fields(FALSE))
  BY DEF Start, RunAgain
<1> HIDE DEF fields
<1> QED  BY <1>1, <1>2, <1>3, BeginKeeps

\* The statement counts the target.
LEMMA SnapshotKeeps ==
  ASSUME RollupInv, NEW t \in Tasks, Snapshot(t)
  PROVE  RollupInv'
<1> USE DEF RollupInv
<1>1. /\ UNCHANGED <<clock, started, pairs, table>> /\ DOMAIN task' = Tasks
      /\ \A u \in Tasks \ {t} : task'[u] = task[u]
      /\ DOMAIN task'[t] = DOMAIN task[t] /\ task'[t].step = task[t].step
      /\ task'[t].pc = task[t].pc /\ task'[t].target = task[t].target
  BY DEF Snapshot, world, Shape
<1>2. t # Daily => task'[t].snap.total = Counted(HourlyTables[task[t].step], task[t].target)
  BY DEF Snapshot, Shape, Steps, HourlyTables, LogsOf, CreditsOf, ActivityOf, Counted
<1>3. Shape'
  BY <1>1 DEF Shape
<1>4. TargetsAreOver'
  BY <1>1 DEF TargetsAreOver, IsOver
<1>5. SnapsAreFinal'
  BY <1>1, <1>2 DEF SnapsAreFinal, Counted
<1>6. RowsAreFinal'
  BY <1>1 DEF RowsAreFinal, Counted, IsOver
<1> QED  BY <1>3, <1>4, <1>5, <1>6

\* The count that is written is still that of the target.
LEMMA CommitKeeps ==
  ASSUME RollupInv, NEW t \in Tasks, Commit(t)
  PROVE  RollupInv'
<1> USE DEF RollupInv
<1>1. /\ UNCHANGED <<clock, started, pairs>> /\ DOMAIN task' = Tasks
      /\ \A u \in Tasks \ {t} : task'[u] = task[u]
      /\ DOMAIN task'[t] = DOMAIN task[t] /\ task'[t].snap = NoSnap
      /\ task[t].pc = "running" /\ task[t].snap # NoSnap
      /\ task'[t].target = task[t].target
  BY DEF Commit, world, Shape
<1>2. t # Daily => task'[t].step \in {1, 2, 3}
  BY DEF Commit, Shape, Steps, HourlyTables
<1>3. \A i \in TableNames :
        /\ DOMAIN table'[i] = Hours
        /\ \A h \in Hours :
             \/ table'[i][h] = table[i][h]
             \/ /\ t # Daily /\ h = task[t].target /\ i = HourlyTables[task[t].step]
                /\ table'[i][h] = task[t].snap
  BY DEF Commit, Shape, Steps, TableNames
<1>4. Shape'
  BY <1>1, <1>2, <1>3 DEF Shape, Commit
<1>5. TargetsAreOver'
  BY <1>1 DEF TargetsAreOver, IsOver
<1>6. SnapsAreFinal'
  BY <1>1 DEF SnapsAreFinal, Counted
<1>7. RowsAreFinal'
  BY <1>1, <1>3 DEF RowsAreFinal, TargetsAreOver, SnapsAreFinal, Counted, IsOver
<1> QED  BY <1>4, <1>5, <1>6, <1>7

\* At the start the tables are empty and no task has been sent.
LEMMA InitRollupInv == Init => RollupInv
  BY DEF Init, RollupInv, Shape, TargetsAreOver, SnapsAreFinal, RowsAreFinal, NoRow, TableNames

\* All steps.
LEMMA StepKeepsRollupInv == RollupInv /\ [Next]_vars => RollupInv'
  BY WorldKeeps, StartKeeps, WaitKeeps, SnapshotKeeps, CommitKeeps DEF Next, TaskStep

\* RollupService.aggregate_hourly: however late, often or concurrently the hourly
\* tasks run, a total in an hourly table is that of the whole hour.
THEOREM TotalsStayFinal == Spec => []TotalsAreFinal
<1>1. RollupInv => TotalsAreFinal
  BY DEF RollupInv, RowsAreFinal, TotalsAreFinal, Counted, TableNames
<1> QED  BY <1>1, InitRollupInv, StepKeepsRollupInv, PTL DEF Spec

-----------------------------------------------------------------------------
(* A task does not set back what it has counted itself. *)

\* What the table called name counts as completed in the hour h.
Completed(name, h) == IF name = "activity" THEN 0 ELSE ended[h]

\* Rows never count more as completed than there is.
RowsAreNotAhead ==
  \A i \in TableNames, h \in Hours :
    table[i][h].done \in Nat /\ table[i][h].done <= Completed(i, h)

\* A statement has seen at least what an earlier one of its own task has.
SnapsFollowOwnRows ==
  \A t \in Tasks \ {Daily}, h \in Hours, i \in TableNames :
    task[t].pc = "running" /\ task[t].snap # NoSnap
      /\ task[t].target = h /\ HourlyTables[task[t].step] = i
    => /\ task[t].snap.by = t
       /\ task[t].snap.done \in Nat /\ task[t].snap.done <= Completed(i, h)
       /\ table[i][h].by = t => table[i][h].done <= task[t].snap.done

\* The inductive invariant, beside RollupInv.
OwnCountInv ==
  /\ ended \in [Hours -> Nat]
  /\ RowsAreNotAhead /\ SnapsFollowOwnRows

\* Steps that write no row and begin no statement.
LEMMA OthersKeepOwnCounts ==
  ASSUME Shape, OwnCountInv, table' = table, ended' \in [Hours -> Nat],
         \A h \in Hours : ended[h] <= ended'[h],
         \A t \in Tasks : task'[t].pc = "running" /\ task'[t].snap # NoSnap =>
           /\ task[t].pc = "running" /\ task'[t].snap = task[t].snap
           /\ task'[t].target = task[t].target /\ task'[t].step = task[t].step
  PROVE  OwnCountInv'
<1>1. \A i \in TableNames, h \in Hours :
        /\ Completed(i, h) \in Nat /\ Completed(i, h)' \in Nat
        /\ Completed(i, h) <= Completed(i, h)'
  BY DEF Completed, OwnCountInv
<1>2. RowsAreNotAhead'
  <2> SUFFICES ASSUME NEW i \in TableNames, NEW h \in Hours
               PROVE  table[i][h].done \in Nat /\ table[i][h].done <= Completed(i, h)'
    BY DEF RowsAreNotAhead
  <2>1. table[i][h].done \in Nat /\ table[i][h].done <= Completed(i, h)
    BY DEF OwnCountInv, RowsAreNotAhead
  <2> QED  BY <1>1, <2>1
<1>3. SnapsFollowOwnRows'
  <2> SUFFICES ASSUME NEW t \in Tasks \ {Daily}, NEW h \in Hours, NEW i \in TableNames,
                      task'[t].pc = "running", task'[t].snap # NoSnap,
                      task'[t].target = h, HourlyTables[task'[t].step] = i
               PROVE  /\ task'[t].snap.by = t /\ task'[t].snap.done \in Nat
                      /\ task'[t].snap.done <= Completed(i, h)'
                      /\ table[i][h].by = t => table[i][h].done <= task'[t].snap.done
    BY DEF SnapsFollowOwnRows
  <2>1. /\ task'[t].snap = task[t].snap
        /\ task[t].snap.by = t /\ task[t].snap.done \in Nat
        /\ task[t].snap.done <= Completed(i, h)
        /\ table[i][h].by = t => table[i][h].done <= task[t].snap.done
    BY DEF OwnCountInv, SnapsFollowOwnRows
  <2> QED  BY <1>1, <2>1
<1> QED  BY <1>2, <1>3 DEF OwnCountInv

\* Nothing but a commit writes rows.
LEMMA WorldKeepsOwnCounts ==
  ASSUME Shape, OwnCountInv,
         \/ ExecutionStarts \/ UserActs \/ Tick \/ (\E h \in Hours : ExecutionEnds(h))
         \/ UNCHANGED vars
  PROVE  OwnCountInv' /\ table' = table
<1>1. table' = table
  BY DEF ExecutionStarts, UserActs, Tick, ExecutionEnds, vars
<1>2. ended' \in [Hours -> Nat] /\ \A h \in Hours : ended[h] <= ended'[h]
  <2> USE DEF OwnCountInv
  <2>1. CASE \E h \in Hours : ExecutionEnds(h)
    BY <2>1 DEF ExecutionEnds
  <2>2. CASE ended' = ended
    BY <2>2
  <2> QED  BY <2>1, <2>2 DEF ExecutionStarts, UserActs, Tick, vars
<1>3. \A t \in Tasks : task'[t].pc = "running" /\ task'[t].snap # NoSnap =>
           /\ task[t].pc = "running" /\ task'[t].snap = task[t].snap
           /\ task'[t].target = task[t].target /\ task'[t].step = task[t].step
  BY DEF ExecutionStarts, UserActs, Tick, ExecutionEnds, vars, Shape
<1> QED  BY <1>1, <1>2, <1>3, OthersKeepOwnCounts

\* A task that begins, waits or ends has no statement under way.
LEMMA WaitKeepsOwnCounts ==
  ASSUME Shape, OwnCountInv,
         TriggerManually \/ \E t \in Tasks :
           Start(t) \/ RunAgain(t) \/ Expire(t) \/ Fail(t) \/ LoseWorker(t)
  PROVE  OwnCountInv' /\ table' = table
<1>1. table' = table /\ ended' = ended
  BY DEF TriggerManually, Start, RunAgain, Begin, Expire, Fail, LoseWorker, world
<1>2. \A t \in Tasks : task'[t].pc = "running" /\ task'[t].snap # NoSnap =>
        task'[t] = task[t]
  <2>1. CASE TriggerManually
    BY <2>1 DEF TriggerManually, Shape
  <2>2. ASSUME NEW t \in Tasks, Start(t) \/ RunAgain(t)
        PROVE  task'[t].snap = NoSnap /\ \A u \in Tasks \ {t} : task'[u] = task[u]
    BY <2>2 DEF Start, RunAgain, Begin, Shape
  <2>3. ASSUME NEW t \in Tasks, Expire(t) \/ Fail(t) \/ LoseWorker(t)
        PROVE  task'[t].pc # "running" /\ \A u \in Tasks \ {t} : task'[u] = task[u]
    <3>1. CASE Expire(t)
      BY <3>1 DEF Expire, Shape
    <3>2. CASE Fail(t)
      BY <3>2 DEF Fail, Shape
    <3>3. CASE LoseWorker(t)
      BY <3>3 DEF LoseWorker, Shape
    <3> QED  BY <2>3, <3>1, <3>2, <3>3
  <2> QED  BY <2>1, <2>2, <2>3
<1>3. ended' \in [Hours -> Nat] /\ \A h \in Hours : ended[h] <= ended'[h]
  BY <1>1 DEF OwnCountInv
<1> QED  BY <1>1, <1>2, <1>3, OthersKeepOwnCounts

\* The statement sees all that there is, so also what its task has counted.
LEMMA SnapshotKeepsOwnCounts ==
  ASSUME Shape, OwnCountInv, NEW t \in Tasks, Snapshot(t)
  PROVE  OwnCountInv' /\ table' = table
<1>1. /\ table' = table /\ ended' = ended
      /\ \A u \in Tasks \ {t} : task'[u] = task[u]
      /\ task'[t].step = task[t].step /\ task'[t].target = task[t].target
  BY DEF Snapshot, world, Shape
<1>2. t # Daily => /\ task'[t].snap.by = t
                   /\ task'[t].snap.done = Completed(HourlyTables[task[t].step], task[t].target)
  BY DEF Snapshot, Shape, Steps, HourlyTables, LogsOf, CreditsOf, ActivityOf, Completed
<1>3. \A i, h : Completed(i, h)' = Completed(i, h)
  BY <1>1 DEF Completed
<1>4. RowsAreNotAhead'
  BY <1>1, <1>3 DEF OwnCountInv, RowsAreNotAhead
<1>5. SnapsFollowOwnRows'
  <2> SUFFICES ASSUME NEW u \in Tasks \ {Daily}, NEW h \in Hours, NEW i \in TableNames,
                      task'[u].pc = "running", task'[u].snap # NoSnap,
                      task'[u].target = h, HourlyTables[task'[u].step] = i
               PROVE  /\ task'[u].snap.by = u /\ task'[u].snap.done \in Nat
                      /\ task'[u].snap.done <= Completed(i, h)
                      /\ table[i][h].by = u => table[i][h].done <= task'[u].snap.done
    BY <1>1, <1>3 DEF SnapsFollowOwnRows
  <2>1. CASE u = t
    <3>1. /\ Completed(i, h) \in Nat
          /\ table[i][h].done \in Nat /\ table[i][h].done <= Completed(i, h)
      BY DEF OwnCountInv, RowsAreNotAhead, Completed
    <3> QED  BY <1>1, <1>2, <2>1, <3>1
  <2>2. CASE u # t
    BY <1>1, <2>2 DEF OwnCountInv, SnapsFollowOwnRows
  <2> QED  BY <2>1, <2>2
<1> QED  BY <1>1, <1>4, <1>5 DEF OwnCountInv

\* A row that a task writes over one of its own counts no less.
LEMMA CommitKeepsOwnCounts ==
  ASSUME Shape, OwnCountInv, NEW t \in Tasks, Commit(t)
  PROVE  /\ OwnCountInv'
         /\ \A i \in TableNames, h \in Hours :
              table'[i][h].done < table[i][h].done => table'[i][h].by # table[i][h].by
<1>1. /\ ended' = ended /\ \A u \in Tasks \ {t} : task'[u] = task[u]
      /\ task[t].pc = "running" /\ task[t].snap # NoSnap /\ task'[t].snap = NoSnap
  BY DEF Commit, world, Shape
<1>2. \A i \in TableNames, h \in Hours :
        \/ table'[i][h] = table[i][h]
        \/ /\ t # Daily /\ h = task[t].target /\ i = HourlyTables[task[t].step]
           /\ table'[i][h] = task[t].snap
  BY DEF Commit, Shape, Steps, TableNames
<1>3. \A i \in TableNames, h \in Hours :
        \/ table'[i][h] = table[i][h]
        \/ /\ table'[i][h].by = t
           /\ table'[i][h].done \in Nat /\ table'[i][h].done <= Completed(i, h)
           /\ table[i][h].by = t => table[i][h].done <= table'[i][h].done
  BY <1>1, <1>2 DEF OwnCountInv, SnapsFollowOwnRows
<1>4. \A i, h : Completed(i, h)' = Completed(i, h)
  BY <1>1 DEF Completed
<1>5. RowsAreNotAhead'
  BY <1>3, <1>4 DEF OwnCountInv, RowsAreNotAhead
<1>6. SnapsFollowOwnRows'
  <2> SUFFICES ASSUME NEW u \in Tasks \ {Daily}, NEW h \in Hours, NEW i \in TableNames,
                      task'[u].pc = "running", task'[u].snap # NoSnap,
                      task'[u].target = h, HourlyTables[task'[u].step] = i
               PROVE  /\ task'[u].snap.by = u /\ task'[u].snap.done \in Nat
                      /\ task'[u].snap.done <= Completed(i, h)
                      /\ table'[i][h].by = u => table'[i][h].done <= task'[u].snap.done
    BY <1>4 DEF SnapsFollowOwnRows
  <2>1. u # t /\ task'[u] = task[u]
    BY <1>1
  <2> QED  BY <1>3, <2>1 DEF OwnCountInv, SnapsFollowOwnRows
<1>7. \A i \in TableNames, h \in Hours :
        table'[i][h].done < table[i][h].done => table'[i][h].by # table[i][h].by
  <2> SUFFICES ASSUME NEW i \in TableNames, NEW h \in Hours,
                      table'[i][h].done < table[i][h].done,
                      table'[i][h].by = table[i][h].by
               PROVE  FALSE
    OBVIOUS
  <2>1. table[i][h].done \in Nat
    BY DEF OwnCountInv, RowsAreNotAhead
  <2> QED  BY <1>3, <2>1
<1> QED  BY <1>1, <1>5, <1>6, <1>7 DEF OwnCountInv

\* At the start nothing is counted.
LEMMA InitOwnCountInv == Init => OwnCountInv
  BY DEF Init, OwnCountInv, RowsAreNotAhead, SnapsFollowOwnRows, NoRow, TableNames, Completed

\* All steps.
LEMMA StepKeepsOwnCounts ==
  ASSUME RollupInv, OwnCountInv, [Next]_vars
  PROVE  /\ OwnCountInv'
         /\ \A i \in TableNames, h \in Hours :
              table'[i][h].done < table[i][h].done => table'[i][h].by # table[i][h].by
<1>1. Shape
  BY DEF RollupInv
<1>2. CASE OwnCountInv' /\ table' = table
  <2>1. \A i \in TableNames, h \in Hours : table[i][h].done \in Nat
    BY DEF OwnCountInv, RowsAreNotAhead
  <2> QED  BY <1>2, <2>1
<1>3. CASE \E t \in Tasks : Commit(t)
  BY <1>1, <1>3, CommitKeepsOwnCounts
<1>4. CASE \E t \in Tasks : Snapshot(t)
  BY <1>1, <1>2, <1>4, SnapshotKeepsOwnCounts
<1> QED  BY <1>1, <1>2, <1>3, <1>4, WorldKeepsOwnCounts, WaitKeepsOwnCounts DEF Next, TaskStep

\* RollupService.aggregate_hourly: the upsert of a late statement may replace a
\* newer count by an older one, but never one of the same task.
THEOREM OwnCountsNeverFall == Spec => OnlyOtherTasksSetBack
<1>1. RollupInv /\ OwnCountInv /\ [Next]_vars
        => [\A h \in Hours, i \in DOMAIN table :
              table'[i][h].done < table[i][h].done => table'[i][h].by # table[i][h].by]_vars
  <2>1. RollupInv => DOMAIN table = TableNames
    BY DEF RollupInv, Shape
  <2> QED  BY <2>1, StepKeepsOwnCounts
<1>2. RollupInv /\ OwnCountInv /\ [Next]_vars => OwnCountInv'
  BY StepKeepsOwnCounts
<1>3. Spec => []RollupInv
  BY InitRollupInv, StepKeepsRollupInv, PTL DEF Spec
<1> QED  BY <1>1, <1>2, <1>3, InitOwnCountInv, PTL DEF Spec, OnlyOtherTasksSetBack

-----------------------------------------------------------------------------
(* Sums over finite sets. *)

\* A set of natural numbers that is not empty has a smallest one.
LEMMA SmallestExists ==
  ASSUME NEW S \in SUBSET Nat, S # {}
  PROVE  \E m \in S : \A s \in S : m <= s
<1> DEFINE R == OpToRel(<, Nat)
<1>1. IsWellFoundedOn(R, Nat)
  BY NatLessThanWellFounded
<1>2. \A x, y \in Nat : <<y, x>> \in R <=> y < x
  BY DEF OpToRel
<1> HIDE DEF R
<1>3. PICK m \in S : \A s \in S : ~ (<<s, m>> \in R)
  BY <1>1, WFMin
<1>4. \A s \in S : s \in Nat /\ m \in Nat /\ ~ (s < m)
  BY <1>2, <1>3
<1>5. \A s \in S : m <= s
  BY <1>4
<1> QED  BY <1>3, <1>5

\* The element of s that a sum takes next.
NextOf(s) == CHOOSE x \in s : TRUE

\* g sums f over the subsets of S.
IsSumOver(g, f, S) ==
  g = [s \in SUBSET S |-> IF s = {} THEN 0 ELSE f[NextOf(s)] + g[s \ {NextOf(s)}]]

\* A sum is the value of a function that sums over every subset.
LEMMA SumIsIterated ==
  ASSUME NEW f, NEW S
  PROVE  Sum(f, S) = (CHOOSE g : IsSumOver(g, f, S))[S]
  BY DEF Sum, MapThenSumSet, MapThenFoldSet, IsSumOver, NextOf

\* g sums f over the subsets of S of at most n elements.
SumsUpTo(g, f, S, n) ==
  \A s \in SUBSET S : Cardinality(s) <= n =>
    g[s] = IF s = {} THEN 0 ELSE f[NextOf(s)] + g[s \ {NextOf(s)}]

\* To take an element off a set leaves a smaller one.
LEMMA NextIsSmaller ==
  ASSUME NEW S, IsFiniteSet(S), NEW s \in SUBSET S, s # {}
  PROVE  /\ NextOf(s) \in s /\ s \ {NextOf(s)} \in SUBSET S
         /\ Cardinality(s) \in Nat \ {0}
         /\ Cardinality(s \ {NextOf(s)}) = Cardinality(s) - 1
<1>1. NextOf(s) \in s
  BY DEF NextOf
<1>2. IsFiniteSet(s)
  BY FS_Subset
<1>3. Cardinality(s) \in Nat /\ Cardinality(s) # 0
  BY <1>2, FS_CardinalityType, FS_EmptySet
<1>4. Cardinality(s \ {NextOf(s)}) = Cardinality(s) - 1
  BY <1>1, <1>2, FS_RemoveElement
<1> QED  BY <1>1, <1>3, <1>4

\* There is such a function for subsets of every size.
LEMMA SumsExist ==
  ASSUME NEW f, NEW S, IsFiniteSet(S), NEW N \in Nat
  PROVE  \E g : g = [s \in SUBSET S |-> g[s]] /\ SumsUpTo(g, f, S, N)
<1> DEFINE Has(n) == \E g : g = [s \in SUBSET S |-> g[s]] /\ SumsUpTo(g, f, S, n)
           Bad == {n \in Nat : ~Has(n)}
<1>1. SUFFICES ASSUME Bad # {} PROVE FALSE
  OBVIOUS
<1>2. PICK n \in Bad : \A m \in Bad : n <= m
  BY <1>1, SmallestExists
<1>3. \A s \in SUBSET S : Cardinality(s) \in Nat /\ (Cardinality(s) = 0 <=> s = {})
  BY FS_Subset, FS_CardinalityType, FS_EmptySet
<1>4. CASE n = 0
  <2> DEFINE g == [s \in SUBSET S |-> 0]
  <2>1. g = [s \in SUBSET S |-> g[s]]
    OBVIOUS
  <2>2. SumsUpTo(g, f, S, 0)
    BY <1>3 DEF SumsUpTo
  <2> QED  BY <2>1, <2>2, <1>4, <1>2
<1>5. CASE n # 0
  <2>0. n \in Nat /\ \A m \in Nat : n <= m \/ Has(m)
    <3> HIDE DEF Has
    <3> QED  BY <1>2
  <2>1. n - 1 \in Nat /\ Has(n - 1)
    <3> HIDE DEF Has
    <3> QED  BY <1>5, <2>0
  <2>2. PICK g : g = [s \in SUBSET S |-> g[s]] /\ SumsUpTo(g, f, S, n - 1)
    BY <2>1
  <2> DEFINE Value(k, s) == IF s = {} THEN 0 ELSE f[NextOf(s)] + k[s \ {NextOf(s)}]
             h == [s \in SUBSET S |-> Value(g, s)]
  <2>3. h = [s \in SUBSET S |-> h[s]]
    OBVIOUS
  <2>4. \A s \in SUBSET S : Cardinality(s) <= n - 1 => h[s] = g[s]
    BY <2>2 DEF SumsUpTo
  <2>5. ASSUME NEW s \in SUBSET S, Cardinality(s) <= n
        PROVE  h[s] = Value(h, s)
    <3>1. CASE s = {}
      BY <3>1
    <3>2. CASE s # {}
      <4> DEFINE r == s \ {NextOf(s)}
      <4>1. r \in SUBSET S /\ Cardinality(r) <= n - 1
        BY <3>2, <2>5, NextIsSmaller
      <4>2. h[r] = g[r]
        BY <4>1, <2>4
      <4>3. h[s] = f[NextOf(s)] + g[r]
        BY <3>2
      <4>4. Value(h, s) = f[NextOf(s)] + h[r]
        BY <3>2
      <4> QED  BY <4>2, <4>3, <4>4
    <3> QED  BY <3>1, <3>2
  <2>6. SumsUpTo(h, f, S, n)
    BY <2>5 DEF SumsUpTo
  <2> QED  BY <2>3, <2>6, <1>2
<1> QED  BY <1>4, <1>5

\* A sum of natural numbers is one.
LEMMA SumIsNat ==
  ASSUME NEW f, NEW S, IsFiniteSet(S), \A x \in S : f[x] \in Nat
  PROVE  Sum(f, S) \in Nat
<1> DEFINE g == CHOOSE k : IsSumOver(k, f, S)
<1>1. Cardinality(S) \in Nat /\ \A s \in SUBSET S : Cardinality(s) \in Nat /\ Cardinality(s) <= Cardinality(S)
  BY FS_Subset, FS_CardinalityType
<1>2. \E k : IsSumOver(k, f, S)
  <2>1. PICK k : k = [s \in SUBSET S |-> k[s]] /\ SumsUpTo(k, f, S, Cardinality(S))
    BY <1>1, SumsExist
  <2>2. \A s \in SUBSET S : k[s] = IF s = {} THEN 0 ELSE f[NextOf(s)] + k[s \ {NextOf(s)}]
    BY <1>1, <2>1 DEF SumsUpTo
  <2>3. IsSumOver(k, f, S)
    BY <2>1, <2>2 DEF IsSumOver
  <2> QED  BY <2>3
<1>3. IsSumOver(g, f, S)
  BY <1>2
<1>4. Sum(f, S) = g[S]
  BY SumIsIterated
<1> HIDE DEF g
<1>5. \A s \in SUBSET S : g[s] = IF s = {} THEN 0 ELSE f[NextOf(s)] + g[s \ {NextOf(s)}]
  BY <1>3 DEF IsSumOver
<1> DEFINE Bad == {n \in Nat : \E s \in SUBSET S : Cardinality(s) = n /\ g[s] \notin Nat}
<1>6. SUFFICES ASSUME Bad # {} PROVE FALSE
  BY <1>1, <1>4
<1>7. PICK n \in Bad : \A m \in Bad : n <= m
  BY <1>6, SmallestExists
<1>8. PICK s \in SUBSET S : Cardinality(s) = n /\ g[s] \notin Nat
  BY <1>7
<1>9. s # {}
  <2>1. s = {} => g[s] = 0
    BY <1>5
  <2> QED  BY <1>8, <2>1
<1> DEFINE r == s \ {NextOf(s)}
<1>10. /\ NextOf(s) \in S /\ r \in SUBSET S
       /\ n \in Nat \ {0} /\ Cardinality(r) = n - 1
  BY <1>8, <1>9, NextIsSmaller
<1>11. n - 1 \in Nat /\ n - 1 \notin Bad
  BY <1>7, <1>10
<1>12. g[r] \in Nat
  BY <1>10, <1>11
<1>13. g[s] = f[NextOf(s)] + g[r]
  BY <1>5, <1>9
<1>14. f[NextOf(s)] \in Nat
  BY <1>10
<1> HIDE DEF r, Bad
<1> QED  BY <1>8, <1>12, <1>13, <1>14

-----------------------------------------------------------------------------
(* Type correctness. *)

\* A task is in a state of its life cycle, and has been sent before it runs.
TaskTyped(t) ==
  /\ DOMAIN task[t] = {"pc", "target", "step", "snap", "tries", "again"}
  /\ task[t].pc \in {"unsent", "queued", "running", "done", "failed", "expired"}
  /\ task[t].target \in Hours
  /\ task[t].snap # NoSnap => task[t].pc = "running" /\ task[t].snap \in Row
  /\ task[t].pc # "unsent" /\ t # Manual => SentAt(t) <= clock

\* What is counted, and when.
WorldTyped ==
  /\ clock \in 0..LastTick
  /\ started \in [Hours -> Nat] /\ ended \in [Hours -> Nat] /\ pairs \in [Hours -> Nat]
  /\ \A h \in Hours : ended[h] <= started[h]

\* The tables.
TablesTyped ==
  /\ DOMAIN table = TableNames /\ \A i \in TableNames : table[i] \in [Hours -> Row]
  /\ daily \in Row

\* The inductive invariant.
TypeInv == WorldTyped /\ TablesTyped /\ DOMAIN task = Tasks /\ \A t \in Tasks : TaskTyped(t)

\* Natural numbers can be multiplied.
LEMMA ProductIsNat ==
  ASSUME NEW a \in Nat, NEW b \in Nat
  PROVE  a * b \in Nat
  OBVIOUS

\* A count is a row.
LEMMA CountIsRow ==
  ASSUME NEW a \in Nat, NEW b \in Nat, NEW t \in Tasks
  PROVE  [total |-> a, done |-> b, by |-> t] \in Row
  BY DEF Row

\* The row of the day is one, whatever is summed.
LEMMA DayIsRow ==
  ASSUME WorldTyped, TablesTyped
  PROVE  DayOf \in Row
<1> DEFINE rows == table["exec"]
           n == Sum(started, FirstDay)
           totals == [h \in FirstDay |-> rows[h].total]
           dones == [h \in FirstDay |-> rows[h].done]
<1>1. FirstDay \subseteq Hours /\ IsFiniteSet(FirstDay)
  <2>1. FirstDay \subseteq Hours
    BY DEF FirstDay
  <2>2. IsFiniteSet(Hours)
    BY RollupAssumption, FS_Interval DEF Hours
  <2> QED  BY <2>1, <2>2, FS_Subset
<1>2. \A h \in FirstDay : started[h] \in Nat /\ rows[h].total \in Nat /\ rows[h].done \in Nat
  BY <1>1 DEF WorldTyped, TablesTyped, TableNames, Row
<1>3. n \in Nat
  BY <1>1, <1>2, SumIsNat
<1> HIDE DEF n
<1>4. Max({1, n}) \in Nat
  <2>1. \E x \in {1, n} : \A y \in {1, n} : x >= y
    BY <1>3
  <2>2. Max({1, n}) \in {1, n}
    BY <2>1 DEF Max
  <2> QED  BY <1>3, <2>2
<1>5. Sum(totals, FirstDay) \in Nat /\ Sum(dones, FirstDay) \in Nat
  <2>1. \A h \in FirstDay : totals[h] \in Nat /\ dones[h] \in Nat
    BY <1>2
  <2> HIDE DEF totals, dones
  <2> QED  BY <1>1, <2>1, SumIsNat
<1>6. DayOf = [total |-> Max({1, n}) * Sum(totals, FirstDay),
               done |-> Max({1, n}) * Sum(dones, FirstDay), by |-> Daily]
  BY DEF DayOf, n
<1>7. Daily \in Tasks
  BY DEF Tasks
<1> HIDE DEF totals, dones
<1>8. /\ Max({1, n}) * Sum(totals, FirstDay) \in Nat
      /\ Max({1, n}) * Sum(dones, FirstDay) \in Nat
  BY <1>4, <1>5, ProductIsNat
<1> QED  BY <1>6, <1>7, <1>8, CountIsRow

\* A step of one task.
LEMMA OneTaskTyped ==
  ASSUME WorldTyped, UNCHANGED world, TablesTyped',
         DOMAIN task = Tasks, \A u \in Tasks : TaskTyped(u),
         NEW t \in Tasks, DOMAIN task' = Tasks, \A u \in Tasks \ {t} : task'[u] = task[u],
         DOMAIN task'[t] = DOMAIN task[t],
         task'[t].pc \in {"unsent", "queued", "running", "done", "failed", "expired"},
         task'[t].target \in Hours,
         task'[t].snap # NoSnap => task'[t].pc = "running" /\ task'[t].snap \in Row,
         task[t].pc # "unsent" \/ t = Manual
  PROVE  TypeInv'
<1>1. WorldTyped' /\ clock' = clock
  BY DEF WorldTyped, world
<1>2. TaskTyped(t)'
  BY <1>1 DEF TaskTyped
<1>3. \A u \in Tasks \ {t} : TaskTyped(u)'
  BY <1>1 DEF TaskTyped
<1> QED  BY <1>1, <1>2, <1>3 DEF TypeInv

\* Executions, activity and the clock.
LEMMA WorldKeepsTypes ==
  ASSUME TypeInv,
         \/ ExecutionStarts \/ UserActs \/ Tick \/ (\E h \in Hours : ExecutionEnds(h))
         \/ UNCHANGED vars
  PROVE  TypeInv'
<1> USE DEF TypeInv
<1>1. TablesTyped'
  BY DEF TablesTyped, ExecutionStarts, UserActs, Tick, ExecutionEnds, vars
<1>2. WorldTyped'
  <2>1. CASE ExecutionStarts
    BY <2>1 DEF ExecutionStarts, WorldTyped
  <2>2. CASE UserActs
    BY <2>2 DEF UserActs, WorldTyped
  <2>3. CASE Tick
    BY <2>3, RollupAssumption DEF Tick, WorldTyped, LastTick
  <2>4. CASE \E h \in Hours : ExecutionEnds(h)
    BY <2>4 DEF ExecutionEnds, WorldTyped
  <2>5. CASE UNCHANGED vars
    BY <2>5 DEF vars, WorldTyped
  <2> QED  BY <2>1, <2>2, <2>3, <2>4, <2>5
<1>3. DOMAIN task' = Tasks /\ \A t \in Tasks : TaskTyped(t)'
  <2>1. CASE clock' = clock /\ task' = task
    BY <2>1 DEF TaskTyped
  <2>2. CASE Tick
    <3>1. clock \in Int /\ clock' = clock + 1 /\ DOMAIN task' = Tasks
      BY <2>2 DEF Tick, WorldTyped
    <3>2. ASSUME NEW t \in Tasks PROVE TaskTyped(t)'
      <4>1. CASE task'[t] = task[t]
        <5>1. SentAt(t) \in Int
          BY RollupAssumption DEF SentAt, Tasks, Hourly
        <5> QED  BY <3>1, <4>1, <5>1 DEF TaskTyped
      <4>2. CASE t # Manual /\ SentAt(t) = clock + 1
                 /\ task'[t] = [task[t] EXCEPT !.pc = "queued"]
        <5>1. TaskTyped(t) /\ ~(SentAt(t) <= clock) /\ SentAt(t) <= clock + 1
          BY <3>1, <4>2
        <5>2. task[t].snap = NoSnap
          BY <4>2, <5>1 DEF TaskTyped
        <5>3. SentAt(t)' = SentAt(t)
          BY DEF SentAt
        <5> QED  BY <3>1, <4>2, <5>1, <5>2, <5>3 DEF TaskTyped
      <4> QED  BY <2>2, <4>1, <4>2 DEF Tick
    <3> QED  BY <3>1, <3>2
  <2> QED  BY <2>1, <2>2 DEF ExecutionStarts, UserActs, ExecutionEnds, vars
<1> QED  BY <1>1, <1>2, <1>3

\* The target of a task that begins is an hour.
LEMMA TargetIsHour ==
  ASSUME TypeInv, NEW t \in Tasks, task[t].pc # "unsent"
  PROVE  Target(t) \in Hours
<1>1. task[t].target \in Hours /\ 0 \in Hours
  BY RollupAssumption DEF TypeInv, TaskTyped, Hours
<1>2. CASE t \notin {Manual, Daily}
  <2>1. t \in 1..LastHour /\ 2 * t + 1 <= clock
    BY <1>2 DEF TypeInv, TaskTyped, SentAt, Tasks, Hourly
  <2>2. clock \in 3..(2 * LastHour + 3)
    BY <2>1, RollupAssumption DEF TypeInv, WorldTyped, LastTick
  <2>3. HourOf(clock) \in 1..(LastHour + 1)
    BY <2>2, RollupAssumption DEF HourOf
  <2> QED  BY <1>2, <2>3, RollupAssumption DEF Target, Hours
<1> QED  BY <1>1, <1>2 DEF Target

\* A task is sent, begins, expires, fails or loses its worker.
LEMMA WaitKeepsTypes ==
  ASSUME TypeInv,
         TriggerManually \/ \E t \in Tasks :
           Start(t) \/ RunAgain(t) \/ Expire(t) \/ Fail(t) \/ LoseWorker(t)
  PROVE  TypeInv'
<1> USE DEF TypeInv
<1>1. UNCHANGED world /\ TablesTyped'
  BY DEF TablesTyped, TriggerManually, Start, RunAgain, Expire, Fail, LoseWorker
<1>2. CASE TriggerManually
  <2>1. Manual \in Tasks
    BY DEF Tasks
  <2>2. TaskTyped(Manual)
    BY <2>1
  <2>3. /\ DOMAIN task' = Tasks /\ \A u \in Tasks \ {Manual} : task'[u] = task[u]
        /\ DOMAIN task'[Manual] = DOMAIN task[Manual]
        /\ task'[Manual].pc = "queued" /\ task'[Manual].target \in Hours
        /\ task'[Manual].snap = NoSnap
    BY <1>2, <2>1, <2>2 DEF TriggerManually, TaskTyped
  <2> QED  BY <1>1, <2>1, <2>3, OneTaskTyped
<1>3. ASSUME NEW t \in Tasks, Start(t) \/ RunAgain(t) \/ Expire(t) \/ Fail(t) \/ LoseWorker(t)
      PROVE  TypeInv'
  <2>0. TaskTyped(t) /\ task[t].pc # "unsent" /\ Target(t) \in Hours
    <3>1. task[t].pc # "unsent"
      BY <1>3 DEF Start, RunAgain, Expire, Fail, LoseWorker
    <3> QED  BY <3>1, TargetIsHour
  <2>1. CASE Start(t) \/ RunAgain(t)
    <3>1. /\ DOMAIN task' = Tasks /\ \A u \in Tasks \ {t} : task'[u] = task[u]
          /\ DOMAIN task'[t] = DOMAIN task[t]
          /\ task'[t].pc = "running" /\ task'[t].target = Target(t) /\ task'[t].snap = NoSnap
      <4> DEFINE x(a) == [task[t] EXCEPT !.again = a, !.pc = "running", !.target = Target(t),
                                         !.step = 1, !.snap = NoSnap]
      <4>1. \A a : /\ DOMAIN x(a) = DOMAIN task[t]
                   /\ x(a).pc = "running" /\ x(a).target = Target(t) /\ x(a).snap = NoSnap
        BY <2>0 DEF TaskTyped
      <4>2. task' = [task EXCEPT ![t] = x(FALSE)] \/ task' = [task EXCEPT ![t] = x(TRUE)]
        <5>1. CASE Start(t)
          BY <5>1 DEF Start, Begin
        <5>2. CASE RunAgain(t)
          BY <5>2 DEF RunAgain, Begin
        <5> QED  BY <2>1, <5>1, <5>2
      <4> HIDE DEF x
      <4>3. PICK a : task' = [task EXCEPT ![t] = x(a)]
        BY <4>2
      <4>4. DOMAIN task' = Tasks /\ task'[t] = x(a) /\ \A u \in Tasks \ {t} : task'[u] = task[u]
        BY <4>3
      <4> QED  BY <4>1, <4>4
    <3> QED  BY <1>1, <2>0, <3>1, OneTaskTyped
  <2>2. CASE Expire(t)
    <3>1. /\ DOMAIN task' = Tasks /\ \A u \in Tasks \ {t} : task'[u] = task[u]
          /\ DOMAIN task'[t] = DOMAIN task[t]
          /\ task'[t].pc = "expired" /\ task'[t].target \in Hours /\ task'[t].snap = NoSnap
      BY <2>0, <2>2 DEF Expire, TaskTyped
    <3> QED  BY <1>1, <2>0, <3>1, OneTaskTyped
  <2>3. CASE Fail(t)
    <3>1. /\ DOMAIN task' = Tasks /\ \A u \in Tasks \ {t} : task'[u] = task[u]
          /\ DOMAIN task'[t] = DOMAIN task[t]
          /\ task'[t].pc \in {"queued", "failed"}
          /\ task'[t].target \in Hours /\ task'[t].snap = NoSnap
      BY <2>0, <2>3 DEF Fail, TaskTyped
    <3> QED  BY <1>1, <2>0, <3>1, OneTaskTyped
  <2>4. CASE LoseWorker(t)
    <3>1. /\ DOMAIN task' = Tasks /\ \A u \in Tasks \ {t} : task'[u] = task[u]
          /\ DOMAIN task'[t] = DOMAIN task[t]
          /\ task'[t].pc = "queued" /\ task'[t].target \in Hours /\ task'[t].snap = NoSnap
      BY <2>0, <2>4 DEF LoseWorker, TaskTyped
    <3> QED  BY <1>1, <2>0, <3>1, OneTaskTyped
  <2> QED  BY <1>3, <2>1, <2>2, <2>3, <2>4
<1> QED  BY <1>2, <1>3

\* What a statement sees is a row.
LEMMA SnapshotKeepsTypes ==
  ASSUME TypeInv, NEW t \in Tasks, Snapshot(t)
  PROVE  TypeInv'
<1> USE DEF TypeInv
<1>1. UNCHANGED world /\ TablesTyped'
  BY DEF TablesTyped, Snapshot
<1>2. TaskTyped(t) /\ task[t].pc = "running"
  BY DEF Snapshot
<1> DEFINE h == task[t].target
<1>3. ActivityOf(t, h) \in Row /\ CreditsOf(t, h) \in Row /\ LogsOf(t, h) \in Row /\ DayOf \in Row
  <2>1. h \in Hours
    BY <1>2 DEF TaskTyped
  <2>2. started[h] \in Nat /\ ended[h] \in Nat /\ pairs[h] \in Nat
    BY <2>1 DEF WorldTyped
  <2> HIDE DEF h
  <2> QED  BY <2>2, CountIsRow, DayIsRow DEF ActivityOf, CreditsOf, LogsOf
<1>4. /\ DOMAIN task' = Tasks /\ \A u \in Tasks \ {t} : task'[u] = task[u]
      /\ DOMAIN task'[t] = DOMAIN task[t]
      /\ task'[t].pc = "running" /\ task'[t].target \in Hours
      /\ task'[t].snap \in {ActivityOf(t, h), DayOf, CreditsOf(t, h), LogsOf(t, h)}
  BY <1>2 DEF Snapshot, TaskTyped
<1>5. task'[t].snap \in Row
  BY <1>3, <1>4
<1> QED  BY <1>1, <1>2, <1>4, <1>5, OneTaskTyped

\* What it writes too.
LEMMA CommitKeepsTypes ==
  ASSUME TypeInv, NEW t \in Tasks, Commit(t)
  PROVE  TypeInv'
<1> USE DEF TypeInv
<1>1. TaskTyped(t) /\ task[t].pc = "running" /\ task[t].snap \in Row
  BY DEF Commit, TaskTyped
<1>2. UNCHANGED world
  BY DEF Commit
<1>3. TablesTyped'
  <2> DEFINE s == task[t].snap
             name == Steps(t)[task[t].step]
  <2>1. CASE UNCHANGED <<table, daily>>
    BY <2>1 DEF TablesTyped
  <2>2. CASE daily' = s /\ UNCHANGED table
    BY <1>1, <2>2 DEF TablesTyped
  <2>3. CASE table' = [table EXCEPT ![name][task[t].target] = s] /\ UNCHANGED daily
    <3> HIDE DEF name
    <3>1. DOMAIN table' = TableNames
      BY <2>3 DEF TablesTyped
    <3>2. \A i \in TableNames : table'[i] \in [Hours -> Row]
      BY <1>1, <2>3 DEF TablesTyped
    <3> QED  BY <2>3, <3>1, <3>2 DEF TablesTyped
  <2> QED  BY <2>1, <2>2, <2>3 DEF Commit
<1>4. /\ DOMAIN task' = Tasks /\ \A u \in Tasks \ {t} : task'[u] = task[u]
      /\ DOMAIN task'[t] = DOMAIN task[t]
      /\ task'[t].pc \in {"running", "done"} /\ task'[t].target \in Hours
      /\ task'[t].snap = NoSnap
  BY <1>1 DEF Commit, TaskTyped
<1> QED  BY <1>1, <1>2, <1>3, <1>4, OneTaskTyped

\* At the start the tables are empty.
LEMMA InitTypeInv == Init => TypeInv
<1> SUFFICES ASSUME Init PROVE TypeInv
  OBVIOUS
<1>1. WorldTyped
  BY RollupAssumption DEF Init, WorldTyped, LastTick
<1>2. TablesTyped
  <2>1. NoRow \in Row
    BY DEF NoRow, Row
  <2> QED  BY <2>1 DEF Init, TablesTyped, TableNames
<1>3. DOMAIN task = Tasks /\ \A t \in Tasks : TaskTyped(t)
  BY RollupAssumption DEF Init, TaskTyped, Hours
<1> QED  BY <1>1, <1>2, <1>3 DEF TypeInv

\* All steps.
LEMMA StepKeepsTypes == TypeInv /\ [Next]_vars => TypeInv'
  BY WorldKeepsTypes, WaitKeepsTypes, SnapshotKeepsTypes, CommitKeepsTypes DEF Next, TaskStep

\* RollupService and its Celery tasks: the tables hold counts, no execution ends
\* that has not started, and a task that runs has an hour of the instance as its
\* target; whatever is summed for the day is a count.
THEOREM TypeCorrect == Spec => []TypeOK
<1>1. TypeInv => TypeOK
  BY DEF TypeInv, WorldTyped, TablesTyped, TaskTyped, TypeOK
<1> QED  BY <1>1, InitTypeInv, StepKeepsTypes, PTL DEF Spec
=============================================================================
