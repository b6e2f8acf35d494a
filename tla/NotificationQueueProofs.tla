----------------------- MODULE NotificationQueueProofs -----------------------
(***************************************************************************)
(* Theorems about NotificationQueue, for every set of rows, workers and    *)
(* retriers and every max_attempts, batch size and number of faults.       *)
(***************************************************************************)
EXTENDS NotificationQueue, FiniteSetTheorems, TLAPS

-----------------------------------------------------------------------------
(* Type correctness. *)

\* The initial table and processes are well typed.
LEMMA InitTyped == Init => TypeOK
  BY MaxFaultsAssumption, NoRowAssumption
  DEF Init, TypeOK, Statuses, ControlPoints, Engaged, InFlight, NotRead

\* Putting rows back to pending leaves a well typed table.
LEMMA PutBackTyped ==
  ASSUME row \in [Rows -> [status: Statuses, attempts: Nat]], NEW S
  PROVE  PutBack(S) \in [Rows -> [status: Statuses, attempts: Nat]]
<1>1. ASSUME NEW n \in Rows
      PROVE  [row[n] EXCEPT !.status = "pending"] \in [status: Statuses, attempts: Nat]
  BY DEF Statuses
<1> QED  BY <1>1 DEF PutBack

\* The table with one status changed, and the log with one entry more, are typed.
LEMMA ChangesTyped ==
  ASSUME TypeOK, NEW m \in Rows
  PROVE  /\ \A s \in Statuses :
              [row EXCEPT ![m].status = s] \in [Rows -> [status: Statuses, attempts: Nat]]
         /\ [log EXCEPT ![m].delivered = @ + 1] \in [Rows -> [delivered: Nat, failed: Nat]]
         /\ [log EXCEPT ![m].failed = @ + 1] \in [Rows -> [delivered: Nat, failed: Nat]]
<1>1. /\ row \in [Rows -> [status: Statuses, attempts: Nat]]
      /\ log \in [Rows -> [delivered: Nat, failed: Nat]]
  BY DEF TypeOK
<1>2. ASSUME NEW s \in Statuses
      PROVE  [row[m] EXCEPT !.status = s] \in [status: Statuses, attempts: Nat]
  BY <1>1
<1>3. /\ [log[m] EXCEPT !.delivered = @ + 1] \in [delivered: Nat, failed: Nat]
      /\ [log[m] EXCEPT !.failed = @ + 1] \in [delivered: Nat, failed: Nat]
  BY <1>1
<1> QED  BY <1>1, <1>2, <1>3

\* What a commit of worker w writes before its own changes: at most the failure of
\* the row whose template failed.
LEMMA FlushedRows ==
  ASSUME TypeOK, NEW w \in Workers
  PROVE  /\ Flushed(w) \in [Rows -> [status: Statuses, attempts: Nat]]
         /\ \A m \in Rows : Flushed(w)[m] = IF pc[w] = "unrendered" /\ m = cur[w]
                                            THEN [row[m] EXCEPT !.status = "failed"] ELSE row[m]
<1>1. /\ row \in [Rows -> [status: Statuses, attempts: Nat]]
      /\ pc[w] = "unrendered" => cur[w] \in Rows
  BY DEF TypeOK, Engaged
<1>2. CASE pc[w] # "unrendered"
  BY <1>1, <1>2 DEF Flushed
<1>3. CASE pc[w] = "unrendered"
  <2>1. "failed" \in Statuses
    BY DEF Statuses
  <2>2. Flushed(w) = [row EXCEPT ![cur[w]].status = "failed"]
    BY <1>3 DEF Flushed
  <2>3. Flushed(w) \in [Rows -> [status: Statuses, attempts: Nat]]
    BY <1>1, <1>3, <2>1, <2>2, ChangesTyped
  <2> QED  BY <1>1, <1>3, <2>2, <2>3
<1> QED  BY <1>2, <1>3

\* What MarkProcessing leaves in each row, and elsewhere.
MarkedTable(w, n) ==
  /\ row'[n].status = "processing" /\ row'[n].attempts = seen[w][n] + 1
  /\ \A m \in Rows : m # n =>
       /\ row'[m].attempts = row[m].attempts
       /\ row'[m].status = IF pc[w] = "unrendered" /\ m = cur[w] THEN "failed" ELSE row[m].status

MarkedWorker(w, n) ==
  /\ pc[w] \in {"batch", "unrendered"} /\ n \in held[w]
  /\ \A v \in Workers : /\ pc'[v] = IF v = w THEN "processing" ELSE pc[v]
                        /\ cur'[v] = IF v = w THEN n ELSE cur[v]
                        /\ held'[v] = IF v = w THEN held[v] \ {n} ELSE held[v]
                        /\ \A m \in Rows : seen'[v][m] = IF v = w /\ m = n THEN 0 ELSE seen[v][m]

MarkedRest(n) ==
  /\ \A m \in Rows : tries'[m] = IF m = n THEN tries[m] + 1 ELSE tries[m]
  /\ UNCHANGED <<due, retry, marking, accepted, denied, log, unlogged, orphans, forgotten, faults>>

Marked(w, n) == MarkedTable(w, n) /\ MarkedWorker(w, n) /\ MarkedRest(n)

LEMMA MarkedRows ==
  ASSUME TypeOK, NEW w \in Workers, NEW n \in Rows, MarkProcessing(w, n)
  PROVE  row' \in [Rows -> [status: Statuses, attempts: Nat]] /\ Marked(w, n)
<1> DEFINE new == [status |-> "processing", attempts |-> seen[w][n] + 1]
<1>1. row' = [Flushed(w) EXCEPT ![n] = new]
  BY DEF MarkProcessing
<1>2. new \in [status: Statuses, attempts: Nat] /\ new.status = "processing" /\ new.attempts = seen[w][n] + 1
  BY DEF TypeOK, Statuses
<1> HIDE DEF new
<1>3. row' \in [Rows -> [status: Statuses, attempts: Nat]]
  BY <1>1, <1>2, FlushedRows
<1>4. row'[n] = new /\ \A m \in Rows : m # n => row'[m] = Flushed(w)[m]
  BY <1>1, FlushedRows
<1>5. ASSUME NEW m \in Rows
      PROVE  /\ Flushed(w)[m].attempts = row[m].attempts
             /\ Flushed(w)[m].status = IF pc[w] = "unrendered" /\ m = cur[w] THEN "failed" ELSE row[m].status
  <2>1. row[m] \in [status: Statuses, attempts: Nat]
    BY DEF TypeOK
  <2>2. /\ [row[m] EXCEPT !.status = "failed"].status = "failed"
        /\ [row[m] EXCEPT !.status = "failed"].attempts = row[m].attempts
    BY <2>1
  <2> QED  BY <2>2, FlushedRows
<1>6. ASSUME NEW v \in Workers
      PROVE  /\ pc'[v] = IF v = w THEN "processing" ELSE pc[v]
             /\ cur'[v] = IF v = w THEN n ELSE cur[v]
             /\ held'[v] = IF v = w THEN held[v] \ {n} ELSE held[v]
             /\ \A m \in Rows : seen'[v][m] = IF v = w /\ m = n THEN 0 ELSE seen[v][m]
  BY DEF MarkProcessing, TypeOK
<1>7. \A m \in Rows : tries'[m] = IF m = n THEN tries[m] + 1 ELSE tries[m]
  BY DEF MarkProcessing, TypeOK
<1>8. /\ pc[w] \in {"batch", "unrendered"} /\ n \in held[w]
      /\ UNCHANGED <<due, retry, marking, accepted, denied, log, unlogged, orphans, forgotten, faults>>
  BY DEF MarkProcessing, retrier, fate
<1>9. MarkedTable(w, n)
  <2>1. row'[n].status = "processing" /\ row'[n].attempts = seen[w][n] + 1
    BY <1>2, <1>4
  <2>2. ASSUME NEW m \in Rows, m # n
        PROVE  /\ row'[m].attempts = row[m].attempts
               /\ row'[m].status = IF pc[w] = "unrendered" /\ m = cur[w] THEN "failed" ELSE row[m].status
    <3>1. row'[m] = Flushed(w)[m]
      BY <1>4, <2>2
    <3> QED  BY <1>5, <3>1
  <2> QED  BY <2>1, <2>2 DEF MarkedTable
<1>10. MarkedWorker(w, n)
  BY <1>6, <1>8 DEF MarkedWorker
<1>11. MarkedRest(n)
  BY <1>7, <1>8 DEF MarkedRest
<1> QED  BY <1>3, <1>9, <1>10, <1>11 DEF Marked

\* Every step of every task keeps the table and the processes well typed.
LEMMA StepTyped == TypeOK /\ [Next]_vars => TypeOK'
<1> SUFFICES ASSUME TypeOK, [Next]_vars PROVE TypeOK'
  OBVIOUS
<1>r. ASSUME NEW w \in Workers, NEW n \in Rows, MarkProcessing(w, n)
      PROVE  row' \in [Rows -> [status: Statuses, attempts: Nat]]
  BY <1>r, MarkedRows
<1>c. ASSUME NEW w \in Workers, cur[w] \in Rows
      PROVE  /\ [row EXCEPT ![cur[w]].status = "delivered"] \in [Rows -> [status: Statuses, attempts: Nat]]
             /\ [row EXCEPT ![cur[w]].status = "failed"] \in [Rows -> [status: Statuses, attempts: Nat]]
             /\ [log EXCEPT ![cur[w]].delivered = @ + 1] \in [Rows -> [delivered: Nat, failed: Nat]]
             /\ [log EXCEPT ![cur[w]].failed = @ + 1] \in [Rows -> [delivered: Nat, failed: Nat]]
  <2>1. "delivered" \in Statuses /\ "failed" \in Statuses
    BY DEF Statuses
  <2> QED  BY <1>c, <2>1, ChangesTyped
<1> USE NoRowAssumption DEF TypeOK, Statuses, ControlPoints, Engaged, InFlight
<1>1. ASSUME NEW n \in Rows, NEW later \in BOOLEAN, QueueNotification(n, later)
      PROVE  TypeOK'
  BY <1>1 DEF QueueNotification, worker, retrier, history, fate
<1>2. ASSUME NEW n \in Rows, ReachSchedule(n)
      PROVE  TypeOK'
  BY <1>2 DEF ReachSchedule, worker, retrier, history, fate
<1>3. ASSUME NEW w \in Workers, SelectBatch(w)
      PROVE  TypeOK'
  BY <1>3 DEF SelectBatch, Selectable, table, retrier, history, fate
<1>4. ASSUME NEW w \in Workers, NEW n \in Rows, MarkProcessing(w, n)
      PROVE  TypeOK'
  <2>1. row' \in [Rows -> [status: Statuses, attempts: Nat]]
    BY <1>4, <1>r
  <2>2. seen' \in [Workers -> [Rows -> Nat]]
    <3>1. [seen[w] EXCEPT ![n] = 0] \in [Rows -> Nat]
      OBVIOUS
    <3> QED  BY <1>4, <3>1 DEF MarkProcessing
  <2>3. /\ pc' \in [Workers -> ControlPoints]
        /\ cur' \in [Workers -> Rows \cup {NoRow}]
        /\ \A v \in Workers : cur'[v] \in Rows <=> pc'[v] \in Engaged
        /\ held' \in [Workers -> SUBSET Rows]
    BY <1>4 DEF MarkProcessing
  <2>4. tries' \in [Rows -> Nat]
    BY <1>4 DEF MarkProcessing
  <2>5. UNCHANGED <<due, retry, marking, accepted, denied, log, unlogged, orphans, forgotten, faults>>
    BY <1>4 DEF MarkProcessing, retrier, fate
  <2> QED  BY <2>1, <2>2, <2>3, <2>4, <2>5
<1>5. ASSUME NEW w \in Workers, Render(w)
      PROVE  TypeOK'
  BY <1>5 DEF Render, table, retrier, history, fate
<1>6. ASSUME NEW w \in Workers, SendAccepted(w)
      PROVE  TypeOK'
  <2>1. cur[w] \in Rows
    BY <1>6 DEF SendAccepted
  <2>2. accepted' \in [Rows -> Nat]
    BY <1>6, <2>1 DEF SendAccepted
  <2> QED  BY <1>6, <2>2 DEF SendAccepted, table, retrier, fate
<1>7. ASSUME NEW w \in Workers, SendRefused(w)
      PROVE  TypeOK'
  BY <1>7 DEF SendRefused, table, retrier, history, fate
<1>8. ASSUME NEW w \in Workers, CommitDelivered(w)
      PROVE  TypeOK'
  <2>1. cur[w] \in Rows
    BY <1>8 DEF CommitDelivered
  <2>2. row' \in [Rows -> [status: Statuses, attempts: Nat]]
    BY <1>8, <2>1, <1>c DEF CommitDelivered
  <2>3. log' \in [Rows -> [delivered: Nat, failed: Nat]]
    BY <1>8, <2>1, <1>c DEF CommitDelivered
  <2>4. /\ pc' \in [Workers -> ControlPoints]
        /\ cur' \in [Workers -> Rows \cup {NoRow}]
        /\ \A v \in Workers : cur'[v] \in Rows <=> pc'[v] \in Engaged
    BY <1>8 DEF CommitDelivered, NextRow
  <2> QED  BY <1>8, <2>2, <2>3, <2>4 DEF CommitDelivered, retrier, fate
<1>9. ASSUME NEW w \in Workers, CommitFailed(w)
      PROVE  TypeOK'
  <2>1. cur[w] \in Rows
    BY <1>9 DEF CommitFailed
  <2>2. row' \in [Rows -> [status: Statuses, attempts: Nat]]
    BY <1>9, <2>1, <1>c DEF CommitFailed
  <2>3. log' \in [Rows -> [delivered: Nat, failed: Nat]]
    BY <1>9, <2>1, <1>c DEF CommitFailed
  <2>4. /\ pc' \in [Workers -> ControlPoints]
        /\ cur' \in [Workers -> Rows \cup {NoRow}]
        /\ \A v \in Workers : cur'[v] \in Rows <=> pc'[v] \in Engaged
    BY <1>9 DEF CommitFailed, NextRow
  <2> QED  BY <1>9, <2>2, <2>3, <2>4 DEF CommitFailed, retrier, fate
<1>10. ASSUME NEW w \in Workers, WorkerDies(w)
       PROVE  TypeOK'
  BY <1>10, MaxFaultsAssumption DEF WorkerDies, NotRead, table, retrier, history
<1>11. ASSUME NEW r \in Retriers, RetrySelect(r)
       PROVE  TypeOK'
  BY <1>11 DEF RetrySelect, MayRetry, table, worker, history, fate
<1>12. ASSUME NEW r \in Retriers, RetryCommit(r)
       PROVE  TypeOK'
  BY <1>12, PutBackTyped DEF RetryCommit, worker, history, fate
<1>13. ASSUME NEW r \in Retriers, NEW n \in Rows, MarkForRetrySelect(r, n)
       PROVE  TypeOK'
  BY <1>13 DEF MarkForRetrySelect, table, worker, history, fate
<1>14. ASSUME NEW r \in Retriers, NEW later \in BOOLEAN, MarkForRetryCommit(r, later)
       PROVE  TypeOK'
  BY <1>14, PutBackTyped DEF MarkForRetryCommit, worker, history, fate
<1>15. ASSUME NEW r \in Retriers, RetrierDies(r)
       PROVE  TypeOK'
  BY <1>15, MaxFaultsAssumption DEF RetrierDies, table, worker, history
<1>16. ASSUME UNCHANGED vars
       PROVE  TypeOK'
  BY <1>16 DEF vars, table, worker, retrier, history, fate
<1>17. ASSUME NEW w \in Workers, RenderFails(w)
       PROVE  TypeOK'
  <2>1. cur[w] \in Rows
    BY <1>17 DEF RenderFails
  <2>2. unlogged' \in [Rows -> Nat]
    BY <1>17, <2>1 DEF RenderFails
  <2> QED  BY <1>17, <2>2 DEF RenderFails, table, retrier, fate
<1>18. ASSUME NEW w \in Workers, RunForgets(w)
       PROVE  TypeOK'
  BY <1>18 DEF RunForgets, table, retrier, history
<1>19. ASSUME NEW w \in Workers, AnswerLost(w)
       PROVE  TypeOK'
  <2>1. cur[w] \in Rows
    BY <1>19 DEF AnswerLost
  <2>2. denied' \in [Rows -> Nat] /\ faults' \in 0..MaxFaults
    BY <1>19, <2>1, MaxFaultsAssumption DEF AnswerLost
  <2> QED  BY <1>19, <2>2 DEF AnswerLost, table, retrier
<1> QED
  BY <1>1, <1>2, <1>3, <1>4, <1>5, <1>6, <1>7, <1>8, <1>9, <1>10, <1>11, <1>12, <1>13,
     <1>14, <1>15, <1>16, <1>17, <1>18, <1>19
  DEF Next, WorkerStep, RetryTaskStep

\* The table and the processes stay well typed in every behaviour of the tasks.
THEOREM TypeCorrect == Spec => []TypeOK
  BY InitTyped, StepTyped, PTL DEF Spec
-----------------------------------------------------------------------------
(* However the tasks overlap. *)

\* No step makes a worker forget that what it read was below the limit, and
\* no commit, stale or not, takes the attempts column past it.
LEMMA StepBounded ==
  TypeOK /\ ReadBelowLimit /\ AttemptsBounded /\ [Next]_vars
    => (ReadBelowLimit /\ AttemptsBounded)'
<1> SUFFICES ASSUME TypeOK, ReadBelowLimit, AttemptsBounded, [Next]_vars
             PROVE  (ReadBelowLimit /\ AttemptsBounded)'
  OBVIOUS
<1>4. ASSUME NEW w \in Workers, NEW n \in Rows, MarkProcessing(w, n)
      PROVE  (ReadBelowLimit /\ AttemptsBounded)'
  <2>1. Marked(w, n)
    BY <1>4, MarkedRows
  <2>2. seen \in [Workers -> [Rows -> Nat]] /\ held \in [Workers -> SUBSET Rows]
    BY DEF TypeOK
  <2>3. ASSUME NEW v \in Workers, NEW m \in held'[v] PROVE seen'[v][m] < MaxAttempts
    <3>1. m \in held[v] /\ m \in Rows /\ ~ (v = w /\ m = n)
      BY <2>1, <2>2, <2>3 DEF Marked, MarkedWorker
    <3>2. seen'[v][m] = seen[v][m]
      BY <2>1, <3>1 DEF Marked, MarkedWorker
    <3> QED  BY <3>1, <3>2 DEF ReadBelowLimit
  <2>4. ASSUME NEW m \in Rows PROVE row'[m].attempts <= MaxAttempts
    <3>1. CASE m = n
      <4>1. seen[w][n] < MaxAttempts /\ seen[w][n] \in Nat /\ row'[n].attempts = seen[w][n] + 1
        BY <2>1, <2>2 DEF Marked, MarkedWorker, MarkedTable, ReadBelowLimit
      <4> QED  BY <3>1, <4>1, MaxAttemptsAssumption
    <3>2. CASE m # n
      BY <2>1, <3>2 DEF Marked, MarkedTable, AttemptsBounded
    <3> QED  BY <3>1, <3>2
  <2> QED  BY <2>3, <2>4 DEF ReadBelowLimit, AttemptsBounded
<1> USE MaxAttemptsAssumption DEF TypeOK, ReadBelowLimit, AttemptsBounded
<1>1. ASSUME NEW n \in Rows, NEW later \in BOOLEAN, QueueNotification(n, later)
      PROVE  (ReadBelowLimit /\ AttemptsBounded)'
  BY <1>1 DEF QueueNotification, worker, retrier, history, fate
<1>2. ASSUME NEW n \in Rows, ReachSchedule(n)
      PROVE  (ReadBelowLimit /\ AttemptsBounded)'
  BY <1>2 DEF ReachSchedule, worker, retrier, history, fate
<1>3. ASSUME NEW w \in Workers, SelectBatch(w)
      PROVE  (ReadBelowLimit /\ AttemptsBounded)'
  BY <1>3 DEF SelectBatch, Selectable, table, retrier, history, fate
<1>5. ASSUME NEW w \in Workers, Render(w)
      PROVE  (ReadBelowLimit /\ AttemptsBounded)'
  BY <1>5 DEF Render, table, retrier, history, fate
<1>6. ASSUME NEW w \in Workers, SendAccepted(w)
      PROVE  (ReadBelowLimit /\ AttemptsBounded)'
  BY <1>6 DEF SendAccepted, table, retrier, fate
<1>7. ASSUME NEW w \in Workers, SendRefused(w)
      PROVE  (ReadBelowLimit /\ AttemptsBounded)'
  BY <1>7 DEF SendRefused, table, retrier, history, fate
<1>8. ASSUME NEW w \in Workers, CommitDelivered(w)
      PROVE  (ReadBelowLimit /\ AttemptsBounded)'
  BY <1>8 DEF CommitDelivered, NextRow, retrier, fate
<1>9. ASSUME NEW w \in Workers, CommitFailed(w)
      PROVE  (ReadBelowLimit /\ AttemptsBounded)'
  BY <1>9 DEF CommitFailed, NextRow, retrier, fate
<1>10. ASSUME NEW w \in Workers, WorkerDies(w)
      PROVE  (ReadBelowLimit /\ AttemptsBounded)'
  BY <1>10 DEF WorkerDies, NotRead, table, retrier, history
<1>11. ASSUME NEW r \in Retriers, RetrySelect(r)
      PROVE  (ReadBelowLimit /\ AttemptsBounded)'
  BY <1>11 DEF RetrySelect, table, worker, history, fate
<1>12. ASSUME NEW r \in Retriers, RetryCommit(r)
      PROVE  (ReadBelowLimit /\ AttemptsBounded)'
  BY <1>12 DEF RetryCommit, PutBack, worker, history, fate
<1>13. ASSUME NEW r \in Retriers, NEW n \in Rows, MarkForRetrySelect(r, n)
      PROVE  (ReadBelowLimit /\ AttemptsBounded)'
  BY <1>13 DEF MarkForRetrySelect, table, worker, history, fate
<1>14. ASSUME NEW r \in Retriers, NEW later \in BOOLEAN, MarkForRetryCommit(r, later)
      PROVE  (ReadBelowLimit /\ AttemptsBounded)'
  BY <1>14 DEF MarkForRetryCommit, PutBack, worker, history, fate
<1>15. ASSUME NEW r \in Retriers, RetrierDies(r)
      PROVE  (ReadBelowLimit /\ AttemptsBounded)'
  BY <1>15 DEF RetrierDies, table, worker, history
<1>16. ASSUME UNCHANGED vars
      PROVE  (ReadBelowLimit /\ AttemptsBounded)'
  BY <1>16 DEF vars, table, worker, retrier, history, fate
<1>17. ASSUME NEW w \in Workers, RenderFails(w)
       PROVE  (ReadBelowLimit /\ AttemptsBounded)'
  BY <1>17 DEF RenderFails, table, retrier, fate
<1>18. ASSUME NEW w \in Workers, RunForgets(w)
       PROVE  (ReadBelowLimit /\ AttemptsBounded)'
  BY <1>18 DEF RunForgets, table, retrier, history
<1>19. ASSUME NEW w \in Workers, AnswerLost(w)
       PROVE  (ReadBelowLimit /\ AttemptsBounded)'
  BY <1>19 DEF AnswerLost, table, retrier
<1> QED
  BY <1>1, <1>2, <1>3, <1>4, <1>5, <1>6, <1>7, <1>8,
     <1>9, <1>10, <1>11, <1>12, <1>13, <1>14, <1>15, <1>16,
     <1>17, <1>18, <1>19
  DEF Next, WorkerStep, RetryTaskStep

\* The attempts column of a row never passes max_attempts, even when runs of the
\* tasks overlap and overwrite each other's counts.
THEOREM AttemptsAlwaysBounded == Spec => []AttemptsBounded
<1>1. Init => ReadBelowLimit /\ AttemptsBounded
  BY MaxAttemptsAssumption DEF Init, ReadBelowLimit, AttemptsBounded
<1> QED
  BY <1>1, StepBounded, TypeCorrect, PTL DEF Spec

\* A step that leaves a row in processing leaves a worker on it, or has given it up.
LEMMA StepAttended ==
  TypeOK /\ ProcessingHasWorker /\ FailuresAreCounted /\ [Next]_vars
    => (ProcessingHasWorker /\ FailuresAreCounted)'
<1> SUFFICES ASSUME TypeOK, ProcessingHasWorker, FailuresAreCounted, [Next]_vars
             PROVE  (ProcessingHasWorker /\ FailuresAreCounted)'
  OBVIOUS
<1>4. ASSUME NEW w \in Workers, NEW n \in Rows, MarkProcessing(w, n)
      PROVE  (ProcessingHasWorker /\ FailuresAreCounted)'
  <2>1. Marked(w, n)
    BY <1>4, MarkedRows
  <2>2. ASSUME NEW m \in Rows, row'[m].status = "processing"
        PROVE  \/ m \in orphans'
               \/ m \in forgotten' /\ unlogged'[m] # 0
               \/ \E v \in Workers : pc'[v] \in Engaged /\ cur'[v] = m
    <3>1. CASE m = n
      BY <2>1, <3>1 DEF Marked, MarkedWorker, Engaged, InFlight
    <3>2. CASE m # n
      <4>1. row[m].status = "processing" /\ ~ (pc[w] = "unrendered" /\ m = cur[w])
        BY <2>1, <2>2, <3>2 DEF Marked, MarkedTable
      <4>2. ASSUME NEW v \in Workers, pc[v] \in Engaged, cur[v] = m
            PROVE  pc'[v] \in Engaged /\ cur'[v] = m
        <5>1. v # w
          BY <2>1, <4>1, <4>2 DEF Marked, MarkedWorker, Engaged, InFlight
        <5> QED  BY <2>1, <4>2, <5>1 DEF Marked, MarkedWorker
      <4>3. orphans' = orphans /\ forgotten' = forgotten /\ unlogged' = unlogged
        BY <2>1 DEF Marked, MarkedRest
      <4> QED  BY <4>1, <4>2, <4>3 DEF ProcessingHasWorker
    <3> QED  BY <3>1, <3>2
  <2>3. ASSUME NEW v \in Workers, pc'[v] = "unrendered" PROVE unlogged'[cur'[v]] # 0
    <3>1. pc[v] = "unrendered" /\ cur'[v] = cur[v] /\ unlogged' = unlogged
      BY <2>1, <2>3 DEF Marked, MarkedWorker, MarkedRest
    <3> QED  BY <3>1 DEF FailuresAreCounted
  <2> QED  BY <2>2, <2>3 DEF ProcessingHasWorker, FailuresAreCounted
<1> USE NoRowAssumption DEF TypeOK, ProcessingHasWorker, FailuresAreCounted, Engaged, InFlight
<1>1. ASSUME NEW n \in Rows, NEW later \in BOOLEAN, QueueNotification(n, later)
      PROVE  (ProcessingHasWorker /\ FailuresAreCounted)'
  BY <1>1 DEF QueueNotification, worker, retrier, history, fate
<1>2. ASSUME NEW n \in Rows, ReachSchedule(n)
      PROVE  (ProcessingHasWorker /\ FailuresAreCounted)'
  BY <1>2 DEF ReachSchedule, worker, retrier, history, fate
<1>3. ASSUME NEW w \in Workers, SelectBatch(w)
      PROVE  (ProcessingHasWorker /\ FailuresAreCounted)'
  <2>1. /\ UNCHANGED <<row, cur, unlogged, orphans, forgotten>>
        /\ \A v \in Workers : pc[v] \in Engaged => pc'[v] = pc[v]
        /\ \A v \in Workers : pc'[v] = "unrendered" => pc[v] = "unrendered"
    BY <1>3 DEF SelectBatch, table, history, fate
  <2>2. ProcessingHasWorker'
    BY <2>1
  <2>3. FailuresAreCounted'
    BY <2>1
  <2> QED  BY <2>2, <2>3
<1>5. ASSUME NEW w \in Workers, Render(w)
      PROVE  (ProcessingHasWorker /\ FailuresAreCounted)'
  BY <1>5 DEF Render, table, retrier, history, fate
<1>6. ASSUME NEW w \in Workers, SendAccepted(w)
      PROVE  (ProcessingHasWorker /\ FailuresAreCounted)'
  BY <1>6 DEF SendAccepted, table, retrier, fate
<1>7. ASSUME NEW w \in Workers, SendRefused(w)
      PROVE  (ProcessingHasWorker /\ FailuresAreCounted)'
  BY <1>7 DEF SendRefused, table, retrier, history, fate
<1>8. ASSUME NEW w \in Workers, CommitDelivered(w)
      PROVE  (ProcessingHasWorker /\ FailuresAreCounted)'
  BY <1>8 DEF CommitDelivered, NextRow, retrier, fate
<1>9. ASSUME NEW w \in Workers, CommitFailed(w)
      PROVE  (ProcessingHasWorker /\ FailuresAreCounted)'
  BY <1>9 DEF CommitFailed, NextRow, retrier, fate
<1>10. ASSUME NEW w \in Workers, WorkerDies(w)
      PROVE  (ProcessingHasWorker /\ FailuresAreCounted)'
  BY <1>10 DEF WorkerDies, NotRead, table, retrier, history
<1>11. ASSUME NEW r \in Retriers, RetrySelect(r)
      PROVE  (ProcessingHasWorker /\ FailuresAreCounted)'
  BY <1>11 DEF RetrySelect, table, worker, history, fate
<1>12. ASSUME NEW r \in Retriers, RetryCommit(r)
      PROVE  (ProcessingHasWorker /\ FailuresAreCounted)'
  BY <1>12 DEF RetryCommit, PutBack, worker, history, fate
<1>13. ASSUME NEW r \in Retriers, NEW n \in Rows, MarkForRetrySelect(r, n)
      PROVE  (ProcessingHasWorker /\ FailuresAreCounted)'
  BY <1>13 DEF MarkForRetrySelect, table, worker, history, fate
<1>14. ASSUME NEW r \in Retriers, NEW later \in BOOLEAN, MarkForRetryCommit(r, later)
      PROVE  (ProcessingHasWorker /\ FailuresAreCounted)'
  BY <1>14 DEF MarkForRetryCommit, PutBack, worker, history, fate
<1>15. ASSUME NEW r \in Retriers, RetrierDies(r)
      PROVE  (ProcessingHasWorker /\ FailuresAreCounted)'
  BY <1>15 DEF RetrierDies, table, worker, history
<1>16. ASSUME UNCHANGED vars
      PROVE  (ProcessingHasWorker /\ FailuresAreCounted)'
  BY <1>16 DEF vars, table, worker, retrier, history, fate
<1>17. ASSUME NEW w \in Workers, RenderFails(w)
       PROVE  (ProcessingHasWorker /\ FailuresAreCounted)'
  BY <1>17 DEF RenderFails, table, retrier, fate
<1>18. ASSUME NEW w \in Workers, RunForgets(w)
       PROVE  (ProcessingHasWorker /\ FailuresAreCounted)'
  BY <1>18 DEF RunForgets, table, retrier, history
<1>19. ASSUME NEW w \in Workers, AnswerLost(w)
       PROVE  (ProcessingHasWorker /\ FailuresAreCounted)'
  BY <1>19 DEF AnswerLost, table, retrier
<1> QED
  BY <1>1, <1>2, <1>3, <1>4, <1>5, <1>6, <1>7, <1>8,
     <1>9, <1>10, <1>11, <1>12, <1>13, <1>14, <1>15, <1>16,
     <1>17, <1>18, <1>19
  DEF Next, WorkerStep, RetryTaskStep

\* However the commits of overlapping workers are ordered, only the death of a
\* worker, or a template that fails for the last row of a batch, can leave a row
\* in processing with nobody on it.
THEOREM ProcessingAlwaysAttended == Spec => []ProcessingHasWorker
<1>1. Init => ProcessingHasWorker /\ FailuresAreCounted
  BY DEF Init, ProcessingHasWorker, FailuresAreCounted
<1> QED
  BY <1>1, StepAttended, TypeCorrect, PTL DEF Spec

-----------------------------------------------------------------------------
(* As long as runs do not overlap. *)

\* No step of a task invalidates what another has read or is working on.
LEMMA StepFresh ==
  ASSUME NoOverlap, TypeOK, ReadsAreFresh, [Next]_vars
  PROVE  ReadsAreFresh'
<1>4. ASSUME NEW w \in Workers, NEW n \in Rows, MarkProcessing(w, n)
      PROVE  ReadsAreFresh'
  <2>1. Marked(w, n)
    BY <1>4, MarkedRows
  <2>2. /\ held[w] \subseteq Rows
        /\ row[n].status = "pending" /\ n \in held[w] /\ seen[w][n] = row[n].attempts
        /\ pc[w] \in {"batch", "unrendered"}
        /\ pc[w] = "unrendered" => /\ cur[w] \in Rows /\ row[cur[w]].status = "processing"
                                   /\ cur[w] \notin orphans \cup forgotten
    BY <2>1 DEF TypeOK, ReadsAreFresh, Engaged, Marked, MarkedWorker
  <2>3. pc'[w] = "processing" /\ cur'[w] = n /\ \A v \in Workers : v = w
    BY <2>1 DEF Marked, MarkedWorker, NoOverlap
  <2>4. ASSUME NEW m \in held'[w]
        PROVE  row'[m].status = "pending" /\ seen'[w][m] = row'[m].attempts
    <3>1. m \in held[w] /\ m # n /\ m \in Rows
      BY <2>1, <2>2 DEF Marked, MarkedWorker
    <3>2. row[m].status = "pending" /\ seen[w][m] = row[m].attempts
      BY <3>1 DEF ReadsAreFresh
    <3>3. seen'[w][m] = seen[w][m]
      BY <2>1, <3>1 DEF Marked, MarkedWorker
    <3>4. row'[m].attempts = row[m].attempts /\ row'[m].status = row[m].status
      BY <2>1, <2>2, <3>1, <3>2 DEF Marked, MarkedTable
    <3> QED  BY <3>2, <3>3, <3>4
  <2>5. row'[n].status = "processing" /\ n \notin orphans' \cup forgotten'
    BY <2>1, <2>2 DEF Marked, MarkedTable, MarkedRest, ReadsAreFresh
  <2>6. ASSUME NEW r \in Retriers, NEW m \in retry'[r] PROVE row'[m].status = "failed"
    <3>1. m \in Rows /\ row[m].status = "failed"
      BY <2>1, <2>6 DEF Marked, MarkedRest, ReadsAreFresh, TypeOK
    <3> QED  BY <2>1, <2>2, <3>1 DEF Marked, MarkedTable
  <2>7. ASSUME NEW m \in orphans' \cup forgotten' PROVE row'[m].status = "processing"
    <3>1. m \in orphans \cup forgotten /\ m \in Rows /\ row[m].status = "processing"
      BY <2>1 DEF Marked, MarkedRest, ReadsAreFresh, TypeOK
    <3> QED  BY <2>1, <2>2, <3>1 DEF Marked, MarkedTable
  <2> QED  BY <2>3, <2>4, <2>5, <2>6, <2>7 DEF ReadsAreFresh
<1> USE NoRowAssumption DEF TypeOK, NoOverlap, ReadsAreFresh, Engaged, InFlight
<1>1. ASSUME NEW n \in Rows, NEW later \in BOOLEAN, QueueNotification(n, later)
      PROVE  ReadsAreFresh'
  BY <1>1 DEF QueueNotification, worker, retrier, history, fate
<1>2. ASSUME NEW n \in Rows, ReachSchedule(n)
      PROVE  ReadsAreFresh'
  BY <1>2 DEF ReachSchedule, worker, retrier, history, fate
<1>3. ASSUME NEW w \in Workers, SelectBatch(w)
      PROVE  ReadsAreFresh'
  BY <1>3 DEF SelectBatch, Selectable, table, retrier, history, fate
<1>5. ASSUME NEW w \in Workers, Render(w)
      PROVE  ReadsAreFresh'
  BY <1>5 DEF Render, table, retrier, history, fate
<1>6. ASSUME NEW w \in Workers, SendAccepted(w)
      PROVE  ReadsAreFresh'
  BY <1>6 DEF SendAccepted, table, retrier, fate
<1>7. ASSUME NEW w \in Workers, SendRefused(w)
      PROVE  ReadsAreFresh'
  BY <1>7 DEF SendRefused, table, retrier, history, fate
<1>8. ASSUME NEW w \in Workers, CommitDelivered(w)
      PROVE  ReadsAreFresh'
  BY <1>8 DEF CommitDelivered, NextRow, retrier, fate
<1>9. ASSUME NEW w \in Workers, CommitFailed(w)
      PROVE  ReadsAreFresh'
  BY <1>9 DEF CommitFailed, NextRow, retrier, fate
<1>10. ASSUME NEW w \in Workers, WorkerDies(w)
      PROVE  ReadsAreFresh'
  BY <1>10 DEF WorkerDies, NotRead, table, retrier, history
<1>11. ASSUME NEW r \in Retriers, RetrySelect(r)
      PROVE  ReadsAreFresh'
  BY <1>11 DEF RetrySelect, MayRetry, table, worker, history, fate
<1>12. ASSUME NEW r \in Retriers, RetryCommit(r)
      PROVE  ReadsAreFresh'
  BY <1>12 DEF RetryCommit, PutBack, worker, history, fate
<1>13. ASSUME NEW r \in Retriers, NEW n \in Rows, MarkForRetrySelect(r, n)
      PROVE  ReadsAreFresh'
  BY <1>13 DEF MarkForRetrySelect, MayRetry, table, worker, history, fate
<1>14. ASSUME NEW r \in Retriers, NEW later \in BOOLEAN, MarkForRetryCommit(r, later)
      PROVE  ReadsAreFresh'
  BY <1>14 DEF MarkForRetryCommit, PutBack, worker, history, fate
<1>15. ASSUME NEW r \in Retriers, RetrierDies(r)
      PROVE  ReadsAreFresh'
  BY <1>15 DEF RetrierDies, table, worker, history
<1>16. ASSUME UNCHANGED vars
      PROVE  ReadsAreFresh'
  BY <1>16 DEF vars, table, worker, retrier, history, fate
<1>17. ASSUME NEW w \in Workers, RenderFails(w)
       PROVE  ReadsAreFresh'
  BY <1>17 DEF RenderFails, table, retrier, fate
<1>18. ASSUME NEW w \in Workers, RunForgets(w)
       PROVE  ReadsAreFresh'
  BY <1>18 DEF RunForgets, table, retrier, history
<1>19. ASSUME NEW w \in Workers, AnswerLost(w)
       PROVE  ReadsAreFresh'
  BY <1>19 DEF AnswerLost, table, retrier
<1> QED
  BY <1>1, <1>2, <1>3, <1>4, <1>5, <1>6, <1>7, <1>8,
     <1>9, <1>10, <1>11, <1>12, <1>13, <1>14, <1>15, <1>16,
     <1>17, <1>18, <1>19
  DEF Next, WorkerStep, RetryTaskStep

\* Every attempt begun is counted in the attempts column.
LEMMA StepCounted ==
  ASSUME NoOverlap, TypeOK, ReadsAreFresh, AttemptsAreCounted, [Next]_vars
  PROVE  AttemptsAreCounted'
<1>4. ASSUME NEW w \in Workers, NEW n \in Rows, MarkProcessing(w, n)
      PROVE  AttemptsAreCounted'
  <2>1. Marked(w, n)
    BY <1>4, MarkedRows
  <2>2. /\ held[w] \subseteq Rows
        /\ row[n].status = "pending" /\ n \in held[w] /\ seen[w][n] = row[n].attempts
        /\ pc[w] \in {"batch", "unrendered"}
        /\ pc[w] = "unrendered" => /\ cur[w] \in Rows /\ row[cur[w]].status = "processing"
                                   /\ cur[w] \notin orphans \cup forgotten
    BY <2>1 DEF TypeOK, ReadsAreFresh, Engaged, Marked, MarkedWorker
  <2>3. pc'[w] = "processing" /\ cur'[w] = n /\ \A v \in Workers : v = w
    BY <2>1 DEF Marked, MarkedWorker, NoOverlap
  <2>4. ASSUME NEW m \in Rows
        PROVE  tries'[m] = row'[m].attempts /\ (row'[m].status = "absent" => tries'[m] = 0)
    <3>1. tries[m] = row[m].attempts /\ (row[m].status = "absent" => tries[m] = 0)
      BY DEF AttemptsAreCounted
    <3>2. CASE m = n
      BY <2>1, <2>2, <3>1, <3>2 DEF Marked, MarkedTable, MarkedRest
    <3>3. CASE m # n
      BY <2>1, <2>2, <3>1, <3>3 DEF Marked, MarkedTable, MarkedRest
    <3> QED  BY <3>2, <3>3
  <2> QED  BY <2>4 DEF AttemptsAreCounted
<1> USE NoRowAssumption DEF TypeOK, NoOverlap, ReadsAreFresh, AttemptsAreCounted, Engaged, InFlight
<1>1. ASSUME NEW n \in Rows, NEW later \in BOOLEAN, QueueNotification(n, later)
      PROVE  AttemptsAreCounted'
  BY <1>1 DEF QueueNotification, worker, retrier, history, fate
<1>2. ASSUME NEW n \in Rows, ReachSchedule(n)
      PROVE  AttemptsAreCounted'
  BY <1>2 DEF ReachSchedule, worker, retrier, history, fate
<1>3. ASSUME NEW w \in Workers, SelectBatch(w)
      PROVE  AttemptsAreCounted'
  BY <1>3 DEF SelectBatch, Selectable, table, retrier, history, fate
<1>5. ASSUME NEW w \in Workers, Render(w)
      PROVE  AttemptsAreCounted'
  BY <1>5 DEF Render, table, retrier, history, fate
<1>6. ASSUME NEW w \in Workers, SendAccepted(w)
      PROVE  AttemptsAreCounted'
  BY <1>6 DEF SendAccepted, table, retrier, fate
<1>7. ASSUME NEW w \in Workers, SendRefused(w)
      PROVE  AttemptsAreCounted'
  BY <1>7 DEF SendRefused, table, retrier, history, fate
<1>8. ASSUME NEW w \in Workers, CommitDelivered(w)
      PROVE  AttemptsAreCounted'
  BY <1>8 DEF CommitDelivered, NextRow, retrier, fate
<1>9. ASSUME NEW w \in Workers, CommitFailed(w)
      PROVE  AttemptsAreCounted'
  BY <1>9 DEF CommitFailed, NextRow, retrier, fate
<1>10. ASSUME NEW w \in Workers, WorkerDies(w)
      PROVE  AttemptsAreCounted'
  BY <1>10 DEF WorkerDies, NotRead, table, retrier, history
<1>11. ASSUME NEW r \in Retriers, RetrySelect(r)
      PROVE  AttemptsAreCounted'
  BY <1>11 DEF RetrySelect, MayRetry, table, worker, history, fate
<1>12. ASSUME NEW r \in Retriers, RetryCommit(r)
      PROVE  AttemptsAreCounted'
  BY <1>12 DEF RetryCommit, PutBack, worker, history, fate
<1>13. ASSUME NEW r \in Retriers, NEW n \in Rows, MarkForRetrySelect(r, n)
      PROVE  AttemptsAreCounted'
  BY <1>13 DEF MarkForRetrySelect, MayRetry, table, worker, history, fate
<1>14. ASSUME NEW r \in Retriers, NEW later \in BOOLEAN, MarkForRetryCommit(r, later)
      PROVE  AttemptsAreCounted'
  BY <1>14 DEF MarkForRetryCommit, PutBack, worker, history, fate
<1>15. ASSUME NEW r \in Retriers, RetrierDies(r)
      PROVE  AttemptsAreCounted'
  BY <1>15 DEF RetrierDies, table, worker, history
<1>16. ASSUME UNCHANGED vars
      PROVE  AttemptsAreCounted'
  BY <1>16 DEF vars, table, worker, retrier, history, fate
<1>17. ASSUME NEW w \in Workers, RenderFails(w)
       PROVE  AttemptsAreCounted'
  BY <1>17 DEF RenderFails, table, retrier, fate
<1>18. ASSUME NEW w \in Workers, RunForgets(w)
       PROVE  AttemptsAreCounted'
  BY <1>18 DEF RunForgets, table, retrier, history
<1>19. ASSUME NEW w \in Workers, AnswerLost(w)
       PROVE  AttemptsAreCounted'
  BY <1>19 DEF AnswerLost, table, retrier
<1> QED
  BY <1>1, <1>2, <1>3, <1>4, <1>5, <1>6, <1>7, <1>8,
     <1>9, <1>10, <1>11, <1>12, <1>13, <1>14, <1>15, <1>16,
     <1>17, <1>18, <1>19
  DEF Next, WorkerStep, RetryTaskStep

\* An accepted message stays accounted for, and its row is not sent again.
LEMMA StepAccounted ==
  ASSUME NoOverlap, TypeOK, ReadsAreFresh, AcceptedIsAccountedFor, [Next]_vars
  PROVE  AcceptedIsAccountedFor'
<1>4. ASSUME NEW w \in Workers, NEW n \in Rows, MarkProcessing(w, n)
      PROVE  AcceptedIsAccountedFor'
  <2>1. Marked(w, n)
    BY <1>4, MarkedRows
  <2>2. /\ held[w] \subseteq Rows
        /\ row[n].status = "pending" /\ n \in held[w] /\ seen[w][n] = row[n].attempts
        /\ pc[w] \in {"batch", "unrendered"}
        /\ pc[w] = "unrendered" => /\ cur[w] \in Rows /\ row[cur[w]].status = "processing"
                                   /\ cur[w] \notin orphans \cup forgotten
    BY <2>1 DEF TypeOK, ReadsAreFresh, Engaged, Marked, MarkedWorker
  <2>3. pc'[w] = "processing" /\ cur'[w] = n /\ \A v \in Workers : v = w
    BY <2>1 DEF Marked, MarkedWorker, NoOverlap
  <2>4. ASSUME NEW m \in Rows, accepted'[m] # 0
        PROVE  /\ accepted'[m] = 1
               /\ \/ row'[m].status = "delivered"
                  \/ m \in orphans'
                  \/ \E v \in Workers : pc'[v] = "accepted" /\ cur'[v] = m
    <3>1. accepted'[m] = accepted[m] /\ orphans' = orphans
      BY <2>1 DEF Marked, MarkedRest
    <3>2. accepted[m] = 1 /\ (row[m].status = "delivered" \/ m \in orphans)
      BY <2>2, <2>3, <2>4, <3>1 DEF AcceptedIsAccountedFor
    <3>3. CASE row[m].status = "delivered"
      BY <2>1, <2>2, <3>1, <3>2, <3>3 DEF Marked, MarkedTable
    <3>4. CASE m \in orphans
      BY <3>1, <3>2, <3>4
    <3> QED  BY <3>2, <3>3, <3>4
  <2> QED  BY <2>4 DEF AcceptedIsAccountedFor
<1> USE NoRowAssumption DEF TypeOK, NoOverlap, ReadsAreFresh, AcceptedIsAccountedFor, Engaged, InFlight
<1>1. ASSUME NEW n \in Rows, NEW later \in BOOLEAN, QueueNotification(n, later)
      PROVE  AcceptedIsAccountedFor'
  BY <1>1 DEF QueueNotification, worker, retrier, history, fate
<1>2. ASSUME NEW n \in Rows, ReachSchedule(n)
      PROVE  AcceptedIsAccountedFor'
  BY <1>2 DEF ReachSchedule, worker, retrier, history, fate
<1>3. ASSUME NEW w \in Workers, SelectBatch(w)
      PROVE  AcceptedIsAccountedFor'
  BY <1>3 DEF SelectBatch, Selectable, table, retrier, history, fate
<1>5. ASSUME NEW w \in Workers, Render(w)
      PROVE  AcceptedIsAccountedFor'
  BY <1>5 DEF Render, table, retrier, history, fate
<1>6. ASSUME NEW w \in Workers, SendAccepted(w)
      PROVE  AcceptedIsAccountedFor'
  BY <1>6 DEF SendAccepted, table, retrier, fate
<1>7. ASSUME NEW w \in Workers, SendRefused(w)
      PROVE  AcceptedIsAccountedFor'
  BY <1>7 DEF SendRefused, table, retrier, history, fate
<1>8. ASSUME NEW w \in Workers, CommitDelivered(w)
      PROVE  AcceptedIsAccountedFor'
  BY <1>8 DEF CommitDelivered, NextRow, retrier, fate
<1>9. ASSUME NEW w \in Workers, CommitFailed(w)
      PROVE  AcceptedIsAccountedFor'
  BY <1>9 DEF CommitFailed, NextRow, retrier, fate
<1>10. ASSUME NEW w \in Workers, WorkerDies(w)
      PROVE  AcceptedIsAccountedFor'
  BY <1>10 DEF WorkerDies, NotRead, table, retrier, history
<1>11. ASSUME NEW r \in Retriers, RetrySelect(r)
      PROVE  AcceptedIsAccountedFor'
  BY <1>11 DEF RetrySelect, MayRetry, table, worker, history, fate
<1>12. ASSUME NEW r \in Retriers, RetryCommit(r)
      PROVE  AcceptedIsAccountedFor'
  BY <1>12 DEF RetryCommit, PutBack, worker, history, fate
<1>13. ASSUME NEW r \in Retriers, NEW n \in Rows, MarkForRetrySelect(r, n)
      PROVE  AcceptedIsAccountedFor'
  BY <1>13 DEF MarkForRetrySelect, MayRetry, table, worker, history, fate
<1>14. ASSUME NEW r \in Retriers, NEW later \in BOOLEAN, MarkForRetryCommit(r, later)
      PROVE  AcceptedIsAccountedFor'
  BY <1>14 DEF MarkForRetryCommit, PutBack, worker, history, fate
<1>15. ASSUME NEW r \in Retriers, RetrierDies(r)
      PROVE  AcceptedIsAccountedFor'
  BY <1>15 DEF RetrierDies, table, worker, history
<1>16. ASSUME UNCHANGED vars
      PROVE  AcceptedIsAccountedFor'
  BY <1>16 DEF vars, table, worker, retrier, history, fate
<1>17. ASSUME NEW w \in Workers, RenderFails(w)
       PROVE  AcceptedIsAccountedFor'
  BY <1>17 DEF RenderFails, table, retrier, fate
<1>18. ASSUME NEW w \in Workers, RunForgets(w)
       PROVE  AcceptedIsAccountedFor'
  BY <1>18 DEF RunForgets, table, retrier, history
<1>19. ASSUME NEW w \in Workers, AnswerLost(w)
       PROVE  AcceptedIsAccountedFor'
  BY <1>19 DEF AnswerLost, table, retrier
<1> QED
  BY <1>1, <1>2, <1>3, <1>4, <1>5, <1>6, <1>7, <1>8,
     <1>9, <1>10, <1>11, <1>12, <1>13, <1>14, <1>15, <1>16,
     <1>17, <1>18, <1>19
  DEF Next, WorkerStep, RetryTaskStep

\* No step lets an attempt arrive a second time.
LEMMA StepArrives ==
  ASSUME NoOverlap, TypeOK, ReadsAreFresh, ArrivalsAreCounted, [Next]_vars
  PROVE  ArrivalsAreCounted'
<1>4. ASSUME NEW w \in Workers, NEW n \in Rows, MarkProcessing(w, n)
      PROVE  ArrivalsAreCounted'
  <2>1. Marked(w, n)
    BY <1>4, MarkedRows
  <2>2. /\ accepted \in [Rows -> Nat] /\ denied \in [Rows -> Nat] /\ tries \in [Rows -> Nat]
        /\ \A m \in Rows : accepted[m] + denied[m] <= tries[m]
    BY DEF TypeOK, ArrivalsAreCounted
  <2>3. /\ accepted' = accepted /\ denied' = denied
        /\ \A m \in Rows : tries'[m] = IF m = n THEN tries[m] + 1 ELSE tries[m]
    BY <2>1 DEF Marked, MarkedRest
  <2>4. pc'[w] = "processing" /\ cur'[w] = n /\ \A v \in Workers : v = w
    BY <2>1 DEF Marked, MarkedWorker, NoOverlap
  <2>5. \A m \in Rows : accepted'[m] + denied'[m] <= tries'[m]
    BY <2>2, <2>3
  <2>6. accepted'[n] + denied'[n] < tries'[n]
    BY <2>2, <2>3
  <2> QED  BY <2>4, <2>5, <2>6 DEF ArrivalsAreCounted
<1> USE NoRowAssumption DEF TypeOK, NoOverlap, ReadsAreFresh, ArrivalsAreCounted, Engaged, InFlight
<1>1. ASSUME NEW n \in Rows, NEW later \in BOOLEAN, QueueNotification(n, later)
      PROVE  ArrivalsAreCounted'
  BY <1>1 DEF QueueNotification, worker, retrier, history, fate
<1>2. ASSUME NEW n \in Rows, ReachSchedule(n)
      PROVE  ArrivalsAreCounted'
  BY <1>2 DEF ReachSchedule, worker, retrier, history, fate
<1>3. ASSUME NEW w \in Workers, SelectBatch(w)
      PROVE  ArrivalsAreCounted'
  BY <1>3 DEF SelectBatch, Selectable, table, retrier, history, fate
<1>5. ASSUME NEW w \in Workers, Render(w)
      PROVE  ArrivalsAreCounted'
  BY <1>5 DEF Render, table, retrier, history, fate
<1>6. ASSUME NEW w \in Workers, SendAccepted(w)
      PROVE  ArrivalsAreCounted'
  BY <1>6 DEF SendAccepted, table, retrier, fate
<1>7. ASSUME NEW w \in Workers, SendRefused(w)
      PROVE  ArrivalsAreCounted'
  BY <1>7 DEF SendRefused, table, retrier, history, fate
<1>8. ASSUME NEW w \in Workers, CommitDelivered(w)
      PROVE  ArrivalsAreCounted'
  BY <1>8 DEF CommitDelivered, NextRow, retrier, fate
<1>9. ASSUME NEW w \in Workers, CommitFailed(w)
      PROVE  ArrivalsAreCounted'
  BY <1>9 DEF CommitFailed, NextRow, retrier, fate
<1>10. ASSUME NEW w \in Workers, WorkerDies(w)
      PROVE  ArrivalsAreCounted'
  BY <1>10 DEF WorkerDies, NotRead, table, retrier, history
<1>11. ASSUME NEW r \in Retriers, RetrySelect(r)
      PROVE  ArrivalsAreCounted'
  BY <1>11 DEF RetrySelect, MayRetry, table, worker, history, fate
<1>12. ASSUME NEW r \in Retriers, RetryCommit(r)
      PROVE  ArrivalsAreCounted'
  BY <1>12 DEF RetryCommit, PutBack, worker, history, fate
<1>13. ASSUME NEW r \in Retriers, NEW n \in Rows, MarkForRetrySelect(r, n)
      PROVE  ArrivalsAreCounted'
  BY <1>13 DEF MarkForRetrySelect, MayRetry, table, worker, history, fate
<1>14. ASSUME NEW r \in Retriers, NEW later \in BOOLEAN, MarkForRetryCommit(r, later)
      PROVE  ArrivalsAreCounted'
  BY <1>14 DEF MarkForRetryCommit, PutBack, worker, history, fate
<1>15. ASSUME NEW r \in Retriers, RetrierDies(r)
      PROVE  ArrivalsAreCounted'
  BY <1>15 DEF RetrierDies, table, worker, history
<1>16. ASSUME UNCHANGED vars
      PROVE  ArrivalsAreCounted'
  BY <1>16 DEF vars, table, worker, retrier, history, fate
<1>17. ASSUME NEW w \in Workers, RenderFails(w)
       PROVE  ArrivalsAreCounted'
  BY <1>17 DEF RenderFails, table, retrier, fate
<1>18. ASSUME NEW w \in Workers, RunForgets(w)
       PROVE  ArrivalsAreCounted'
  BY <1>18 DEF RunForgets, table, retrier, history
<1>19. ASSUME NEW w \in Workers, AnswerLost(w)
       PROVE  ArrivalsAreCounted'
  BY <1>19 DEF AnswerLost, table, retrier
<1> QED
  BY <1>1, <1>2, <1>3, <1>4, <1>5, <1>6, <1>7, <1>8,
     <1>9, <1>10, <1>11, <1>12, <1>13, <1>14, <1>15, <1>16,
     <1>17, <1>18, <1>19
  DEF Next, WorkerStep, RetryTaskStep

\* The parts of SoloInv hold in every behaviour without overlap.
LEMMA SoloInvHolds == ASSUME NoOverlap PROVE Spec => []SoloInv
<1>1. Init => SoloInv
  BY NoRowAssumption DEF Init, SoloInv, ReadsAreFresh, AttemptsAreCounted,
                         AcceptedIsAccountedFor, ArrivalsAreCounted, Engaged, InFlight
<1>2. TypeOK /\ SoloInv /\ [Next]_vars => SoloInv'
  BY StepFresh, StepCounted, StepAccounted, StepArrives DEF SoloInv
<1> QED
  BY <1>1, <1>2, TypeCorrect, PTL DEF Spec

\* Once a channel has said yes nothing of the notification arrives again, whatever
\* dies: only a send that a channel wrongly reported as failed is repeated.
THEOREM NothingFollowsAYes == ASSUME NoOverlap PROVE Spec => NothingAfterYes
<1>1. TypeOK /\ SoloInv /\ [Next]_vars
        => [\A n \in Rows : accepted'[n] > accepted[n] \/ denied'[n] > denied[n] => accepted[n] = 0]_vars
  <2> SUFFICES ASSUME TypeOK, SoloInv, Next, NEW n \in Rows,
                      accepted'[n] > accepted[n] \/ denied'[n] > denied[n]
               PROVE  accepted[n] = 0
    OBVIOUS
  <2>1. accepted[n] \in Nat /\ denied[n] \in Nat
    BY DEF TypeOK
  <2>2. ~ UNCHANGED <<accepted, denied>>
    BY <2>1
  <2>3. PICK w \in Workers : SendAccepted(w) \/ AnswerLost(w)
    BY <2>2 DEF Next, WorkerStep, RetryTaskStep, QueueNotification, ReachSchedule, SelectBatch,
       MarkProcessing, Render, RenderFails, RunForgets, SendRefused, CommitDelivered, CommitFailed,
       WorkerDies, RetrySelect, RetryCommit, MarkForRetrySelect, MarkForRetryCommit, RetrierDies, history
  <2>4. pc[w] = "sending" /\ cur[w] = n
    BY <2>1, <2>3 DEF SendAccepted, AnswerLost, TypeOK
  <2>5. row[n].status = "processing" /\ n \notin orphans
    BY <2>4 DEF SoloInv, ReadsAreFresh, Engaged, InFlight
  <2>6. ~ \E v \in Workers : pc[v] = "accepted" /\ cur[v] = n
    BY <2>4 DEF NoOverlap
  <2> QED  BY <2>5, <2>6 DEF SoloInv, AcceptedIsAccountedFor
<1> QED
  BY <1>1, SoloInvHolds, TypeCorrect, PTL DEF Spec, NothingAfterYes

\* No row is attempted more often than max_attempts.
THEOREM TriesAlwaysWithinLimit == ASSUME NoOverlap PROVE Spec => []TriesWithinLimit
<1>1. AttemptsBounded /\ SoloInv => TriesWithinLimit
  BY DEF AttemptsBounded, SoloInv, AttemptsAreCounted, TriesWithinLimit
<1> QED
  BY <1>1, SoloInvHolds, AttemptsAlwaysBounded, PTL

-----------------------------------------------------------------------------
(* The queue implements DeliveryContract. *)

\* Each step of a task is a step of the contract, or changes nothing it sees.
LEMMA StepKeepsContract ==
  ASSUME NoOverlap, TypeOK, TypeOK', AttemptsBounded', SoloInv, [Next]_vars
  PROVE  [Contract!ContractNext]_(Contract!contract)
<1> DEFINE ph == [n \in Rows |-> PhaseOf(row[n].status)]
<1> DEFINE KC == [Contract!ContractNext]_(Contract!contract)
<1>a. SUFFICES KC
  OBVIOUS
<1> DEFINE arr == [n \in Rows |-> accepted[n] + denied[n]]
<1>b. ASSUME UNCHANGED <<row, tries, accepted, denied>> PROVE KC
  BY <1>b DEF Contract!contract
<1>1. ASSUME NEW n \in Rows, NEW later \in BOOLEAN, QueueNotification(n, later)
      PROVE  KC
  <2>1. ph' = [ph EXCEPT ![n] = "waiting"]
    BY <1>1 DEF QueueNotification, TypeOK, Statuses, PhaseOf
  <2>2. ph[n] = "absent" /\ tries' = tries /\ arr' = arr
    BY <1>1 DEF QueueNotification, history, PhaseOf
  <2>3. Contract!Accept(n)
    BY <2>1, <2>2 DEF Contract!Accept
  <2> QED  BY <2>3 DEF Contract!ContractNext
<1>2. ASSUME NEW n \in Rows, ReachSchedule(n)
      PROVE  KC
  BY <1>2, <1>b DEF ReachSchedule, history
<1>3. ASSUME NEW w \in Workers, SelectBatch(w)
      PROVE  KC
  BY <1>3, <1>b DEF SelectBatch, table, history
<1>4. ASSUME NEW w \in Workers, NEW n \in Rows, MarkProcessing(w, n)
      PROVE  KC
  <2>1. Marked(w, n)
    BY <1>4, MarkedRows
  <2>2. /\ pc[w] \in {"batch", "unrendered"} /\ n \in held[w]
        /\ row[n].status = "pending" /\ seen[w][n] = row[n].attempts /\ tries[n] = row[n].attempts
        /\ row'[n].status = "processing" /\ row'[n].attempts = seen[w][n] + 1
    BY <2>1 DEF Marked, MarkedTable, MarkedWorker, SoloInv, ReadsAreFresh, AttemptsAreCounted
  <2>3. tries[n] < MaxAttempts
    <3>1. row'[n].attempts = tries[n] + 1 /\ row'[n].attempts <= MaxAttempts
      BY <2>2 DEF AttemptsBounded
    <3>2. tries[n] \in Nat
      BY DEF TypeOK
    <3> QED  BY <3>1, <3>2, MaxAttemptsAssumption
  <2>4. tries' = [tries EXCEPT ![n] = @ + 1] /\ accepted' = accepted /\ denied' = denied
    BY <1>4 DEF MarkProcessing
  <2>5. ph[n] = "waiting" /\ PhaseOf(row'[n].status) = "attempting" /\ arr' = arr
    BY <2>2, <2>4 DEF PhaseOf
  <2>6. CASE pc[w] = "batch"
    <3>1. ASSUME NEW m \in Rows, m # n PROVE PhaseOf(row'[m].status) = PhaseOf(row[m].status)
      <4>1. row'[m].status = row[m].status
        BY <2>1, <2>6, <3>1 DEF Marked, MarkedTable
      <4> QED  BY <4>1
    <3>2. ph' = [ph EXCEPT ![n] = "attempting"]
      BY <2>5, <3>1
    <3>3. Contract!BeginAttempt(n)
      BY <2>3, <2>4, <2>5, <3>2 DEF Contract!BeginAttempt
    <3> QED  BY <3>3 DEF Contract!ContractNext
  <2>7. CASE pc[w] = "unrendered"
    <3>1. cur[w] \in Rows /\ row[cur[w]].status = "processing" /\ cur[w] # n
      BY <2>2, <2>7 DEF TypeOK, SoloInv, ReadsAreFresh, Engaged
    <3>2. PhaseOf(row'[cur[w]].status) = "waiting" /\ ph[cur[w]] = "attempting"
      <4>1. row'[cur[w]].status = "failed"
        BY <2>1, <2>7, <3>1 DEF Marked, MarkedTable
      <4> QED  BY <3>1, <4>1 DEF PhaseOf
    <3>3. ASSUME NEW m \in Rows, m # n, m # cur[w] PROVE PhaseOf(row'[m].status) = PhaseOf(row[m].status)
      <4>1. row'[m].status = row[m].status
        BY <2>1, <3>3 DEF Marked, MarkedTable
      <4> QED  BY <4>1
    <3>4. ph' = [ph EXCEPT ![cur[w]] = "waiting", ![n] = "attempting"]
      BY <2>5, <3>1, <3>2, <3>3
    <3>5. Contract!GoOn(cur[w], n)
      BY <2>3, <2>4, <2>5, <3>2, <3>4 DEF Contract!GoOn
    <3> QED  BY <3>1, <3>5 DEF Contract!ContractNext
  <2> QED  BY <2>2, <2>6, <2>7
<1>5. ASSUME NEW w \in Workers, Render(w)
      PROVE  KC
  BY <1>5, <1>b DEF Render, table, history
<1>6. ASSUME NEW w \in Workers, SendAccepted(w)
      PROVE  KC
  <2>1. cur[w] \in Rows /\ row[cur[w]].status = "processing"
    BY <1>6 DEF SendAccepted, TypeOK, Engaged, InFlight, SoloInv, ReadsAreFresh
  <2>2. accepted[cur[w]] + denied[cur[w]] < tries[cur[w]]
    BY <1>6 DEF SendAccepted, SoloInv, ArrivalsAreCounted
  <2>3. row' = row /\ tries' = tries /\ accepted' = [accepted EXCEPT ![cur[w]] = @ + 1] /\ denied' = denied
    BY <1>6 DEF SendAccepted, table
  <2>4. ph' = ph /\ ph[cur[w]] = "attempting"
    BY <2>1, <2>3 DEF PhaseOf
  <2>5. arr' = [arr EXCEPT ![cur[w]] = @ + 1]
    <3>1. accepted \in [Rows -> Nat] /\ denied \in [Rows -> Nat]
      BY DEF TypeOK
    <3>2. ASSUME NEW m \in Rows
          PROVE  accepted'[m] + denied'[m] = IF m = cur[w] THEN accepted[m] + denied[m] + 1
                                                           ELSE accepted[m] + denied[m]
      BY <2>1, <2>3, <3>1
    <3> QED  BY <2>1, <3>2
  <2>6. arr[cur[w]] < tries[cur[w]]
    BY <2>1, <2>2
  <2>7. PICK n \in Rows : n = cur[w]
    BY <2>1
  <2>8. Contract!Arrive(n)
    BY <2>3, <2>4, <2>5, <2>6, <2>7 DEF Contract!Arrive
  <2> QED  BY <2>8 DEF Contract!ContractNext
<1>7. ASSUME NEW w \in Workers, SendRefused(w)
      PROVE  KC
  BY <1>7, <1>b DEF SendRefused, table, history
<1>8. ASSUME NEW w \in Workers, CommitDelivered(w)
      PROVE  KC
  <2>1. cur[w] \in Rows /\ row[cur[w]].status = "processing"
    BY <1>8 DEF CommitDelivered, TypeOK, Engaged, InFlight, SoloInv, ReadsAreFresh
  <2>2. ph' = [ph EXCEPT ![cur[w]] = "delivered"]
    <3>1. PhaseOf(row'[cur[w]].status) = "delivered"
      <4>1. row'[cur[w]].status = "delivered"
        BY <1>8, <2>1 DEF CommitDelivered, TypeOK
      <4> QED  BY <4>1 DEF PhaseOf
    <3>2. ASSUME NEW m \in Rows, m # cur[w] PROVE row'[m] = row[m]
      BY <1>8, <2>1, <3>2 DEF CommitDelivered, TypeOK
    <3> QED  BY <2>1, <3>1, <3>2
  <2>3. ph[cur[w]] = "attempting" /\ tries' = tries /\ arr' = arr
    BY <1>8, <2>1 DEF CommitDelivered, PhaseOf
  <2>a. arr[cur[w]] > 0
    <3>1. accepted[cur[w]] > 0 /\ accepted[cur[w]] \in Nat /\ denied[cur[w]] \in Nat
      BY <1>8, <2>1 DEF CommitDelivered, SoloInv, ArrivalsAreCounted, TypeOK
    <3> QED  BY <2>1, <3>1
  <2>4. Contract!EndAttempt(cur[w], TRUE)
    BY <2>2, <2>3, <2>a DEF Contract!EndAttempt
  <2> QED  BY <2>1, <2>4 DEF Contract!ContractNext
<1>9. ASSUME NEW w \in Workers, CommitFailed(w)
      PROVE  KC
  <2>1. cur[w] \in Rows /\ row[cur[w]].status = "processing"
    BY <1>9 DEF CommitFailed, TypeOK, Engaged, InFlight, SoloInv, ReadsAreFresh
  <2>2. ph' = [ph EXCEPT ![cur[w]] = "waiting"]
    <3>1. PhaseOf(row'[cur[w]].status) = "waiting"
      <4>1. row'[cur[w]].status = "failed"
        BY <1>9, <2>1 DEF CommitFailed, TypeOK
      <4> QED  BY <4>1 DEF PhaseOf
    <3>2. ASSUME NEW m \in Rows, m # cur[w] PROVE row'[m] = row[m]
      BY <1>9, <2>1, <3>2 DEF CommitFailed, TypeOK
    <3> QED  BY <2>1, <3>1, <3>2
  <2>3. ph[cur[w]] = "attempting" /\ tries' = tries /\ arr' = arr
    BY <1>9, <2>1 DEF CommitFailed, PhaseOf
  <2>4. Contract!EndAttempt(cur[w], FALSE)
    BY <2>2, <2>3 DEF Contract!EndAttempt
  <2> QED  BY <2>1, <2>4 DEF Contract!ContractNext
<1>10. ASSUME NEW w \in Workers, WorkerDies(w)
      PROVE  KC
  BY <1>10, <1>b DEF WorkerDies, table, history
<1>11. ASSUME NEW r \in Retriers, RetrySelect(r)
      PROVE  KC
  BY <1>11, <1>b DEF RetrySelect, table, history
<1>12. ASSUME NEW r \in Retriers, RetryCommit(r)
      PROVE  KC
  <2>1. ASSUME NEW m \in Rows PROVE PhaseOf(row'[m].status) = PhaseOf(row[m].status)
    <3>1. CASE m \in retry[r]
      <4>1. row[m].status = "failed" /\ row'[m].status = "pending"
        BY <1>12, <3>1 DEF RetryCommit, PutBack, TypeOK, SoloInv, ReadsAreFresh
      <4> QED  BY <4>1 DEF PhaseOf
    <3>2. CASE m \notin retry[r]
      <4>1. row'[m] = row[m]
        BY <1>12, <3>2 DEF RetryCommit, PutBack
      <4> QED  BY <4>1
    <3> QED  BY <3>1, <3>2
  <2>2. ph' = ph
    BY <2>1
  <2>3. tries' = tries /\ arr' = arr
    BY <1>12 DEF RetryCommit, history
  <2> QED  BY <2>2, <2>3 DEF Contract!contract
<1>13. ASSUME NEW r \in Retriers, NEW n \in Rows, MarkForRetrySelect(r, n)
      PROVE  KC
  BY <1>13, <1>b DEF MarkForRetrySelect, table, history
<1>14. ASSUME NEW r \in Retriers, NEW later \in BOOLEAN, MarkForRetryCommit(r, later)
      PROVE  KC
  <2>1. ASSUME NEW m \in Rows PROVE PhaseOf(row'[m].status) = PhaseOf(row[m].status)
    <3>1. CASE m \in retry[r]
      <4>1. row[m].status = "failed" /\ row'[m].status = "pending"
        BY <1>14, <3>1 DEF MarkForRetryCommit, PutBack, TypeOK, SoloInv, ReadsAreFresh
      <4> QED  BY <4>1 DEF PhaseOf
    <3>2. CASE m \notin retry[r]
      <4>1. row'[m] = row[m]
        BY <1>14, <3>2 DEF MarkForRetryCommit, PutBack
      <4> QED  BY <4>1
    <3> QED  BY <3>1, <3>2
  <2>2. ph' = ph
    BY <2>1
  <2>3. tries' = tries /\ arr' = arr
    BY <1>14 DEF MarkForRetryCommit, history
  <2> QED  BY <2>2, <2>3 DEF Contract!contract
<1>15. ASSUME NEW r \in Retriers, RetrierDies(r)
      PROVE  KC
  BY <1>15, <1>b DEF RetrierDies, table, history
<1>16. ASSUME UNCHANGED vars
      PROVE  KC
  BY <1>16, <1>b DEF vars, table, history
<1>17. ASSUME NEW w \in Workers, RenderFails(w)
       PROVE  KC
  BY <1>17, <1>b DEF RenderFails, table, history
<1>18. ASSUME NEW w \in Workers, RunForgets(w)
       PROVE  KC
  BY <1>18, <1>b DEF RunForgets, table, history
<1>19. ASSUME NEW w \in Workers, AnswerLost(w)
       PROVE  KC
  <2>1. cur[w] \in Rows /\ row[cur[w]].status = "processing"
    BY <1>19 DEF AnswerLost, TypeOK, Engaged, InFlight, SoloInv, ReadsAreFresh
  <2>2. accepted[cur[w]] + denied[cur[w]] < tries[cur[w]]
    BY <1>19 DEF AnswerLost, SoloInv, ArrivalsAreCounted
  <2>3. row' = row /\ tries' = tries /\ denied' = [denied EXCEPT ![cur[w]] = @ + 1] /\ accepted' = accepted
    BY <1>19 DEF AnswerLost, table
  <2>4. ph' = ph /\ ph[cur[w]] = "attempting"
    BY <2>1, <2>3 DEF PhaseOf
  <2>5. arr' = [arr EXCEPT ![cur[w]] = @ + 1]
    <3>1. accepted \in [Rows -> Nat] /\ denied \in [Rows -> Nat]
      BY DEF TypeOK
    <3>2. ASSUME NEW m \in Rows
          PROVE  accepted'[m] + denied'[m] = IF m = cur[w] THEN accepted[m] + denied[m] + 1
                                                           ELSE accepted[m] + denied[m]
      BY <2>1, <2>3, <3>1
    <3> QED  BY <2>1, <3>2
  <2>6. arr[cur[w]] < tries[cur[w]]
    BY <2>1, <2>2
  <2>7. PICK n \in Rows : n = cur[w]
    BY <2>1
  <2>8. Contract!Arrive(n)
    BY <2>3, <2>4, <2>5, <2>6, <2>7 DEF Contract!Arrive
  <2> QED  BY <2>8 DEF Contract!ContractNext
<1> HIDE DEF KC
<1> QED
  BY <1>1, <1>2, <1>3, <1>4, <1>5, <1>6, <1>7, <1>8,
     <1>9, <1>10, <1>11, <1>12, <1>13, <1>14, <1>15, <1>16,
     <1>17, <1>18, <1>19
  DEF Next, WorkerStep, RetryTaskStep

\* As long as runs do not overlap the queue implements DeliveryContract: a row is
\* attempted at most max_attempts times, one attempt at a time, each attempt reaches
\* the recipient once at most, and delivered is final and only said of what arrived.
THEOREM QueueKeepsContract == ASSUME NoOverlap PROVE Spec => KeepsContract
<1>1. Init => Contract!ContractInit
  BY DEF Init, Contract!ContractInit, PhaseOf
<1>2. TypeOK /\ TypeOK' /\ AttemptsBounded' /\ SoloInv /\ [Next]_vars
        => [Contract!ContractNext]_(Contract!contract)
  BY StepKeepsContract
<1> QED
  BY <1>1, <1>2, TypeCorrect, AttemptsAlwaysBounded, SoloInvHolds, PTL
  DEF Spec, KeepsContract, Contract!ContractSpec

-----------------------------------------------------------------------------
(* The log accounts for the tries. *)

\* The workers on a row can be counted.
LEMMA WorkersCounted ==
  ASSUME NEW n
  PROVE  /\ IsFiniteSet(WorkersOn(n)) /\ Cardinality(WorkersOn(n)) \in Nat
         /\ IsFiniteSet(AcceptedOn(n)) /\ Cardinality(AcceptedOn(n)) \in Nat
<1>1. WorkersOn(n) \subseteq Workers /\ AcceptedOn(n) \subseteq Workers
  BY DEF WorkersOn, AcceptedOn
<1>2. IsFiniteSet(WorkersOn(n)) /\ IsFiniteSet(AcceptedOn(n))
  BY <1>1, WorkersAssumption, FS_Subset
<1> QED  BY <1>2, FS_CardinalityType

\* A step that moves no worker to or from a row keeps its account.
LEMMA SameAccount ==
  ASSUME LogAccountsForTries, orphans \subseteq orphans', NEW n \in Rows \ orphans',
         WorkersOn(n)' = WorkersOn(n), AcceptedOn(n)' = AcceptedOn(n),
         tries'[n] = tries[n], accepted'[n] = accepted[n], log'[n] = log[n],
         unlogged'[n] = unlogged[n]
  PROVE  /\ tries'[n] = log'[n].delivered + log'[n].failed + unlogged'[n] + Cardinality(WorkersOn(n)')
         /\ accepted'[n] = log'[n].delivered + Cardinality(AcceptedOn(n)')
<1>1. n \in Rows \ orphans
  OBVIOUS
<1> QED  BY <1>1 DEF LogAccountsForTries

\* Which workers are on which row, before and after a step of one of them.
LEMMA WorkersMove ==
  ASSUME NEW w \in Workers, NEW n \in Rows,
         \A v \in Workers \ {w} : pc'[v] = pc[v] /\ cur'[v] = cur[v]
  PROVE  /\ WorkersOn(n)' = IF pc'[w] \in InFlight /\ cur'[w] = n THEN WorkersOn(n) \cup {w}
                                                                  ELSE WorkersOn(n) \ {w}
         /\ AcceptedOn(n)' = IF pc'[w] = "accepted" /\ cur'[w] = n THEN AcceptedOn(n) \cup {w}
                                                                   ELSE AcceptedOn(n) \ {w}
         /\ w \in WorkersOn(n) <=> (pc[w] \in InFlight /\ cur[w] = n)
         /\ w \in AcceptedOn(n) <=> (pc[w] = "accepted" /\ cur[w] = n)
<1>1. "accepted" \in InFlight
  BY DEF InFlight
<1>2. WorkersOn(n)' = IF pc'[w] \in InFlight /\ cur'[w] = n THEN WorkersOn(n) \cup {w}
                                                            ELSE WorkersOn(n) \ {w}
  BY DEF WorkersOn
<1>3. AcceptedOn(n)' = IF pc'[w] = "accepted" /\ cur'[w] = n THEN AcceptedOn(n) \cup {w}
                                                             ELSE AcceptedOn(n) \ {w}
  BY <1>1 DEF AcceptedOn, WorkersOn
<1> QED  BY <1>1, <1>2, <1>3 DEF AcceptedOn, WorkersOn

\* Each step of a task keeps the account of every row that is not orphaned.
LEMMA StepAccounts ==
  TypeOK /\ LogAccountsForTries /\ [Next]_vars => LogAccountsForTries'
<1> SUFFICES ASSUME TypeOK, LogAccountsForTries, [Next]_vars, NEW n \in Rows \ orphans'
             PROVE  /\ tries'[n] = log'[n].delivered + log'[n].failed + unlogged'[n] + Cardinality(WorkersOn(n)')
                    /\ accepted'[n] = log'[n].delivered + Cardinality(AcceptedOn(n)')
  BY DEF LogAccountsForTries
<1> DEFINE Account ==
      /\ tries'[n] = log'[n].delivered + log'[n].failed + unlogged'[n] + Cardinality(WorkersOn(n)')
      /\ accepted'[n] = log'[n].delivered + Cardinality(AcceptedOn(n)')
<1>a. SUFFICES Account
  OBVIOUS
<1>n. /\ n \in Rows
      /\ {"processing", "sending", "accepted", "refused"} = InFlight
      /\ "idle" \notin InFlight /\ "batch" \notin InFlight /\ "unrendered" \notin InFlight
  BY DEF InFlight
<1>b. ASSUME UNCHANGED <<pc, cur, tries, accepted, log, unlogged, orphans>>
      PROVE  Account
  <2>1. WorkersOn(n)' = WorkersOn(n) /\ AcceptedOn(n)' = AcceptedOn(n)
    BY <1>b DEF WorkersOn, AcceptedOn
  <2> QED  BY <1>b, <2>1, SameAccount
<1>c. /\ orphans \subseteq orphans' => n \in Rows \ orphans
      /\ tries[n] \in Nat /\ accepted[n] \in Nat /\ log[n].delivered \in Nat
      /\ log[n].failed \in Nat /\ unlogged[n] \in Nat
  BY DEF TypeOK
<1>d. n \in Rows \ orphans =>
        /\ tries[n] = log[n].delivered + log[n].failed + unlogged[n] + Cardinality(WorkersOn(n))
        /\ accepted[n] = log[n].delivered + Cardinality(AcceptedOn(n))
  BY DEF LogAccountsForTries
<1>e. /\ IsFiniteSet(WorkersOn(n)) /\ Cardinality(WorkersOn(n)) \in Nat
      /\ IsFiniteSet(AcceptedOn(n)) /\ Cardinality(AcceptedOn(n)) \in Nat
  BY WorkersCounted
<1>t. /\ pc \in [Workers -> ControlPoints] /\ cur \in [Workers -> Rows \cup {NoRow}]
      /\ NoRow \notin Rows
  BY NoRowAssumption DEF TypeOK
\* A worker moves without touching the record of any row.
<1>f. ASSUME NEW w \in Workers, NEW p, pc' = [pc EXCEPT ![w] = p], cur' = cur,
             p \in InFlight <=> pc[w] \in InFlight, p # "accepted", pc[w] # "accepted",
             UNCHANGED <<tries, accepted, log, unlogged, orphans>>
      PROVE  Account
  <2>1. \A v \in Workers : cur'[v] = cur[v] /\ pc'[v] = IF v = w THEN p ELSE pc[v]
    BY <1>f, <1>t
  <2>a. pc'[w] = p /\ cur'[w] = cur[w] /\ \A v \in Workers \ {w} : cur'[v] = cur[v] /\ pc'[v] = pc[v]
    BY <2>1
  <2>b. /\ w \in WorkersOn(n) <=> (p \in InFlight /\ cur[w] = n)
        /\ w \notin AcceptedOn(n)
        /\ AcceptedOn(n)' = AcceptedOn(n) \ {w}
        /\ WorkersOn(n)' \in {WorkersOn(n) \cup {w}, WorkersOn(n) \ {w}}
        /\ WorkersOn(n)' = WorkersOn(n) \cup {w} \/ ~ (p \in InFlight /\ cur[w] = n)
        /\ WorkersOn(n)' = WorkersOn(n) \ {w} \/ (p \in InFlight /\ cur[w] = n)
    BY <1>f, <1>n, <2>a, WorkersMove
  <2>2. WorkersOn(n)' = WorkersOn(n) /\ AcceptedOn(n)' = AcceptedOn(n)
    BY <2>b
  <2> QED  BY <1>f, <2>2, SameAccount
\* A worker is done with its row.
<1>g. ASSUME NEW w \in Workers, NEW p, pc' = [pc EXCEPT ![w] = p], p \notin InFlight,
             cur' = [cur EXCEPT ![w] = NoRow]
      PROVE  /\ WorkersOn(n)' = WorkersOn(n) \ {w} /\ AcceptedOn(n)' = AcceptedOn(n) \ {w}
             /\ w \in WorkersOn(n) <=> (pc[w] \in InFlight /\ cur[w] = n)
             /\ w \in AcceptedOn(n) <=> (pc[w] = "accepted" /\ cur[w] = n)
  <2>1. /\ \A v \in Workers \ {w} : cur'[v] = cur[v] /\ pc'[v] = pc[v]
        /\ pc'[w] = p /\ cur'[w] = NoRow
    BY <1>g, <1>t
  <2> QED  BY <1>g, <1>n, <1>t, <2>1, WorkersMove
<1>1. ASSUME NEW m \in Rows, NEW later \in BOOLEAN, QueueNotification(m, later)
      PROVE  Account
  BY <1>1, <1>b DEF QueueNotification, worker, history, fate
<1>2. ASSUME NEW m \in Rows, ReachSchedule(m)
      PROVE  Account
  BY <1>2, <1>b DEF ReachSchedule, worker, history, fate
<1>3. ASSUME NEW w \in Workers, SelectBatch(w)
      PROVE  Account
  BY <1>3, <1>f DEF SelectBatch, history, fate, InFlight
<1>4. ASSUME NEW w \in Workers, NEW m \in Rows, MarkProcessing(w, m)
      PROVE  Account
  <2>1. /\ pc[w] \in {"batch", "unrendered"} /\ pc' = [pc EXCEPT ![w] = "processing"] /\ cur' = [cur EXCEPT ![w] = m]
        /\ accepted' = accepted /\ log' = log /\ unlogged' = unlogged /\ orphans' = orphans
        /\ n = m => tries'[n] = tries[n] + 1
        /\ n # m => tries'[n] = tries[n]
    BY <1>4 DEF MarkProcessing, fate, TypeOK
  <2>a. /\ \A v \in Workers \ {w} : cur'[v] = cur[v] /\ pc'[v] = pc[v]
        /\ pc'[w] = "processing" /\ cur'[w] = m
    BY <1>t, <2>1
  <2>2. /\ WorkersOn(n)' = IF m = n THEN WorkersOn(n) \cup {w} ELSE WorkersOn(n) \ {w}
        /\ AcceptedOn(n)' = AcceptedOn(n) \ {w}
        /\ w \notin WorkersOn(n) /\ w \notin AcceptedOn(n)
    BY <2>1, <2>a, <1>n, WorkersMove
  <2>3. AcceptedOn(n)' = AcceptedOn(n)
    BY <2>2
  <2>4. CASE n = m
    <3>1. Cardinality(WorkersOn(n)') = Cardinality(WorkersOn(n)) + 1
      BY <1>e, <2>2, <2>4, FS_AddElement
    <3> QED  BY <1>c, <1>d, <1>e, <2>1, <2>3, <2>4, <3>1
  <2>5. CASE n # m
    BY <2>1, <2>2, <2>5, SameAccount
  <2> QED  BY <2>4, <2>5
<1>5. ASSUME NEW w \in Workers, Render(w)
      PROVE  Account
  BY <1>5, <1>f DEF Render, history, fate, InFlight
<1>6. ASSUME NEW w \in Workers, SendAccepted(w)
      PROVE  Account
  <2>1. /\ pc[w] = "sending" /\ pc' = [pc EXCEPT ![w] = "accepted"]
        /\ cur' = [cur EXCEPT ![w] = cur[w]]
        /\ tries' = tries /\ log' = log /\ unlogged' = unlogged /\ orphans' = orphans
        /\ n = cur[w] => accepted'[n] = accepted[n] + 1
        /\ n # cur[w] => accepted'[n] = accepted[n]
    BY <1>6 DEF SendAccepted, fate, TypeOK
  <2>a. /\ \A v \in Workers \ {w} : cur'[v] = cur[v] /\ pc'[v] = pc[v]
        /\ pc'[w] = "accepted" /\ cur'[w] = cur[w]
    BY <1>t, <2>1
  <2>b. /\ w \in WorkersOn(n) <=> cur[w] = n
        /\ WorkersOn(n)' = WorkersOn(n) \cup {w} \/ cur[w] # n
        /\ WorkersOn(n)' = WorkersOn(n) \ {w} \/ cur[w] = n
    BY <2>1, <2>a, <1>n, WorkersMove
  <2>c. /\ AcceptedOn(n)' = IF cur[w] = n THEN AcceptedOn(n) \cup {w} ELSE AcceptedOn(n) \ {w}
        /\ w \notin AcceptedOn(n)
    BY <2>1, <2>a, <1>n, WorkersMove
  <2>2. WorkersOn(n)' = WorkersOn(n)
    BY <2>b
  <2>3. CASE n = cur[w]
    <3>1. Cardinality(AcceptedOn(n)') = Cardinality(AcceptedOn(n)) + 1
      BY <1>e, <2>c, <2>3, FS_AddElement
    <3> QED  BY <1>c, <1>d, <1>e, <2>1, <2>2, <2>3, <3>1
  <2>4. CASE n # cur[w]
    BY <2>1, <2>2, <2>c, <2>4, SameAccount
  <2> QED  BY <2>3, <2>4
<1>7. ASSUME NEW w \in Workers, SendRefused(w)
      PROVE  Account
  BY <1>7, <1>f DEF SendRefused, history, fate, InFlight
<1>8. ASSUME NEW w \in Workers, CommitDelivered(w)
      PROVE  Account
  <2>1. /\ pc[w] = "accepted" /\ cur[w] \in Rows /\ cur' = [cur EXCEPT ![w] = NoRow]
        /\ tries' = tries /\ accepted' = accepted /\ unlogged' = unlogged /\ orphans' = orphans
        /\ n # cur[w] => log'[n] = log[n]
        /\ n = cur[w] => /\ log'[n].delivered = log[n].delivered + 1
                         /\ log'[n].failed = log[n].failed
    BY <1>8 DEF CommitDelivered, NextRow, fate, TypeOK, Engaged, InFlight
  <2>2. PICK p : pc' = [pc EXCEPT ![w] = p] /\ p \notin InFlight
    <3>1. pc' \in {[pc EXCEPT ![w] = "idle"], [pc EXCEPT ![w] = "batch"]}
      BY <1>8 DEF CommitDelivered, NextRow
    <3> QED  BY <1>n, <3>1
  <2>3. /\ WorkersOn(n)' = WorkersOn(n) \ {w} /\ AcceptedOn(n)' = AcceptedOn(n) \ {w}
        /\ w \in WorkersOn(n) <=> cur[w] = n
        /\ w \in AcceptedOn(n) <=> cur[w] = n
    BY <1>g, <2>1, <2>2 DEF InFlight
  <2>4. CASE n = cur[w]
    <3>1. Cardinality(WorkersOn(n)') = Cardinality(WorkersOn(n)) - 1
      BY <1>e, <2>3, <2>4, FS_RemoveElement
    <3>2. Cardinality(AcceptedOn(n)') = Cardinality(AcceptedOn(n)) - 1
      BY <1>e, <2>3, <2>4, FS_RemoveElement
    <3> QED  BY <1>c, <1>d, <1>e, <2>1, <2>4, <3>1, <3>2
  <2>5. CASE n # cur[w]
    BY <2>1, <2>3, <2>5, SameAccount
  <2> QED  BY <2>4, <2>5
<1>9. ASSUME NEW w \in Workers, CommitFailed(w)
      PROVE  Account
  <2>1. /\ pc[w] = "refused" /\ cur[w] \in Rows /\ cur' = [cur EXCEPT ![w] = NoRow]
        /\ tries' = tries /\ accepted' = accepted /\ unlogged' = unlogged /\ orphans' = orphans
        /\ n # cur[w] => log'[n] = log[n]
        /\ n = cur[w] => /\ log'[n].delivered = log[n].delivered
                         /\ log'[n].failed = log[n].failed + 1
    BY <1>9 DEF CommitFailed, NextRow, fate, TypeOK, Engaged, InFlight
  <2>2. PICK p : pc' = [pc EXCEPT ![w] = p] /\ p \notin InFlight
    <3>1. pc' \in {[pc EXCEPT ![w] = "idle"], [pc EXCEPT ![w] = "batch"]}
      BY <1>9 DEF CommitFailed, NextRow
    <3> QED  BY <1>n, <3>1
  <2>3. /\ WorkersOn(n)' = WorkersOn(n) \ {w} /\ AcceptedOn(n)' = AcceptedOn(n)
        /\ w \in WorkersOn(n) <=> cur[w] = n
    BY <1>g, <2>1, <2>2 DEF InFlight
  <2>4. CASE n = cur[w]
    <3>1. Cardinality(WorkersOn(n)') = Cardinality(WorkersOn(n)) - 1
      BY <1>e, <2>3, <2>4, FS_RemoveElement
    <3> QED  BY <1>c, <1>d, <1>e, <2>1, <2>3, <2>4, <3>1
  <2>5. CASE n # cur[w]
    BY <2>1, <2>3, <2>5, SameAccount
  <2> QED  BY <2>4, <2>5
<1>10. ASSUME NEW w \in Workers, WorkerDies(w)
       PROVE  Account
  <2>1. /\ orphans' = IF pc[w] \in Engaged THEN orphans \cup {cur[w]} ELSE orphans
        /\ tries' = tries /\ accepted' = accepted /\ log' = log /\ unlogged' = unlogged
        /\ pc' = [pc EXCEPT ![w] = "idle"] /\ cur' = [cur EXCEPT ![w] = NoRow]
    BY <1>10 DEF WorkerDies, history
  <2>2. ~ (pc[w] \in InFlight /\ cur[w] = n)
    BY <2>1 DEF Engaged
  <2>3. WorkersOn(n)' = WorkersOn(n) /\ AcceptedOn(n)' = AcceptedOn(n)
    BY <1>g, <1>n, <2>1, <2>2
  <2> QED  BY <2>1, <2>3, SameAccount
<1>11. ASSUME NEW r \in Retriers, RetrySelect(r)
       PROVE  Account
  BY <1>11, <1>b DEF RetrySelect, worker, history, fate
<1>12. ASSUME NEW r \in Retriers, RetryCommit(r)
       PROVE  Account
  BY <1>12, <1>b DEF RetryCommit, worker, history, fate
<1>13. ASSUME NEW r \in Retriers, NEW m \in Rows, MarkForRetrySelect(r, m)
       PROVE  Account
  BY <1>13, <1>b DEF MarkForRetrySelect, worker, history, fate
<1>14. ASSUME NEW r \in Retriers, NEW later \in BOOLEAN, MarkForRetryCommit(r, later)
       PROVE  Account
  BY <1>14, <1>b DEF MarkForRetryCommit, worker, history, fate
<1>15. ASSUME NEW r \in Retriers, RetrierDies(r)
       PROVE  Account
  BY <1>15, <1>b DEF RetrierDies, worker, history
<1>16. ASSUME UNCHANGED vars
       PROVE  Account
  BY <1>16, <1>b DEF vars, worker, history, fate
<1>17. ASSUME NEW w \in Workers, RenderFails(w)
       PROVE  Account
  <2>1. /\ pc[w] = "processing" /\ cur[w] \in Rows /\ pc' = [pc EXCEPT ![w] = "unrendered"]
        /\ cur' = [cur EXCEPT ![w] = cur[w]]
        /\ tries' = tries /\ accepted' = accepted /\ log' = log /\ orphans' = orphans
        /\ n = cur[w] => unlogged'[n] = unlogged[n] + 1
        /\ n # cur[w] => unlogged'[n] = unlogged[n]
    BY <1>17 DEF RenderFails, fate, TypeOK, Engaged, InFlight
  <2>2. /\ \A v \in Workers \ {w} : cur'[v] = cur[v] /\ pc'[v] = pc[v]
        /\ pc'[w] = "unrendered"
    BY <1>t, <2>1
  <2>3. /\ WorkersOn(n)' = WorkersOn(n) \ {w} /\ AcceptedOn(n)' = AcceptedOn(n) \ {w}
        /\ w \in WorkersOn(n) <=> cur[w] = n
        /\ w \notin AcceptedOn(n)
    BY <1>n, <2>1, <2>2, WorkersMove
  <2>4. AcceptedOn(n)' = AcceptedOn(n)
    BY <2>3
  <2>5. CASE n = cur[w]
    <3>1. Cardinality(WorkersOn(n)') = Cardinality(WorkersOn(n)) - 1
      BY <1>e, <2>3, <2>5, FS_RemoveElement
    <3> QED  BY <1>c, <1>d, <1>e, <2>1, <2>4, <2>5, <3>1
  <2>6. CASE n # cur[w]
    <3>1. WorkersOn(n)' = WorkersOn(n)
      BY <2>3, <2>6
    <3> QED  BY <2>1, <2>4, <2>6, <3>1, SameAccount
  <2> QED  BY <2>5, <2>6
<1>18. ASSUME NEW w \in Workers, RunForgets(w)
       PROVE  Account
  <2>1. /\ pc[w] = "unrendered" /\ pc' = [pc EXCEPT ![w] = "idle"] /\ cur' = [cur EXCEPT ![w] = NoRow]
        /\ tries' = tries /\ accepted' = accepted /\ log' = log /\ unlogged' = unlogged
        /\ orphans' = orphans
    BY <1>18 DEF RunForgets, history
  <2>2. WorkersOn(n)' = WorkersOn(n) /\ AcceptedOn(n)' = AcceptedOn(n)
    BY <1>g, <1>n, <2>1
  <2> QED  BY <2>1, <2>2, SameAccount
<1>19. ASSUME NEW w \in Workers, AnswerLost(w)
       PROVE  Account
  BY <1>19, <1>f DEF AnswerLost, InFlight
<1> HIDE DEF Account
<1> QED
  BY <1>1, <1>2, <1>3, <1>4, <1>5, <1>6, <1>7, <1>8,
     <1>9, <1>10, <1>11, <1>12, <1>13, <1>14, <1>15, <1>16,
     <1>17, <1>18, <1>19
  DEF Next, WorkerStep, RetryTaskStep

\* process_notification, however runs overlap: each attempt of a row ends in one
\* entry of notification_log unless its worker died or its template failed, and a
\* delivered entry stands for one message that a channel said yes to.
THEOREM LogAlwaysAccounts == Spec => []LogAccountsForTries
<1>1. Init => LogAccountsForTries
  <2> SUFFICES ASSUME Init, NEW n \in Rows
               PROVE  /\ tries[n] = log[n].delivered + log[n].failed + unlogged[n] + Cardinality(WorkersOn(n))
                      /\ accepted[n] = log[n].delivered + Cardinality(AcceptedOn(n))
    BY DEF LogAccountsForTries
  <2>1. WorkersOn(n) = {} /\ AcceptedOn(n) = {}
    BY DEF Init, WorkersOn, AcceptedOn, InFlight
  <2>2. tries[n] = 0 /\ accepted[n] = 0 /\ log[n].delivered = 0 /\ log[n].failed = 0 /\ unlogged[n] = 0
    BY DEF Init
  <2> QED  BY <2>1, <2>2, FS_EmptySet
<1> QED  BY <1>1, StepAccounts, TypeCorrect, PTL DEF Spec
=============================================================================
