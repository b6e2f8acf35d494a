---------------------------- MODULE ExportJobsProofs ----------------------------
(***************************************************************************)
(* Theorems about ExportJobs, for every set of jobs and workers, however   *)
(* many exceptions, lost workers, redeliveries and deletions there are.    *)
(***************************************************************************)
EXTENDS ExportJobs, FiniteSetTheorems, TLAPS

-----------------------------------------------------------------------------
(* The invariant. *)

\* Files of any index and attempt.
AnyFile == [job : Jobs, index : Nat, attempt : Nat]

\* x has the fields of a row.
IsRow(x) ==
  /\ DOMAIN x = {"status", "count", "files"}
  /\ x.count \in Nat /\ x.files \in Seq(AnyFile)

\* The worker has read the row of its job.
HasRead(x) == x.at \notin {"idle", "received"}

\* x has the fields of a worker.
IsAttempt(x) ==
  /\ DOMAIN x = {"at", "job", "retries", "again", "local", "attempt", "source", "files"}
  /\ x.at # "idle" => x.job \in Jobs
  /\ x.attempt \in Nat /\ x.source \in Nat /\ x.files \in Seq(AnyFile)
  /\ x.at = "received" => x.files = <<>>
  /\ HasRead(x) => IsRow(x.local)

\* Of the state only what the argument needs.
Shape ==
  /\ DOMAIN request = Jobs /\ DOMAIN row = Jobs
  /\ attempts \in [Jobs -> Nat]
  /\ DOMAIN worker = Workers
  /\ \A j \in Jobs : Present(j) => IsRow(row[j])
  /\ \A w \in Workers : IsAttempt(worker[w])
  /\ fileRows \subseteq AnyFile /\ IsFiniteSet(fileRows)
  /\ DOMAIN deleter = {"at", "job", "files"}
  /\ deleter.at # "idle" => deleter.job \in Jobs

\* The worker w is making an attempt at job j and has read its row.
IsOn(w, j) == HasRead(worker[w]) /\ worker[w].job = j

\* Before the request commits the row there is none, and nobody has read it.  So a
\* row that has been deleted never comes back.
NotBeforeCommit ==
  \A j \in Jobs : request[j] \in {"none", "flushed"} =>
    ~Present(j) /\ \A w \in Workers : ~IsOn(w, j)

\* The files of an attempt that have rows are from sources that it is done with.
RecordedSoFar(w, f) ==
  f.index < worker[w].source \/ (f.index = worker[w].source /\ worker[w].at = "recorded")

\* Attempts at a job have numbers of their own, and an attempt has recorded
\* nothing from the source that it works on, or from a later one.
AttemptsAreApart ==
  /\ \A f \in fileRows : f.attempt <= attempts[f.job]
  /\ \A w \in Workers, j \in Jobs : IsOn(w, j) =>
       /\ worker[w].attempt <= attempts[j]
       /\ \A f \in fileRows :
            f.job = j /\ f.attempt = worker[w].attempt => RecordedSoFar(w, f)
       /\ \A v \in Workers \ {w} : IsOn(v, j) => worker[v].attempt # worker[w].attempt

\* The file f of job j has its row, and is or was on disk.
IsKept(f, j) == f.job = j /\ f \in fileRows /\ f \in disk \cup removed

\* The files that an attempt has listed are kept, and the one it is about to list.
ListIsKept(w, j) ==
  /\ \A i \in 1..Len(worker[w].files) : IsKept(worker[w].files[i], j)
  /\ worker[w].at = "written" => NextFile(w) \in disk \cup removed
  /\ worker[w].at = "recorded" => IsKept(NextFile(w), j)

\* While the job is there, so are they.
ListedFilesAreKept ==
  \A w \in Workers, j \in Jobs : IsOn(w, j) /\ Present(j) => ListIsKept(w, j)

\* An attempt counts no more files than have rows.
Counting(w) == IF worker[w].at = "recorded" THEN worker[w].local.count + 1
               ELSE worker[w].local.count

CopiesCountFiles ==
  \A w \in Workers, j \in Jobs : IsOn(w, j) /\ Present(j) =>
    Counting(w) <= Cardinality(RowsOf(j))

\* CompletedHasItsFiles, with the job of each file.
CompletedAreKept ==
  \A j \in Jobs : Completed(j) => \A i \in 1..Len(row[j].files) : IsKept(row[j].files[i], j)

\* The inductive invariant.
ExportInv ==
  /\ Shape /\ NotBeforeCommit /\ AttemptsAreApart /\ ListedFilesAreKept
  /\ CopiesCountFiles /\ CountedFilesExist /\ CompletedAreKept

-----------------------------------------------------------------------------
(* Steps of an attempt. *)

\* _get_job: the attempt gets a new number and the count of the row.
LEMMA LoadKeeps ==
  ASSUME ExportInv, NEW w \in Workers, Load(w)
  PROVE  ExportInv'
<1> USE DEF ExportInv, outside
<1> DEFINE j == worker[w].job
<1>0. /\ \A v \in Workers \ {w} : worker'[v] = worker[v]
      /\ worker[w].at = "received" /\ worker'[w].at = "loaded" /\ worker'[w].job = j /\ j \in Jobs
      /\ Present(j) /\ worker'[w].local = row[j] /\ worker'[w].attempt = attempts[j] + 1
      /\ worker'[w].files = <<>>
  BY DEF Load, Shape, IsAttempt, HasRead, IsRow
<1>o. \A v \in Workers, k \in Jobs : IsOn(v, k)' => IsOn(v, k) \/ (v = w /\ k = j)
  BY <1>0 DEF IsOn, HasRead
<1>p. \A k \in Jobs : Present(k)' => Present(k)
  BY DEF Load, Present
<1>d. UNCHANGED <<fileRows, disk, removed>>
  BY DEF Load
<1>r. \A k : RowsOf(k)' = RowsOf(k)
  BY DEF Load, RowsOf
<1>1. Shape'
  BY DEF Load, Shape, IsAttempt, HasRead, IsRow, Present
<1>2. NotBeforeCommit'
  BY <1>0, <1>o, <1>p DEF Load, NotBeforeCommit
<1>3. AttemptsAreApart'
  <2>1. attempts[j] \in Nat /\ attempts'[j] = attempts[j] + 1
        /\ \A k \in Jobs \ {j} : attempts'[k] = attempts[k]
    BY <1>0 DEF Load, Shape
  <2>2. \A k \in Jobs : attempts[k] \in Nat /\ attempts[k] <= attempts'[k]
    BY <2>1 DEF Shape
  <2>3. \A f \in fileRows : f.attempt <= attempts[f.job] /\ f.attempt \in Nat /\ f.job \in Jobs
    BY DEF AttemptsAreApart, Shape, AnyFile
  <2>4. \A f \in fileRows' : f.attempt <= attempts'[f.job]
    BY <2>2, <2>3 DEF Load
  <2> SUFFICES ASSUME NEW v \in Workers, NEW k \in Jobs, IsOn(v, k)'
               PROVE  /\ worker'[v].attempt <= attempts'[k]
                      /\ \A f \in fileRows :
                           f.job = k /\ f.attempt = worker'[v].attempt => RecordedSoFar(v, f)'
                      /\ \A u \in Workers \ {v} :
                           IsOn(u, k)' => worker'[u].attempt # worker'[v].attempt
    BY <2>4 DEF Load, AttemptsAreApart
  <2>5. \A u \in Workers \ {w} : IsOn(u, k)' =>
          /\ IsOn(u, k) /\ worker'[u] = worker[u]
          /\ worker[u].attempt <= attempts[k] /\ worker[u].attempt \in Nat
    BY <1>0 DEF IsOn, AttemptsAreApart, Shape, IsAttempt
  <2>6. CASE v = w
    <3>1. k = j
      BY <1>0, <2>6 DEF IsOn
    <3> QED  BY <1>0, <2>1, <2>3, <2>5, <2>6, <3>1
  <2>7. CASE v # w
    <3>1. IsOn(v, k) /\ worker'[v] = worker[v] /\ worker[v].attempt <= attempts'[k]
      <4>1. attempts[k] \in Nat /\ attempts'[k] \in Nat /\ attempts[k] <= attempts'[k]
        BY <2>1, <2>2
      <4>2. IsOn(v, k) /\ worker'[v] = worker[v]
            /\ worker[v].attempt <= attempts[k] /\ worker[v].attempt \in Nat
        BY <2>5, <2>7
      <4> QED  BY <4>1, <4>2
    <3>2. \A f \in fileRows : f.job = k /\ f.attempt = worker'[v].attempt => RecordedSoFar(v, f)'
      BY <3>1 DEF AttemptsAreApart, RecordedSoFar
    <3>3. IsOn(w, k)' => worker'[w].attempt # worker'[v].attempt
      BY <1>0, <2>1, <2>5, <2>7 DEF IsOn
    <3>4. \A u \in Workers \ {v, w} : IsOn(u, k)' => worker'[u].attempt # worker'[v].attempt
      BY <2>5, <2>7, <3>1 DEF AttemptsAreApart
    <3> QED  BY <3>1, <3>2, <3>3, <3>4
  <2> QED  BY <2>6, <2>7
<1>4. ListedFilesAreKept'
  <2> SUFFICES ASSUME NEW v \in Workers, NEW k \in Jobs, IsOn(v, k)', Present(k)'
               PROVE  ListIsKept(v, k)'
    BY DEF ListedFilesAreKept
  <2>1. CASE v # w
    <3>1. ListIsKept(v, k)
      BY <1>o, <1>p, <2>1 DEF ListedFilesAreKept
    <3> QED  BY <1>0, <1>d, <2>1, <3>1 DEF ListIsKept, NextFile, IsKept
  <2>2. CASE v = w
    BY <1>0, <2>2 DEF ListIsKept
  <2> QED  BY <2>1, <2>2
<1>5. CopiesCountFiles'
  <2> SUFFICES ASSUME NEW v \in Workers, NEW k \in Jobs, IsOn(v, k)', Present(k)'
               PROVE  Counting(v)' <= Cardinality(RowsOf(k))
    BY <1>r DEF CopiesCountFiles
  <2>1. CASE v # w
    BY <1>0, <2>1 DEF Load, CopiesCountFiles, Counting, IsOn, Present
  <2>2. CASE v = w
    <3>1. k = j /\ Present(k) /\ Counting(v)' = row[k].count
      BY <1>0, <2>2 DEF Load, IsOn, Counting, Present
    <3> QED  BY <3>1 DEF CountedFilesExist
  <2> QED  BY <2>1, <2>2
<1>6. CountedFilesExist'
  BY <1>0, <1>r, <1>p DEF Load, CountedFilesExist, Shape, IsRow
<1>7. CompletedAreKept'
  BY <1>0, <1>p DEF Load, CompletedAreKept, Completed, IsKept, Present, Shape, IsRow
<1> QED  BY <1>1, <1>2, <1>3, <1>4, <1>5, <1>6, <1>7

\* _initialize_export writes the status.
LEMMA InitializeKeeps ==
  ASSUME ExportInv, NEW w \in Workers, Initialize(w)
  PROVE  ExportInv'
<1> USE DEF ExportInv, outside
<1> DEFINE j == worker[w].job
<1>0. /\ \A v \in Workers \ {w} : worker'[v] = worker[v]
      /\ worker[w].at = "loaded" /\ worker'[w].at = "extract" /\ worker'[w].job = j /\ j \in Jobs
      /\ worker'[w].attempt = worker[w].attempt /\ worker'[w].files = worker[w].files
      /\ worker'[w].local.count = worker[w].local.count /\ worker'[w].source = worker[w].source
  BY DEF Initialize, Shape, IsAttempt, HasRead, IsRow
<1>o. \A v \in Workers, k \in Jobs : IsOn(v, k)' => IsOn(v, k)
  BY <1>0 DEF IsOn, HasRead
<1>p. \A k \in Jobs : Present(k)' => Present(k)
  BY <1>0 DEF Initialize, Shape, Present
<1>d. UNCHANGED <<fileRows, disk, removed>>
  BY DEF Initialize
<1>r. \A k : RowsOf(k)' = RowsOf(k)
  BY DEF Initialize, RowsOf
<1>1. Shape'
  BY DEF Initialize, Shape, IsAttempt, HasRead, IsRow, Present
<1>2. NotBeforeCommit'
  BY <1>0, <1>o, <1>p DEF Initialize, NotBeforeCommit
<1>3. AttemptsAreApart'
  <2> SUFFICES ASSUME NEW v \in Workers, NEW k \in Jobs, IsOn(v, k)'
               PROVE  /\ worker'[v].attempt <= attempts[k]
                      /\ \A f \in fileRows :
                           f.job = k /\ f.attempt = worker'[v].attempt => RecordedSoFar(v, f)'
                      /\ \A u \in Workers \ {v} :
                           IsOn(u, k)' => worker'[u].attempt # worker'[v].attempt
    BY <1>0 DEF Initialize, AttemptsAreApart
  <2>1. \A u \in Workers : worker'[u].attempt = worker[u].attempt
    BY <1>0
  <2>2. ASSUME NEW f \in fileRows, RecordedSoFar(v, f)
        PROVE  RecordedSoFar(v, f)'
    <3>1. f.index \in Nat /\ worker[v].source \in Nat
      BY DEF Shape, IsAttempt, AnyFile
    <3> QED  BY <1>0, <2>2, <3>1 DEF RecordedSoFar
  <2> QED  BY <1>o, <2>1, <2>2 DEF AttemptsAreApart
<1>4. ListedFilesAreKept'
  <2> SUFFICES ASSUME NEW v \in Workers, NEW k \in Jobs, IsOn(v, k)', Present(k)'
               PROVE  ListIsKept(v, k)'
    BY DEF ListedFilesAreKept
  <2>1. ListIsKept(v, k)
    BY <1>o, <1>p DEF ListedFilesAreKept
  <2>2. CASE v # w
    BY <1>0, <1>d, <2>1, <2>2 DEF ListIsKept, NextFile, IsKept
  <2>3. CASE v = w
    BY <1>0, <1>d, <2>1, <2>3 DEF ListIsKept, NextFile, IsKept
  <2> QED  BY <2>2, <2>3
<1>5. CopiesCountFiles'
  <2> SUFFICES ASSUME NEW v \in Workers, NEW k \in Jobs, IsOn(v, k)', Present(k)'
               PROVE  Counting(v)' <= Cardinality(RowsOf(k))
    BY <1>r DEF CopiesCountFiles
  <2>1. IsOn(v, k) /\ Present(k)
    BY <1>o, <1>p
  <2>2. Counting(v)' = Counting(v)
    BY <1>0 DEF Counting
  <2> QED  BY <2>1, <2>2 DEF CopiesCountFiles
<1>6. CountedFilesExist'
  BY <1>0, <1>r, <1>p DEF Initialize, CountedFilesExist, Shape, IsRow
<1>7. CompletedAreKept'
  BY <1>0, <1>p DEF Initialize, CompletedAreKept, Completed, IsKept, Present, Shape, IsRow
<1> QED  BY <1>1, <1>2, <1>3, <1>4, <1>5, <1>6, <1>7

\* A source without rows.
LEMMA SkipEmptyKeeps ==
  ASSUME ExportInv, NEW w \in Workers, SkipEmpty(w)
  PROVE  ExportInv'
<1> USE DEF ExportInv, outside
<1> DEFINE j == worker[w].job
<1>0. /\ \A v \in Workers \ {w} : worker'[v] = worker[v]
      /\ worker[w].at = "extract" /\ worker'[w].at = "extract" /\ worker'[w].job = j /\ j \in Jobs
      /\ worker'[w].attempt = worker[w].attempt /\ worker'[w].files = worker[w].files
      /\ worker'[w].local = worker[w].local /\ worker'[w].source = worker[w].source + 1
  BY DEF SkipEmpty, Shape, IsAttempt, HasRead, IsRow
<1>o. \A v \in Workers, k \in Jobs : IsOn(v, k)' => IsOn(v, k)
  BY <1>0 DEF IsOn, HasRead
<1>p. \A k \in Jobs : Present(k)' => Present(k)
  BY <1>0 DEF SkipEmpty, Shape, Present
<1>d. UNCHANGED <<fileRows, disk, removed>>
  BY DEF SkipEmpty
<1>r. \A k : RowsOf(k)' = RowsOf(k)
  BY DEF SkipEmpty, RowsOf
<1>1. Shape'
  BY DEF SkipEmpty, Shape, IsAttempt, HasRead, IsRow, Present
<1>2. NotBeforeCommit'
  BY <1>0, <1>o, <1>p DEF SkipEmpty, NotBeforeCommit
<1>3. AttemptsAreApart'
  <2> SUFFICES ASSUME NEW v \in Workers, NEW k \in Jobs, IsOn(v, k)'
               PROVE  /\ worker'[v].attempt <= attempts[k]
                      /\ \A f \in fileRows :
                           f.job = k /\ f.attempt = worker'[v].attempt => RecordedSoFar(v, f)'
                      /\ \A u \in Workers \ {v} :
                           IsOn(u, k)' => worker'[u].attempt # worker'[v].attempt
    BY <1>0 DEF SkipEmpty, AttemptsAreApart
  <2>1. \A u \in Workers : worker'[u].attempt = worker[u].attempt
    BY <1>0
  <2>2. ASSUME NEW f \in fileRows, RecordedSoFar(v, f)
        PROVE  RecordedSoFar(v, f)'
    <3>1. f.index \in Nat /\ worker[v].source \in Nat
      BY DEF Shape, IsAttempt, AnyFile
    <3> QED  BY <1>0, <2>2, <3>1 DEF RecordedSoFar
  <2> QED  BY <1>o, <2>1, <2>2 DEF AttemptsAreApart
<1>4. ListedFilesAreKept'
  <2> SUFFICES ASSUME NEW v \in Workers, NEW k \in Jobs, IsOn(v, k)', Present(k)'
               PROVE  ListIsKept(v, k)'
    BY DEF ListedFilesAreKept
  <2>1. ListIsKept(v, k)
    BY <1>o, <1>p DEF ListedFilesAreKept
  <2>2. CASE v # w
    BY <1>0, <1>d, <2>1, <2>2 DEF ListIsKept, NextFile, IsKept
  <2>3. CASE v = w
    BY <1>0, <1>d, <2>1, <2>3 DEF ListIsKept, NextFile, IsKept
  <2> QED  BY <2>2, <2>3
<1>5. CopiesCountFiles'
  <2> SUFFICES ASSUME NEW v \in Workers, NEW k \in Jobs, IsOn(v, k)', Present(k)'
               PROVE  Counting(v)' <= Cardinality(RowsOf(k))
    BY <1>r DEF CopiesCountFiles
  <2>1. IsOn(v, k) /\ Present(k)
    BY <1>o, <1>p
  <2>2. Counting(v)' = Counting(v)
    BY <1>0 DEF Counting
  <2> QED  BY <2>1, <2>2 DEF CopiesCountFiles
<1>6. CountedFilesExist'
  BY <1>0, <1>r, <1>p DEF SkipEmpty, CountedFilesExist, Shape, IsRow
<1>7. CompletedAreKept'
  BY <1>0, <1>p DEF SkipEmpty, CompletedAreKept, Completed, IsKept, Present, Shape, IsRow
<1> QED  BY <1>1, <1>2, <1>3, <1>4, <1>5, <1>6, <1>7

\* A file on disk.
LEMMA WriteFileKeeps ==
  ASSUME ExportInv, NEW w \in Workers, WriteFile(w)
  PROVE  ExportInv'
<1> USE DEF ExportInv, outside
<1> DEFINE j == worker[w].job
<1>0. /\ \A v \in Workers \ {w} : worker'[v] = worker[v]
      /\ worker[w].at = "extract" /\ worker'[w].at = "written" /\ worker'[w].job = j /\ j \in Jobs
      /\ worker'[w].attempt = worker[w].attempt /\ worker'[w].files = worker[w].files
      /\ worker'[w].local = worker[w].local /\ worker'[w].source = worker[w].source
  BY DEF WriteFile, Shape, IsAttempt, HasRead, IsRow
<1>o. \A v \in Workers, k \in Jobs : IsOn(v, k)' => IsOn(v, k)
  BY <1>0 DEF IsOn, HasRead
<1>p. \A k \in Jobs : Present(k)' => Present(k)
  BY <1>0 DEF WriteFile, Shape, Present
<1>d. disk' = disk \cup {NextFile(w)} /\ UNCHANGED <<fileRows, removed>>
  BY DEF WriteFile
<1>r. \A k : RowsOf(k)' = RowsOf(k)
  BY DEF WriteFile, RowsOf
<1>1. Shape'
  BY DEF WriteFile, Shape, IsAttempt, HasRead, IsRow, Present
<1>2. NotBeforeCommit'
  BY <1>0, <1>o, <1>p DEF WriteFile, NotBeforeCommit
<1>3. AttemptsAreApart'
  <2> SUFFICES ASSUME NEW v \in Workers, NEW k \in Jobs, IsOn(v, k)'
               PROVE  /\ worker'[v].attempt <= attempts[k]
                      /\ \A f \in fileRows :
                           f.job = k /\ f.attempt = worker'[v].attempt => RecordedSoFar(v, f)'
                      /\ \A u \in Workers \ {v} :
                           IsOn(u, k)' => worker'[u].attempt # worker'[v].attempt
    BY <1>0 DEF WriteFile, AttemptsAreApart
  <2>1. \A u \in Workers : worker'[u].attempt = worker[u].attempt
    BY <1>0
  <2>2. ASSUME NEW f \in fileRows, RecordedSoFar(v, f)
        PROVE  RecordedSoFar(v, f)'
    <3>1. f.index \in Nat /\ worker[v].source \in Nat
      BY DEF Shape, IsAttempt, AnyFile
    <3> QED  BY <1>0, <2>2, <3>1 DEF RecordedSoFar
  <2> QED  BY <1>o, <2>1, <2>2 DEF AttemptsAreApart
<1>4. ListedFilesAreKept'
  <2> SUFFICES ASSUME NEW v \in Workers, NEW k \in Jobs, IsOn(v, k)', Present(k)'
               PROVE  ListIsKept(v, k)'
    BY DEF ListedFilesAreKept
  <2>1. ListIsKept(v, k)
    BY <1>o, <1>p DEF ListedFilesAreKept
  <2>2. CASE v # w
    BY <1>0, <1>d, <2>1, <2>2 DEF ListIsKept, NextFile, IsKept
  <2>3. CASE v = w
    BY <1>0, <1>d, <2>1, <2>3 DEF ListIsKept, NextFile, IsKept
  <2> QED  BY <2>2, <2>3
<1>5. CopiesCountFiles'
  <2> SUFFICES ASSUME NEW v \in Workers, NEW k \in Jobs, IsOn(v, k)', Present(k)'
               PROVE  Counting(v)' <= Cardinality(RowsOf(k))
    BY <1>r DEF CopiesCountFiles
  <2>1. IsOn(v, k) /\ Present(k)
    BY <1>o, <1>p
  <2>2. Counting(v)' = Counting(v)
    BY <1>0 DEF Counting
  <2> QED  BY <2>1, <2>2 DEF CopiesCountFiles
<1>6. CountedFilesExist'
  BY <1>0, <1>r, <1>p DEF WriteFile, CountedFilesExist, Shape, IsRow
<1>7. CompletedAreKept'
  BY <1>0, <1>p DEF WriteFile, CompletedAreKept, Completed, IsKept, Present, Shape, IsRow
<1> QED  BY <1>1, <1>2, <1>3, <1>4, <1>5, <1>6, <1>7

\* Its row: new, because no other attempt has the number.
LEMMA RecordFileKeeps ==
  ASSUME ExportInv, NEW w \in Workers, RecordFile(w)
  PROVE  ExportInv'
<1> USE DEF ExportInv, outside
<1> DEFINE j == worker[w].job
<1>0. /\ \A v \in Workers \ {w} : worker'[v] = worker[v]
      /\ worker[w].at = "written" /\ worker'[w].at = "recorded" /\ worker'[w].job = j /\ j \in Jobs
      /\ worker'[w].attempt = worker[w].attempt /\ worker'[w].files = worker[w].files
      /\ worker'[w].local = worker[w].local /\ worker'[w].source = worker[w].source
  BY DEF RecordFile, Shape, IsAttempt, HasRead, IsRow
<1>o. \A v \in Workers, k \in Jobs : IsOn(v, k)' => IsOn(v, k)
  BY <1>0 DEF IsOn, HasRead
<1>p. \A k \in Jobs : Present(k)' => Present(k)
  BY <1>0 DEF RecordFile, Shape, Present
<1> DEFINE new == NextFile(w)
<1>d. /\ new \in AnyFile /\ new.job = j /\ new.attempt = worker[w].attempt
      /\ new.index = worker[w].source
      /\ fileRows' = fileRows \cup {new} /\ UNCHANGED <<row, attempts, disk, removed>>
  BY <1>0 DEF RecordFile, NextFile, AnyFile, Shape, IsAttempt
<1>n. new \notin fileRows
  <2>1. IsOn(w, j) /\ ~RecordedSoFar(w, new)
    BY <1>0, <1>d DEF IsOn, HasRead, RecordedSoFar, Shape, IsAttempt
  <2> QED  BY <1>0, <1>d, <2>1 DEF AttemptsAreApart
<1> HIDE DEF new
<1>r. \A k \in Jobs : /\ k # j => RowsOf(k)' = RowsOf(k)
                      /\ k = j => RowsOf(k)' = RowsOf(k) \cup {new} /\ new \notin RowsOf(k)
  BY <1>d, <1>n DEF RowsOf
<1>c. \A k \in Jobs : /\ Cardinality(RowsOf(k)) \in Nat /\ Cardinality(RowsOf(k)') \in Nat
                      /\ Cardinality(RowsOf(k)) <= Cardinality(RowsOf(k)')
                      /\ k = j => Cardinality(RowsOf(k)') = Cardinality(RowsOf(k)) + 1
  <2> TAKE k \in Jobs
  <2>1. IsFiniteSet(RowsOf(k))
    BY FS_Subset DEF RowsOf, Shape
  <2>2. Cardinality(RowsOf(k)) \in Nat
    BY <2>1, FS_CardinalityType
  <2>3. CASE k = j
    <3>1. Cardinality(RowsOf(k)') = Cardinality(RowsOf(k)) + 1
      BY <1>r, <2>1, <2>3, FS_AddElement
    <3> QED  BY <2>2, <2>3, <3>1
  <2>4. CASE k # j
    BY <1>r, <2>2, <2>4
  <2> QED  BY <2>3, <2>4
<1>1. Shape'
  <2>1. fileRows' \subseteq AnyFile /\ IsFiniteSet(fileRows')
    BY <1>d, FS_AddElement DEF Shape
  <2>2. \A v \in Workers : IsAttempt(worker'[v])
    BY <1>0 DEF RecordFile, Shape, IsAttempt, HasRead
  <2> QED  BY <1>d, <2>1, <2>2 DEF RecordFile, Shape, Present
<1>2. NotBeforeCommit'
  BY <1>0, <1>o, <1>p DEF RecordFile, NotBeforeCommit
<1>3. AttemptsAreApart'
  <2>1. worker[w].attempt <= attempts[j] /\ IsOn(w, j)
    BY <1>0 DEF IsOn, HasRead, AttemptsAreApart
  <2>2. \A f \in fileRows' : f.attempt <= attempts'[f.job]
    BY <1>d, <2>1 DEF AttemptsAreApart
  <2> SUFFICES ASSUME NEW v \in Workers, NEW k \in Jobs, IsOn(v, k)'
               PROVE  /\ worker'[v].attempt <= attempts[k]
                      /\ \A f \in fileRows' :
                           f.job = k /\ f.attempt = worker'[v].attempt => RecordedSoFar(v, f)'
                      /\ \A u \in Workers \ {v} :
                           IsOn(u, k)' => worker'[u].attempt # worker'[v].attempt
    BY <1>d, <2>2 DEF AttemptsAreApart
  <2>3. \A u \in Workers : worker'[u].attempt = worker[u].attempt
    BY <1>0
  <2>4. ASSUME NEW f \in fileRows', f.job = k, f.attempt = worker'[v].attempt
        PROVE  RecordedSoFar(v, f)'
    <3>1. CASE f = new
      <4>1. v = w
        BY <1>d, <1>o, <2>1, <2>3, <2>4, <3>1 DEF AttemptsAreApart
      <4> QED  BY <1>0, <1>d, <3>1, <4>1 DEF RecordedSoFar
    <3>2. CASE f # new
      <4>1. f \in fileRows /\ RecordedSoFar(v, f)
        BY <1>d, <1>o, <2>3, <2>4, <3>2 DEF AttemptsAreApart
      <4> QED  BY <1>0, <4>1 DEF RecordedSoFar
    <3> QED  BY <3>1, <3>2
  <2> QED  BY <1>o, <2>3, <2>4 DEF AttemptsAreApart
<1>4. ListedFilesAreKept'
  <2> SUFFICES ASSUME NEW v \in Workers, NEW k \in Jobs, IsOn(v, k)', Present(k)'
               PROVE  ListIsKept(v, k)'
    BY DEF ListedFilesAreKept
  <2>1. ListIsKept(v, k)
    BY <1>o, <1>p DEF ListedFilesAreKept
  <2>2. CASE v # w
    BY <1>0, <1>d, <2>1, <2>2 DEF ListIsKept, NextFile, IsKept
  <2>3. CASE v = w
    <3>1. k = j /\ NextFile(w)' = new /\ new \in disk \cup removed
      BY <1>0, <2>1, <2>3 DEF IsOn, NextFile, ListIsKept, new
    <3> QED  BY <1>0, <1>d, <2>1, <2>3, <3>1 DEF ListIsKept, IsKept
  <2> QED  BY <2>2, <2>3
<1>5. CopiesCountFiles'
  <2> SUFFICES ASSUME NEW v \in Workers, NEW k \in Jobs, IsOn(v, k)', Present(k)'
               PROVE  Counting(v)' <= Cardinality(RowsOf(k)')
    BY DEF CopiesCountFiles
  <2>1. /\ IsOn(v, k) /\ Counting(v) <= Cardinality(RowsOf(k))
        /\ worker[v].local.count \in Nat
    BY <1>o, <1>p DEF CopiesCountFiles, Shape, IsAttempt, IsRow, IsOn
  <2>2. CASE v # w
    <3>1. Counting(v)' = Counting(v) /\ Counting(v) \in Nat
      BY <1>0, <2>1, <2>2 DEF Counting
    <3> QED  BY <1>c, <2>1, <3>1
  <2>3. CASE v = w
    <3>1. k = j /\ Counting(v)' = Counting(v) + 1 /\ Counting(v) \in Nat
      BY <1>0, <2>1, <2>3 DEF Counting, IsOn
    <3> QED  BY <1>c, <2>1, <3>1
  <2> QED  BY <2>2, <2>3
<1>6. CountedFilesExist'
  <2> SUFFICES ASSUME NEW k \in Jobs, Present(k)'
               PROVE  row[k].count <= Cardinality(RowsOf(k)')
    BY <1>d DEF CountedFilesExist
  <2>1. row[k].count \in Nat /\ row[k].count <= Cardinality(RowsOf(k))
    BY <1>p DEF CountedFilesExist, Shape, IsRow
  <2> QED  BY <1>c, <2>1
<1>7. CompletedAreKept'
  BY <1>0, <1>p DEF RecordFile, CompletedAreKept, Completed, IsKept, Present, Shape, IsRow
<1> QED  BY <1>1, <1>2, <1>3, <1>4, <1>5, <1>6, <1>7

\* Its count and its place in the list.
LEMMA CountFileKeeps ==
  ASSUME ExportInv, NEW w \in Workers, CountFile(w)
  PROVE  ExportInv'
<1> USE DEF ExportInv, outside
<1> DEFINE j == worker[w].job
<1>0. /\ \A v \in Workers \ {w} : worker'[v] = worker[v]
      /\ worker[w].at = "recorded" /\ worker'[w].at = "extract" /\ worker'[w].job = j /\ j \in Jobs
      /\ worker'[w].attempt = worker[w].attempt
      /\ worker'[w].files = Append(worker[w].files, NextFile(w))
      /\ worker'[w].local.count = worker[w].local.count + 1
      /\ worker'[w].source = worker[w].source + 1
  BY DEF CountFile, Shape, IsAttempt, HasRead, IsRow
<1>o. \A v \in Workers, k \in Jobs : IsOn(v, k)' => IsOn(v, k)
  BY <1>0 DEF IsOn, HasRead
<1>p. \A k \in Jobs : Present(k)' => Present(k)
  BY <1>0 DEF CountFile, Shape, Present
<1>d. UNCHANGED <<fileRows, disk, removed>>
  BY DEF CountFile
<1>r. \A k : RowsOf(k)' = RowsOf(k)
  BY DEF CountFile, RowsOf
<1>1. Shape'
  <2>1. DOMAIN worker' = Workers /\ DOMAIN row' = Jobs
    BY DEF CountFile, Shape
  <2>2. IsAttempt(worker'[w])
    <3>1. /\ DOMAIN worker'[w] = DOMAIN worker[w]
          /\ DOMAIN worker'[w].local = DOMAIN worker[w].local
          /\ worker'[w].local.files = worker[w].local.files
      BY DEF CountFile, Shape, IsAttempt, HasRead, IsRow
    <3>2. NextFile(w) \in AnyFile /\ IsAttempt(worker[w]) /\ IsRow(worker[w].local)
      BY <1>0 DEF Shape, IsAttempt, HasRead, NextFile, AnyFile
    <3>3. Append(worker[w].files, NextFile(w)) \in Seq(AnyFile)
      BY <3>2 DEF IsAttempt
    <3> QED  BY <1>0, <3>1, <3>2, <3>3 DEF IsAttempt, HasRead, IsRow
  <2>3. \A k \in Jobs : Present(k)' => IsRow(row'[k])
    <3>0. IsAttempt(worker[w]) /\ HasRead(worker[w])
      BY <1>0 DEF Shape, HasRead
    <3>1. worker[w].local.count + 1 \in Nat /\ Present(j)
      BY <3>0 DEF CountFile, IsAttempt, IsRow
    <3>2. /\ \A k \in Jobs \ {j} : row'[k] = row[k]
          /\ DOMAIN row'[j] = DOMAIN row[j] /\ row'[j].files = row[j].files
          /\ row'[j].count = worker[w].local.count + 1
      BY <1>0, <3>1 DEF CountFile, Shape, IsRow
    <3> QED  BY <1>0, <1>p, <3>1, <3>2 DEF Shape, IsRow
  <2> QED  BY <1>0, <1>d, <2>1, <2>2, <2>3 DEF CountFile, Shape
<1>2. NotBeforeCommit'
  BY <1>0, <1>o, <1>p DEF CountFile, NotBeforeCommit
<1>3. AttemptsAreApart'
  <2> SUFFICES ASSUME NEW v \in Workers, NEW k \in Jobs, IsOn(v, k)'
               PROVE  /\ worker'[v].attempt <= attempts[k]
                      /\ \A f \in fileRows :
                           f.job = k /\ f.attempt = worker'[v].attempt => RecordedSoFar(v, f)'
                      /\ \A u \in Workers \ {v} :
                           IsOn(u, k)' => worker'[u].attempt # worker'[v].attempt
    BY <1>0 DEF CountFile, AttemptsAreApart
  <2>1. \A u \in Workers : worker'[u].attempt = worker[u].attempt
    BY <1>0
  <2>2. ASSUME NEW f \in fileRows, RecordedSoFar(v, f)
        PROVE  RecordedSoFar(v, f)'
    <3>1. f.index \in Nat /\ worker[v].source \in Nat
      BY DEF Shape, IsAttempt, AnyFile
    <3> QED  BY <1>0, <2>2, <3>1 DEF RecordedSoFar
  <2> QED  BY <1>o, <2>1, <2>2 DEF AttemptsAreApart
<1>4. ListedFilesAreKept'
  <2> SUFFICES ASSUME NEW v \in Workers, NEW k \in Jobs, IsOn(v, k)', Present(k)'
               PROVE  ListIsKept(v, k)'
    BY DEF ListedFilesAreKept
  <2>1. ListIsKept(v, k)
    BY <1>o, <1>p DEF ListedFilesAreKept
  <2>2. CASE v # w
    BY <1>0, <1>d, <2>1, <2>2 DEF ListIsKept, NextFile, IsKept
  <2>3. CASE v = w
    <3>1. worker[w].files \in Seq(AnyFile) /\ NextFile(w) \in AnyFile
      BY <1>0 DEF Shape, IsAttempt, NextFile, AnyFile
    <3>2. /\ Len(worker'[w].files) = Len(worker[w].files) + 1
          /\ Len(worker[w].files) \in Nat
          /\ \A i \in 1..Len(worker[w].files) : worker'[w].files[i] = worker[w].files[i]
          /\ worker'[w].files[Len(worker[w].files) + 1] = NextFile(w)
      BY <1>0, <3>1
    <3>3. IsKept(NextFile(w), k) /\ \A i \in 1..Len(worker[w].files) : IsKept(worker[w].files[i], k)
      BY <1>0, <2>1, <2>3 DEF ListIsKept
    <3>4. \A i \in 1..Len(worker'[w].files) : IsKept(worker'[w].files[i], k)
      BY <3>2, <3>3
    <3> QED  BY <1>0, <1>d, <2>3, <3>4 DEF ListIsKept, IsKept
  <2> QED  BY <2>2, <2>3
<1>5. CopiesCountFiles'
  <2> SUFFICES ASSUME NEW v \in Workers, NEW k \in Jobs, IsOn(v, k)', Present(k)'
               PROVE  Counting(v)' <= Cardinality(RowsOf(k))
    BY <1>r DEF CopiesCountFiles
  <2>1. IsOn(v, k) /\ Present(k)
    BY <1>o, <1>p
  <2>2. Counting(v)' = Counting(v)
    BY <1>0 DEF Counting
  <2> QED  BY <2>1, <2>2 DEF CopiesCountFiles
<1>6. CountedFilesExist'
  <2> SUFFICES ASSUME NEW k \in Jobs, Present(k)'
               PROVE  row'[k].count <= Cardinality(RowsOf(k))
    BY <1>r DEF CountedFilesExist
  <2>1. CASE k # j
    BY <1>p, <2>1 DEF CountFile, CountedFilesExist, Shape
  <2>2. CASE k = j
    <3>1. IsOn(w, k) /\ Counting(w) = worker[w].local.count + 1
      BY <1>0, <2>2 DEF IsOn, HasRead, Counting
    <3>2. row'[k].count = worker[w].local.count + 1
      BY <1>0, <1>p, <2>2 DEF CountFile, Shape, IsRow
    <3> QED  BY <1>p, <3>1, <3>2 DEF CopiesCountFiles
  <2> QED  BY <2>1, <2>2
<1>7. CompletedAreKept'
  BY <1>0, <1>p DEF CountFile, CompletedAreKept, Completed, IsKept, Present, Shape, IsRow
<1> QED  BY <1>1, <1>2, <1>3, <1>4, <1>5, <1>6, <1>7

\* The list goes into the row.
LEMMA FinalizeKeeps ==
  ASSUME ExportInv, NEW w \in Workers, Finalize(w)
  PROVE  ExportInv'
<1> USE DEF ExportInv, outside
<1> DEFINE j == worker[w].job
<1>0. /\ \A v \in Workers \ {w} : worker'[v] = worker[v]
      /\ worker[w].at = "extract" /\ worker'[w].at = "finished" /\ worker'[w].job = j /\ j \in Jobs
      /\ worker'[w].attempt = worker[w].attempt /\ worker'[w].files = worker[w].files
      /\ worker'[w].local = worker[w].local /\ worker'[w].source = worker[w].source
  BY DEF Finalize, Shape, IsAttempt, HasRead, IsRow
<1>o. \A v \in Workers, k \in Jobs : IsOn(v, k)' => IsOn(v, k)
  BY <1>0 DEF IsOn, HasRead
<1>p. \A k \in Jobs : Present(k)' => Present(k)
  BY <1>0 DEF Finalize, Shape, Present
<1>d. UNCHANGED <<fileRows, disk, removed>>
  BY DEF Finalize
<1>r. \A k : RowsOf(k)' = RowsOf(k)
  BY DEF Finalize, RowsOf
<1>1. Shape'
  BY DEF Finalize, Shape, IsAttempt, HasRead, IsRow, Present
<1>2. NotBeforeCommit'
  BY <1>0, <1>o, <1>p DEF Finalize, NotBeforeCommit
<1>3. AttemptsAreApart'
  <2> SUFFICES ASSUME NEW v \in Workers, NEW k \in Jobs, IsOn(v, k)'
               PROVE  /\ worker'[v].attempt <= attempts[k]
                      /\ \A f \in fileRows :
                           f.job = k /\ f.attempt = worker'[v].attempt => RecordedSoFar(v, f)'
                      /\ \A u \in Workers \ {v} :
                           IsOn(u, k)' => worker'[u].attempt # worker'[v].attempt
    BY <1>0 DEF Finalize, AttemptsAreApart
  <2>1. \A u \in Workers : worker'[u].attempt = worker[u].attempt
    BY <1>0
  <2>2. ASSUME NEW f \in fileRows, RecordedSoFar(v, f)
        PROVE  RecordedSoFar(v, f)'
    <3>1. f.index \in Nat /\ worker[v].source \in Nat
      BY DEF Shape, IsAttempt, AnyFile
    <3> QED  BY <1>0, <2>2, <3>1 DEF RecordedSoFar
  <2> QED  BY <1>o, <2>1, <2>2 DEF AttemptsAreApart
<1>4. ListedFilesAreKept'
  <2> SUFFICES ASSUME NEW v \in Workers, NEW k \in Jobs, IsOn(v, k)', Present(k)'
               PROVE  ListIsKept(v, k)'
    BY DEF ListedFilesAreKept
  <2>1. ListIsKept(v, k)
    BY <1>o, <1>p DEF ListedFilesAreKept
  <2>2. CASE v # w
    BY <1>0, <1>d, <2>1, <2>2 DEF ListIsKept, NextFile, IsKept
  <2>3. CASE v = w
    BY <1>0, <1>d, <2>1, <2>3 DEF ListIsKept, NextFile, IsKept
  <2> QED  BY <2>2, <2>3
<1>5. CopiesCountFiles'
  <2> SUFFICES ASSUME NEW v \in Workers, NEW k \in Jobs, IsOn(v, k)', Present(k)'
               PROVE  Counting(v)' <= Cardinality(RowsOf(k))
    BY <1>r DEF CopiesCountFiles
  <2>1. IsOn(v, k) /\ Present(k)
    BY <1>o, <1>p
  <2>2. Counting(v)' = Counting(v)
    BY <1>0 DEF Counting
  <2> QED  BY <2>1, <2>2 DEF CopiesCountFiles
<1>6. CountedFilesExist'
  BY <1>0, <1>r, <1>p DEF Finalize, CountedFilesExist, Shape, IsRow
<1>7. CompletedAreKept'
  <2> SUFFICES ASSUME NEW k \in Jobs, Completed(k)'
               PROVE  \A i \in 1..Len(row'[k].files) : IsKept(row'[k].files[i], k)
    BY <1>d DEF CompletedAreKept, IsKept
  <2>1. CASE k # j
    BY <2>1 DEF Finalize, CompletedAreKept, Completed, Present, Shape
  <2>2. CASE k = j
    <3>1. IsOn(w, k) /\ Present(k) /\ row'[k].files = worker[w].files
      BY <1>0, <2>2 DEF Finalize, IsOn, HasRead, Shape, IsRow
    <3> QED  BY <3>1 DEF ListedFilesAreKept, ListIsKept
  <2> QED  BY <2>1, <2>2
<1> QED  BY <1>1, <1>2, <1>3, <1>4, <1>5, <1>6, <1>7

-----------------------------------------------------------------------------
(* The attempt ends, or starts over. *)

\* Whatever ends an attempt: the row says failed at most, and no file is taken away.
LEMMA AttemptStopsKeeps ==
  ASSUME ExportInv,
         NEW w \in Workers, NEW x, IsAttempt(x), ~HasRead(x),
         worker' = [worker EXCEPT ![w] = x],
         row' = row \/ \E j \in Jobs : Present(j) /\ row' = [row EXCEPT ![j].status = "failed"],
         disk \subseteq disk',
         UNCHANGED <<request, fileRows, removed, attempts, deleter>>
  PROVE  ExportInv'
<1> USE DEF ExportInv
<1>o. \A v \in Workers, k \in Jobs : IsOn(v, k)' => IsOn(v, k) /\ worker'[v] = worker[v]
  BY DEF IsOn, Shape
<1>p. /\ DOMAIN row' = Jobs
      /\ \A k \in Jobs : Present(k)' =>
           /\ Present(k) /\ IsRow(row'[k])
           /\ row'[k].count = row[k].count /\ row'[k].files = row[k].files
           /\ row'[k].status \in {row[k].status, "failed"}
  BY DEF Shape, Present, IsRow
<1>r. \A k : RowsOf(k)' = RowsOf(k)
  BY DEF RowsOf
<1>1. Shape'
  BY <1>p DEF Shape
<1>2. NotBeforeCommit'
  BY <1>o, <1>p DEF NotBeforeCommit
<1>3. AttemptsAreApart'
  <2> SUFFICES ASSUME NEW v \in Workers, NEW k \in Jobs, IsOn(v, k)'
               PROVE  /\ worker'[v].attempt <= attempts[k]
                      /\ \A f \in fileRows :
                           f.job = k /\ f.attempt = worker'[v].attempt => RecordedSoFar(v, f)'
                      /\ \A u \in Workers \ {v} :
                           IsOn(u, k)' => worker'[u].attempt # worker'[v].attempt
    BY DEF AttemptsAreApart
  <2>1. \A f : RecordedSoFar(v, f)' <=> RecordedSoFar(v, f)
    BY <1>o DEF RecordedSoFar
  <2> QED  BY <1>o, <2>1 DEF AttemptsAreApart
<1>4. ListedFilesAreKept'
  <2> SUFFICES ASSUME NEW v \in Workers, NEW k \in Jobs, IsOn(v, k)', Present(k)'
               PROVE  ListIsKept(v, k)'
    BY DEF ListedFilesAreKept
  <2>1. ListIsKept(v, k) /\ worker'[v] = worker[v]
    BY <1>o, <1>p DEF ListedFilesAreKept
  <2> QED  BY <2>1 DEF ListIsKept, NextFile, IsKept
<1>5. CopiesCountFiles'
  <2> SUFFICES ASSUME NEW v \in Workers, NEW k \in Jobs, IsOn(v, k)', Present(k)'
               PROVE  Counting(v)' <= Cardinality(RowsOf(k))
    BY <1>r DEF CopiesCountFiles
  <2>1. IsOn(v, k) /\ Present(k) /\ Counting(v)' = Counting(v)
    BY <1>o, <1>p DEF Counting
  <2> QED  BY <2>1 DEF CopiesCountFiles
<1>6. CountedFilesExist'
  BY <1>p, <1>r DEF CountedFilesExist
<1>7. CompletedAreKept'
  <2>1. \A k \in Jobs : Completed(k)' => Completed(k)
    BY <1>p DEF Completed
  <2>2. \A f, k : IsKept(f, k) => IsKept(f, k)'
    BY DEF IsKept
  <2> QED  BY <1>p, <2>1 DEF CompletedAreKept, Completed, IsKept
<1> QED  BY <1>1, <1>2, <1>3, <1>4, <1>5, <1>6, <1>7

-----------------------------------------------------------------------------
(* Requests and deletions. *)

\* The row of a new job is committed; nobody has read it, and it counts nothing.
LEMMA RowAppearsKeeps ==
  ASSUME ExportInv,
         NEW j \in Jobs, request[j] \in {"none", "flushed"},
         NEW x \in {"sending", "done"}, request' = [request EXCEPT ![j] = x],
         row' = [row EXCEPT ![j] = QueuedRow],
         UNCHANGED <<fileRows, disk, removed, attempts, worker, deleter>>
  PROVE  ExportInv'
<1> USE DEF ExportInv
<1>o. \A v \in Workers, k \in Jobs : IsOn(v, k)' => IsOn(v, k) /\ k # j
  BY DEF IsOn, NotBeforeCommit
<1>p. \A k \in Jobs : k # j => row'[k] = row[k] /\ (Present(k)' => Present(k))
  BY DEF Shape, Present
<1>r. \A k : RowsOf(k)' = RowsOf(k)
  BY DEF RowsOf
<1>1. Shape'
  <2>1. IsRow(QueuedRow)
    BY DEF QueuedRow, IsRow
  <2> QED  BY <1>p, <2>1 DEF Shape, Present
<1>2. NotBeforeCommit'
  BY <1>o, <1>p DEF NotBeforeCommit, Shape
<1>3. AttemptsAreApart'
  <2> SUFFICES ASSUME NEW v \in Workers, NEW k \in Jobs, IsOn(v, k)'
               PROVE  /\ worker'[v].attempt <= attempts[k]
                      /\ \A f \in fileRows :
                           f.job = k /\ f.attempt = worker'[v].attempt => RecordedSoFar(v, f)'
                      /\ \A u \in Workers \ {v} :
                           IsOn(u, k)' => worker'[u].attempt # worker'[v].attempt
    BY DEF AttemptsAreApart
  <2>1. \A f : RecordedSoFar(v, f)' <=> RecordedSoFar(v, f)
    BY <1>o DEF RecordedSoFar
  <2> QED  BY <1>o, <2>1 DEF AttemptsAreApart
<1>4. ListedFilesAreKept'
  <2> SUFFICES ASSUME NEW v \in Workers, NEW k \in Jobs, IsOn(v, k)', Present(k)'
               PROVE  ListIsKept(v, k)'
    BY DEF ListedFilesAreKept
  <2>1. ListIsKept(v, k)
    BY <1>o, <1>p DEF ListedFilesAreKept
  <2> QED  BY <2>1 DEF ListIsKept, NextFile, IsKept
<1>5. CopiesCountFiles'
  <2> SUFFICES ASSUME NEW v \in Workers, NEW k \in Jobs, IsOn(v, k)', Present(k)'
               PROVE  Counting(v)' <= Cardinality(RowsOf(k))
    BY <1>r DEF CopiesCountFiles
  <2>1. IsOn(v, k) /\ Present(k) /\ Counting(v)' = Counting(v)
    BY <1>o, <1>p DEF Counting
  <2> QED  BY <2>1 DEF CopiesCountFiles
<1>6. CountedFilesExist'
  <2>1. Cardinality(RowsOf(j)) \in Nat
    <3>1. IsFiniteSet(RowsOf(j))
      BY FS_Subset DEF RowsOf, Shape
    <3> QED  BY <3>1, FS_CardinalityType
  <2>2. row'[j].count = 0
    BY DEF Shape, QueuedRow
  <2> QED  BY <1>p, <1>r, <2>1, <2>2 DEF CountedFilesExist
<1>7. CompletedAreKept'
  BY <1>p DEF CompletedAreKept, Completed, IsKept, Present, Shape, QueuedRow
<1> QED  BY <1>1, <1>2, <1>3, <1>4, <1>5, <1>6, <1>7

\* A step that leaves rows and workers alone, and takes no file away unnoticed.
LEMMA OthersMoveKeeps ==
  ASSUME ExportInv,
         \/ UNCHANGED request
         \/ \E j \in Jobs, x \in {"flushed", "done"} :
              /\ request[j] = "none" \/ x # "flushed"
              /\ request' = [request EXCEPT ![j] = x],
         DOMAIN deleter' = {"at", "job", "files"}, deleter'.at # "idle" => deleter'.job \in Jobs,
         disk \cup removed \subseteq disk' \cup removed',
         UNCHANGED <<row, fileRows, attempts, worker>>
  PROVE  ExportInv'
<1> USE DEF ExportInv
<1>o. \A v \in Workers, k \in Jobs : IsOn(v, k)' => IsOn(v, k)
  BY DEF IsOn
<1>p. \A k \in Jobs : Present(k)' => Present(k)
  BY DEF Present
<1>r. \A k : RowsOf(k)' = RowsOf(k)
  BY DEF RowsOf
<1>1. Shape'
  BY DEF Shape, Present
<1>2. NotBeforeCommit'
  BY <1>o, <1>p DEF NotBeforeCommit, Shape
<1>3. AttemptsAreApart'
  <2> SUFFICES ASSUME NEW v \in Workers, NEW k \in Jobs, IsOn(v, k)'
               PROVE  /\ worker'[v].attempt <= attempts[k]
                      /\ \A f \in fileRows :
                           f.job = k /\ f.attempt = worker'[v].attempt => RecordedSoFar(v, f)'
                      /\ \A u \in Workers \ {v} :
                           IsOn(u, k)' => worker'[u].attempt # worker'[v].attempt
    BY DEF AttemptsAreApart
  <2>1. \A f : RecordedSoFar(v, f)' <=> RecordedSoFar(v, f)
    BY <1>o DEF RecordedSoFar
  <2> QED  BY <1>o, <2>1 DEF AttemptsAreApart
<1>4. ListedFilesAreKept'
  <2> SUFFICES ASSUME NEW v \in Workers, NEW k \in Jobs, IsOn(v, k)', Present(k)'
               PROVE  ListIsKept(v, k)'
    BY DEF ListedFilesAreKept
  <2>1. ListIsKept(v, k)
    BY <1>o, <1>p DEF ListedFilesAreKept
  <2> QED  BY <2>1 DEF ListIsKept, NextFile, IsKept
<1>5. CopiesCountFiles'
  <2> SUFFICES ASSUME NEW v \in Workers, NEW k \in Jobs, IsOn(v, k)', Present(k)'
               PROVE  Counting(v)' <= Cardinality(RowsOf(k))
    BY <1>r DEF CopiesCountFiles
  <2>1. IsOn(v, k) /\ Present(k) /\ Counting(v)' = Counting(v)
    BY <1>o, <1>p DEF Counting
  <2> QED  BY <2>1 DEF CopiesCountFiles
<1>6. CountedFilesExist'
  BY <1>p, <1>r DEF CountedFilesExist
<1>7. CompletedAreKept'
  BY DEF CompletedAreKept, Completed, IsKept, Present
<1> QED  BY <1>1, <1>2, <1>3, <1>4, <1>5, <1>6, <1>7

\* DeleteRows takes the row of a job together with all of its file rows.
LEMMA DeleteRowsKeeps ==
  ASSUME ExportInv, DeleteRows
  PROVE  ExportInv'
<1> USE DEF ExportInv
<1> DEFINE j == deleter.job
<1>d. /\ j \in Jobs /\ row' = [row EXCEPT ![j] = NoRow] /\ fileRows' = {f \in fileRows : f.job # j}
      /\ deleter' = NoDeletion
      /\ UNCHANGED <<request, disk, worker, attempts, removed>>
  BY DEF DeleteRows, RowsOf, Shape
<1>o. \A v \in Workers, k \in Jobs : IsOn(v, k)' => IsOn(v, k)
  BY <1>d DEF IsOn
<1>p. \A k \in Jobs : Present(k)' => Present(k) /\ k # j /\ row'[k] = row[k]
  BY <1>d DEF Present, Shape
<1> HIDE DEF j
<1>r. \A k \in Jobs : Present(k)' => RowsOf(k)' = RowsOf(k)
  BY <1>d, <1>p DEF RowsOf
<1>1. Shape'
  <2>1. fileRows' \subseteq fileRows /\ IsFiniteSet(fileRows')
    BY <1>d, FS_Subset DEF Shape
  <2> QED  BY <1>d, <1>p, <2>1 DEF Shape, NoDeletion
<1>2. NotBeforeCommit'
  BY <1>d, <1>o, <1>p DEF NotBeforeCommit
<1>3. AttemptsAreApart'
  <2> SUFFICES ASSUME NEW v \in Workers, NEW k \in Jobs, IsOn(v, k)'
               PROVE  /\ worker'[v].attempt <= attempts[k]
                      /\ \A f \in fileRows' :
                           f.job = k /\ f.attempt = worker'[v].attempt => RecordedSoFar(v, f)'
                      /\ \A u \in Workers \ {v} :
                           IsOn(u, k)' => worker'[u].attempt # worker'[v].attempt
    BY <1>d DEF AttemptsAreApart
  <2>1. \A f : RecordedSoFar(v, f)' <=> RecordedSoFar(v, f)
    BY <1>d DEF RecordedSoFar
  <2> QED  BY <1>d, <1>o, <2>1 DEF AttemptsAreApart
<1>4. ListedFilesAreKept'
  <2> SUFFICES ASSUME NEW v \in Workers, NEW k \in Jobs, IsOn(v, k)', Present(k)'
               PROVE  ListIsKept(v, k)'
    BY DEF ListedFilesAreKept
  <2>1. ListIsKept(v, k) /\ k # j
    BY <1>o, <1>p DEF ListedFilesAreKept
  <2> QED  BY <1>d, <2>1 DEF ListIsKept, NextFile, IsKept
<1>5. CopiesCountFiles'
  <2> SUFFICES ASSUME NEW v \in Workers, NEW k \in Jobs, IsOn(v, k)', Present(k)'
               PROVE  Counting(v)' <= Cardinality(RowsOf(k))
    BY <1>r DEF CopiesCountFiles
  <2>1. IsOn(v, k) /\ Present(k) /\ Counting(v)' = Counting(v)
    BY <1>d, <1>o, <1>p DEF Counting
  <2> QED  BY <2>1 DEF CopiesCountFiles
<1>6. CountedFilesExist'
  BY <1>p, <1>r DEF CountedFilesExist
<1>7. CompletedAreKept'
  <2> SUFFICES ASSUME NEW k \in Jobs, Completed(k)'
               PROVE  \A i \in 1..Len(row'[k].files) :
                        /\ row'[k].files[i].job = k /\ row'[k].files[i] \in fileRows'
                        /\ row'[k].files[i] \in disk' \cup removed'
    BY DEF CompletedAreKept, IsKept
  <2>1. Completed(k) /\ k # j /\ row'[k] = row[k]
    BY <1>p DEF Completed
  <2> QED  BY <1>d, <2>1 DEF CompletedAreKept, IsKept
<1> QED  BY <1>1, <1>2, <1>3, <1>4, <1>5, <1>6, <1>7

-----------------------------------------------------------------------------
(* Every step. *)

\* At the start there is nothing.
LEMMA InitExportInv == Init => ExportInv
<1> SUFFICES ASSUME Init PROVE ExportInv
  OBVIOUS
<1> USE DEF Init
<1>1. Shape
  <2>0. IsAttempt(Idle)
    BY DEF IsAttempt, HasRead, Idle
  <2>1. \A w \in Workers : IsAttempt(worker[w])
    BY <2>0
  <2>2. \A j \in Jobs : ~Present(j)
    BY DEF Present
  <2>3. DOMAIN deleter = {"at", "job", "files"} /\ deleter.at = "idle"
    BY DEF NoDeletion
  <2> QED  BY <2>1, <2>2, <2>3, FS_EmptySet DEF Shape
<1>2. NotBeforeCommit /\ AttemptsAreApart /\ ListedFilesAreKept /\ CopiesCountFiles
  BY DEF NotBeforeCommit, AttemptsAreApart, ListedFilesAreKept, CopiesCountFiles, IsOn,
         HasRead, Idle, Present
<1>3. CountedFilesExist /\ CompletedAreKept
  BY DEF CountedFilesExist, CompletedAreKept, Completed, Present
<1> QED  BY <1>1, <1>2, <1>3 DEF ExportInv

\* Steps of a worker.
LEMMA WorkerKeeps ==
  ASSUME ExportInv, NEW w \in Workers, Works(w) \/ Breaks(w)
  PROVE  ExportInv'
<1>i. IsAttempt(Idle) /\ ~HasRead(Idle)
  BY DEF IsAttempt, HasRead, Idle
<1>a. worker[w].at # "idle" => worker[w].job \in Jobs
  BY DEF ExportInv, Shape, IsAttempt
<1>1. ASSUME NEW j \in Jobs, NEW r \in 0..MaxRetries, Receive(w, j, r)
      PROVE  ExportInv'
  <2> DEFINE x == [Idle EXCEPT !.at = "received", !.job = j, !.retries = r]
  <2>1. IsAttempt(x) /\ ~HasRead(x)
    BY DEF IsAttempt, HasRead, Idle
  <2> QED  BY <1>1, <2>1, AttemptStopsKeeps DEF Receive, outside
<1>2. CASE Load(w)
  BY <1>2, LoadKeeps
<1>3. CASE Initialize(w)
  BY <1>3, InitializeKeeps
<1>4. CASE SkipEmpty(w)
  BY <1>4, SkipEmptyKeeps
<1>5. CASE WriteFile(w)
  BY <1>5, WriteFileKeeps
<1>6. CASE RecordFile(w)
  BY <1>6, RecordFileKeeps
<1>7. CASE CountFile(w)
  BY <1>7, CountFileKeeps
<1>8. CASE Finalize(w)
  BY <1>8, FinalizeKeeps
<1>9. CASE Acknowledge(w)
  BY <1>9, <1>i, AttemptStopsKeeps DEF Acknowledge, outside
<1>s. (RunAgain(w) \/ Retry(w)) /\ worker[w].at # "idle" =>
        \E x : IsAttempt(x) /\ ~HasRead(x) /\ worker' = [worker EXCEPT ![w] = x]
  <2>1. CASE RunAgain(w) /\ worker[w].at # "idle"
    <3> DEFINE x == [Idle EXCEPT !.at = "received", !.job = worker[w].job,
                                 !.retries = worker[w].retries, !.again = TRUE]
    <3>1. IsAttempt(x) /\ ~HasRead(x)
      BY <1>a, <2>1 DEF IsAttempt, HasRead, Idle
    <3> QED  BY <2>1, <3>1 DEF RunAgain
  <2>2. CASE Retry(w)
    BY <1>i, <2>2 DEF Retry
  <2> QED  BY <2>1, <2>2
<1>10. CASE DatabaseFails(w)
  BY <1>10, <1>s, AttemptStopsKeeps DEF DatabaseFails, outside
<1>11. CASE WriteFails(w)
  BY <1>11, <1>a, <1>s, AttemptStopsKeeps DEF WriteFails, outside
<1>12. CASE WorkerDies(w)
  BY <1>12, <1>i, AttemptStopsKeeps DEF WorkerDies, outside
<1>13. CASE TimeLimit(w)
  BY <1>13, <1>i, AttemptStopsKeeps DEF TimeLimit, outside
<1>14. CASE Redeliver(w)
  BY <1>14, OthersMoveKeeps DEF Redeliver, outside, ExportInv, Shape
<1> QED  BY <1>1, <1>2, <1>3, <1>4, <1>5, <1>6, <1>7, <1>8, <1>9, <1>10, <1>11, <1>12, <1>13,
            <1>14 DEF Works, Breaks

\* Steps of requests and deletions.
LEMMA RequestKeeps ==
  ASSUME ExportInv, (\E j \in Jobs : Creates(j) \/ Requests(j)) \/ Deletes
  PROVE  ExportInv'
<1>d. DOMAIN deleter = {"at", "job", "files"} /\ (deleter.at # "idle" => deleter.job \in Jobs)
  BY DEF ExportInv, Shape
<1>1. ASSUME NEW j \in Jobs, CreateJob(j)
      PROVE  ExportInv'
  BY <1>1, RowAppearsKeeps DEF CreateJob
<1>2. ASSUME NEW j \in Jobs, SendTask(j) \/ SendFails(j)
      PROVE  ExportInv'
  BY <1>2, <1>d, OthersMoveKeeps DEF SendTask, SendFails
<1>3. ASSUME NEW j \in Jobs, BulkSend(j)
      PROVE  ExportInv'
  BY <1>3, <1>d, OthersMoveKeeps DEF BulkSend
<1>4. ASSUME NEW j \in Jobs, BulkEnd(j)
      PROVE  ExportInv'
  <2>1. CASE row' = row
    BY <1>4, <1>d, <2>1, OthersMoveKeeps DEF BulkEnd
  <2>2. CASE row' = [row EXCEPT ![j] = QueuedRow]
    BY <1>4, <2>2, RowAppearsKeeps DEF BulkEnd
  <2> QED  BY <1>4, <2>1, <2>2 DEF BulkEnd
<1>5. ASSUME NEW j \in Jobs, DeleteRead(j)
      PROVE  ExportInv'
  BY <1>5, OthersMoveKeeps DEF DeleteRead
<1>6. CASE DeleteFiles
  BY <1>6, <1>d, OthersMoveKeeps DEF DeleteFiles
<1>7. CASE DeleteRows
  BY <1>7, DeleteRowsKeeps
<1>8. CASE DeleteFails
  BY <1>8, OthersMoveKeeps DEF DeleteFails, NoDeletion
<1> QED  BY <1>1, <1>2, <1>3, <1>4, <1>5, <1>6, <1>7, <1>8 DEF Creates, Requests, Deletes

\* All steps.
LEMMA StepKeepsExportInv == ExportInv /\ [Next]_vars => ExportInv'
<1> SUFFICES ASSUME ExportInv, [Next]_vars PROVE ExportInv'
  OBVIOUS
<1>1. CASE UNCHANGED vars
  BY <1>1, OthersMoveKeeps DEF vars, ExportInv, Shape
<1> QED  BY <1>1, WorkerKeeps, RequestKeeps DEF Next

\* ExportProcessor.process_export and the deletion of exports: a completed export
\* lists only files that have their rows and have not been lost, however many
\* attempts were made, overlapped, failed or were killed.
THEOREM CompletedStaysWhole == Spec => []CompletedHasItsFiles
<1>1. ExportInv => CompletedHasItsFiles
  BY DEF ExportInv, CompletedAreKept, CompletedHasItsFiles, IsKept
<1> QED  BY <1>1, InitExportInv, StepKeepsExportInv, PTL DEF Spec

\* ExportProcessor._process_data_source: files_created never counts a file that has no row.
THEOREM CountedFilesAlwaysExist == Spec => []CountedFilesExist
<1>1. ExportInv => CountedFilesExist
  BY DEF ExportInv
<1> QED  BY <1>1, InitExportInv, StepKeepsExportInv, PTL DEF Spec

-----------------------------------------------------------------------------
(* The numbers of the files. *)

\* While every source so far had rows, the i-th listed file is that of the i-th
\* source.
IndexedSoFar(x) ==
  /\ x.source \in 1..(Sources + 1)
  /\ x.at \in {"written", "recorded"} => x.source <= Sources
  /\ Len(x.files) < x.source
  /\ Len(x.files) + 1 = x.source => \A i \in 1..Len(x.files) : x.files[i].index = i
  /\ HasRead(x) => x.attempt >= 1

\* A completed job with as many files as sources lists them in order.
CompletedAreIndexed ==
  \A j \in Jobs : Completed(j) /\ Len(row[j].files) = Sources =>
    \A i \in 1..Sources : row[j].files[i].index = i

\* The inductive invariant, beside ExportInv.
IndexInv ==
  /\ \A w \in Workers : IndexedSoFar(worker[w])
  /\ \A f \in fileRows : f.attempt >= 1
  /\ CompletedAreIndexed

\* An attempt that is given up or made again forgets its files.
LEMMA GivenUpForgets ==
  ASSUME DOMAIN worker = Workers, NEW w \in Workers,
         RunAgain(w) \/ Retry(w) \/ worker' = [worker EXCEPT ![w] = Idle]
  PROVE  /\ \A v \in Workers \ {w} : worker'[v] = worker[v]
         /\ worker'[w].files = <<>> /\ worker'[w].source = 1 /\ ~HasRead(worker'[w])
<1>1. CASE RunAgain(w)
  BY <1>1 DEF RunAgain, Idle, HasRead
<1>2. CASE worker' = [worker EXCEPT ![w] = Idle]
  BY <1>2 DEF Idle, HasRead
<1> QED  BY <1>1, <1>2 DEF Retry

\* The steps of an attempt.
LEMMA WorksKeepIndices ==
  ASSUME ExportInv, IndexInv, NEW w \in Workers, Works(w)
  PROVE  \A v \in Workers : IndexedSoFar(worker'[v])
<1>0. /\ DOMAIN worker = Workers /\ IsAttempt(worker[w]) /\ IndexedSoFar(worker[w])
      /\ \A v \in Workers : IndexedSoFar(worker[v])
      /\ \A j \in Jobs : attempts[j] \in Nat
  BY DEF ExportInv, Shape, IndexInv
<1>1. SUFFICES \/ worker' = worker
               \/ /\ \A v \in Workers \ {w} : worker'[v] = worker[v]
                  /\ IndexedSoFar(worker'[w])
  BY <1>0
<1>2. ASSUME worker'[w].files = <<>>, worker'[w].source = 1, ~HasRead(worker'[w])
      PROVE  IndexedSoFar(worker'[w])
  BY <1>2, SourcesAssumption DEF IndexedSoFar, HasRead
<1>3. ASSUME NEW j \in Jobs, NEW r \in 0..MaxRetries, Receive(w, j, r)
      PROVE  /\ \A v \in Workers \ {w} : worker'[v] = worker[v]
             /\ IndexedSoFar(worker'[w])
  BY <1>0, <1>2, <1>3 DEF Receive, Idle, HasRead
<1>4. CASE Load(w)
  <2>1. /\ \A v \in Workers \ {w} : worker'[v] = worker[v]
        /\ worker'[w].files = worker[w].files /\ worker'[w].source = worker[w].source
        /\ worker'[w].at = "loaded" /\ worker'[w].attempt >= 1
    BY <1>0, <1>4 DEF Load, IsAttempt
  <2> QED  BY <1>0, <2>1 DEF IndexedSoFar
<1>5. CASE Initialize(w) \/ Finalize(w)
  <2>1. /\ \A v \in Workers \ {w} : worker'[v] = worker[v]
        /\ worker'[w].files = worker[w].files /\ worker'[w].source = worker[w].source
        /\ worker'[w].attempt = worker[w].attempt
        /\ worker'[w].at \in {"extract", "finished"} /\ HasRead(worker[w])
    BY <1>0, <1>5 DEF Initialize, Finalize, IsAttempt, HasRead
  <2> QED  BY <1>0, <2>1 DEF IndexedSoFar
<1>6. CASE SkipEmpty(w)
  <2>1. /\ \A v \in Workers \ {w} : worker'[v] = worker[v]
        /\ worker'[w].files = worker[w].files /\ worker'[w].source = worker[w].source + 1
        /\ worker'[w].attempt = worker[w].attempt /\ worker[w].source <= Sources
        /\ worker'[w].at = "extract" /\ worker[w].at = "extract"
    BY <1>0, <1>6 DEF SkipEmpty, IsAttempt
  <2>2. Len(worker[w].files) \in Nat
    BY <1>0 DEF IsAttempt
  <2> QED  BY <1>0, <2>1, <2>2, SourcesAssumption DEF IndexedSoFar, HasRead
<1>7. CASE WriteFile(w)
  <2>1. /\ \A v \in Workers \ {w} : worker'[v] = worker[v]
        /\ worker'[w].files = worker[w].files /\ worker'[w].source = worker[w].source
        /\ worker'[w].attempt = worker[w].attempt /\ worker[w].source <= Sources
        /\ worker'[w].at = "written" /\ worker[w].at = "extract"
    BY <1>0, <1>7 DEF WriteFile, IsAttempt
  <2> QED  BY <1>0, <2>1 DEF IndexedSoFar, HasRead
<1>8. CASE RecordFile(w)
  <2>1. /\ \A v \in Workers \ {w} : worker'[v] = worker[v]
        /\ worker'[w].files = worker[w].files /\ worker'[w].source = worker[w].source
        /\ worker'[w].attempt = worker[w].attempt
        /\ worker'[w].at = "recorded" /\ worker[w].at = "written"
    BY <1>0, <1>8 DEF RecordFile, IsAttempt
  <2> QED  BY <1>0, <2>1 DEF IndexedSoFar, HasRead
<1>9. CASE CountFile(w)
  <2>1. /\ \A v \in Workers \ {w} : worker'[v] = worker[v]
        /\ worker'[w].files = Append(worker[w].files, NextFile(w))
        /\ worker'[w].source = worker[w].source + 1
        /\ worker'[w].attempt = worker[w].attempt
        /\ worker'[w].at = "extract" /\ worker[w].at = "recorded"
    BY <1>0, <1>9 DEF CountFile, IsAttempt
  <2>2. worker[w].files \in Seq(AnyFile) /\ NextFile(w).index = worker[w].source
    BY <1>0 DEF IsAttempt, NextFile
  <2>3. /\ Len(worker'[w].files) = Len(worker[w].files) + 1 /\ Len(worker[w].files) \in Nat
        /\ \A i \in 1..Len(worker[w].files) : worker'[w].files[i] = worker[w].files[i]
        /\ worker'[w].files[Len(worker[w].files) + 1] = NextFile(w)
    BY <2>1, <2>2
  <2> QED  BY <1>0, <2>1, <2>2, <2>3, SourcesAssumption DEF IndexedSoFar, HasRead
<1>10. CASE Acknowledge(w)
  BY <1>0, <1>2, <1>10 DEF Acknowledge, Idle, HasRead
<1>11. CASE DatabaseFails(w)
  BY <1>0, <1>2, <1>11, GivenUpForgets DEF DatabaseFails
<1> QED  BY <1>3, <1>4, <1>5, <1>6, <1>7, <1>8, <1>9, <1>10, <1>11 DEF Works

\* All steps.
LEMMA StepKeepsIndexInv ==
  ASSUME ExportInv, IndexInv, [Next]_vars
  PROVE  IndexInv'
<1>1. \A v \in Workers : IndexedSoFar(worker'[v])
  <2>1. DOMAIN worker = Workers /\ \A v \in Workers : IndexedSoFar(worker[v])
    BY DEF ExportInv, Shape, IndexInv
  <2>2. ASSUME NEW w \in Workers, Breaks(w)
        PROVE  \A v \in Workers : IndexedSoFar(worker'[v])
    <3>1. \/ worker' = worker
          \/ /\ \A v \in Workers \ {w} : worker'[v] = worker[v]
             /\ worker'[w].files = <<>> /\ worker'[w].source = 1 /\ ~HasRead(worker'[w])
      BY <2>1, <2>2, GivenUpForgets DEF Breaks, WriteFails, WorkerDies, TimeLimit, Redeliver
    <3> QED  BY <2>1, <3>1, SourcesAssumption DEF IndexedSoFar, HasRead
  <2>3. CASE \E j \in Jobs : Creates(j) \/ Requests(j)
    BY <2>1, <2>3 DEF Creates, Requests, CreateJob, SendTask, SendFails, BulkSend, BulkEnd
  <2>4. CASE Deletes
    BY <2>1, <2>4 DEF Deletes, DeleteRead, DeleteFiles, DeleteRows, DeleteFails
  <2> QED  BY <2>1, <2>2, <2>3, <2>4, WorksKeepIndices DEF Next, vars
<1>2. \A f \in fileRows' : f.attempt >= 1
  <2>1. fileRows' \subseteq fileRows
          \/ \E w \in Workers : RecordFile(w) /\ fileRows' = fileRows \cup {NextFile(w)}
    BY DEF Next, vars, Works, Breaks, Creates, Requests, Deletes, Receive, Load, Initialize,
           SkipEmpty, WriteFile, RecordFile, CountFile, Finalize, Acknowledge, DatabaseFails,
           WriteFails, WorkerDies, TimeLimit, Redeliver, CreateJob, SendTask, SendFails, BulkSend,
           BulkEnd, DeleteRead, DeleteFiles, DeleteRows, DeleteFails
  <2>2. \A w \in Workers : RecordFile(w) => NextFile(w).attempt >= 1
    BY DEF IndexInv, RecordFile, NextFile, IndexedSoFar, HasRead
  <2> QED  BY <2>1, <2>2 DEF IndexInv
<1>3. CompletedAreIndexed'
  <2>1. DOMAIN row = Jobs /\ \A j \in Jobs : Present(j) => IsRow(row[j])
    BY DEF ExportInv, Shape
  <2>2. ASSUME NEW j \in Jobs, NEW w \in Workers, Finalize(w), j = worker[w].job,
               Len(row'[j].files) = Sources
        PROVE  \A i \in 1..Sources : row'[j].files[i].index = i
    <3>1. row'[j].files = worker[w].files /\ worker[w].source > Sources
      BY <2>1, <2>2 DEF Finalize, IsRow
    <3> QED  BY <2>2, <3>1, SourcesAssumption DEF IndexInv, IndexedSoFar
  <2>3. \A j \in Jobs : Completed(j)' =>
          \/ Completed(j) /\ row'[j].files = row[j].files
          \/ \E w \in Workers : Finalize(w) /\ j = worker[w].job
    <3>1. ASSUME NEW w \in Workers, Works(w) \/ Breaks(w), ~Finalize(w), NEW j \in Jobs,
                 Completed(j)'
          PROVE  Completed(j) /\ row'[j].files = row[j].files
      <4> USE <2>1, <3>1 DEF Completed, Present, IsRow
      <4>1. CASE Initialize(w)
        BY <4>1 DEF Initialize
      <4>2. CASE CountFile(w)
        BY <4>2 DEF CountFile
      <4>3. CASE WriteFails(w)
        BY <4>3 DEF WriteFails
      <4>4. CASE row' = row
        BY <4>4
      <4> QED  BY <4>1, <4>2, <4>3, <4>4
               DEF Works, Breaks, Receive, Load, SkipEmpty, WriteFile, RecordFile, Acknowledge,
                   DatabaseFails, WorkerDies, TimeLimit, Redeliver
    <3>2. ASSUME NEW w \in Workers, Finalize(w), NEW j \in Jobs, Completed(j)', j # worker[w].job
          PROVE  Completed(j) /\ row'[j].files = row[j].files
      BY <2>1, <3>2 DEF Finalize, Completed, Present
    <3>3. ASSUME (\E k \in Jobs : Creates(k) \/ Requests(k)) \/ Deletes, NEW j \in Jobs,
                 Completed(j)'
          PROVE  Completed(j) /\ row'[j].files = row[j].files
      <4> USE <2>1, <3>3 DEF Completed, Present, QueuedRow
      <4>1. CASE \E k \in Jobs : Creates(k) \/ Requests(k)
        BY <4>1 DEF Creates, Requests, CreateJob, SendTask, SendFails, BulkSend, BulkEnd
      <4>2. CASE Deletes
        BY <4>2 DEF Deletes, DeleteRead, DeleteFiles, DeleteRows, DeleteFails
      <4> QED  BY <4>1, <4>2
    <3>4. ASSUME UNCHANGED vars, NEW j \in Jobs, Completed(j)'
          PROVE  Completed(j) /\ row'[j].files = row[j].files
      BY <3>4 DEF vars, Completed, Present
    <3> QED  BY <3>1, <3>2, <3>3, <3>4 DEF Next
  <2> QED  BY <2>2, <2>3 DEF IndexInv, CompletedAreIndexed
<1> QED  BY <1>1, <1>2, <1>3 DEF IndexInv

\* At the start there are no files.
LEMMA InitIndexInv == Init => IndexInv
  BY SourcesAssumption DEF Init, IndexInv, IndexedSoFar, CompletedAreIndexed, Completed, Present,
                           HasRead, Idle

\* export_routes.download_export: the link of the i-th file of a job that needed
\* one attempt and has rows in every source finds that file and no other.
THEOREM OneAttemptIsEnough == Spec => []OneAttemptDownloads
<1>1. ExportInv /\ IndexInv => OneAttemptDownloads
  <2> SUFFICES ASSUME ExportInv, IndexInv, NEW j \in Jobs, Completed(j), attempts[j] = 1,
                      Len(row[j].files) = Sources, NEW i \in 1..Sources
               PROVE  {f \in RowsOf(j) : f.index = i} = {row[j].files[i]}
    BY DEF OneAttemptDownloads
  <2>1. /\ row[j].files[i] \in RowsOf(j)
        /\ row[j].files[i].index = i
    BY DEF ExportInv, IndexInv, CompletedAreKept, CompletedAreIndexed, IsKept, RowsOf
  <2>2. \A f \in RowsOf(j) : f \in AnyFile /\ f.job = j /\ f.attempt = 1
    BY DEF ExportInv, IndexInv, Shape, AttemptsAreApart, RowsOf, AnyFile
  <2>3. \A f \in RowsOf(j) : f.index = i => f = row[j].files[i]
    BY <2>1, <2>2 DEF AnyFile
  <2> QED  BY <2>1, <2>3
<1>2. ExportInv /\ IndexInv /\ [Next]_vars => IndexInv'
  BY StepKeepsIndexInv
<1>3. Spec => []ExportInv
  BY InitExportInv, StepKeepsExportInv, PTL DEF Spec
<1> QED  BY <1>1, <1>2, <1>3, InitIndexInv, PTL DEF Spec

-----------------------------------------------------------------------------
(* A message is in one place at a time. *)

\* For every job and number of retries, how many messages there are.
AreCounts(m) ==
  /\ DOMAIN m = Jobs
  /\ \A j \in Jobs : DOMAIN m[j] = 0..MaxRetries /\ \A r \in 0..MaxRetries : m[j][r] \in Nat

\* A message of the job j waits; the worker w has one.
HasMessage(j) == \E r \in 0..MaxRetries : messages[j][r] > 0
IsAtWork(w, j) == worker[w].at # "idle" /\ worker[w].job = j

\* The message of the job j waits or is with one worker, and is never there before
\* the task is sent, or after the job is completed.
OnePlace(j) ==
  /\ \A r, q \in 0..MaxRetries : messages[j][r] > 0 /\ messages[j][q] > 0 => r = q
  /\ \A r \in 0..MaxRetries : messages[j][r] <= 1
  /\ \A w, v \in Workers : IsAtWork(w, j) /\ IsAtWork(v, j) => v = w
  /\ \A w \in Workers : IsAtWork(w, j) => ~HasMessage(j)
  /\ request[j] \in {"none", "sending"} => ~HasMessage(j) /\ \A w \in Workers : ~IsAtWork(w, j)
  /\ Completed(j) =>
       /\ request[j] # "sending" /\ ~HasMessage(j)
       /\ \A w \in Workers : IsAtWork(w, j) => worker[w].at = "finished"

\* The inductive invariant, beside ExportInv.
CalmInv ==
  /\ AreCounts(messages)
  /\ calm => \A j \in Jobs : OnePlace(j)

\* Steps that send no message and take none.
LEMMA OnePlaceStays ==
  ASSUME NEW j, OnePlace(j), messages'[j] = messages[j],
         request'[j] \in {"none", "sending"} => request[j] \in {"none", "sending"},
         Completed(j)' => Completed(j) /\ request'[j] # "sending",
         \A w \in Workers : IsAtWork(w, j)' =>
           IsAtWork(w, j) /\ (worker[w].at = "finished" => worker'[w].at = "finished")
  PROVE  OnePlace(j)'
<1>1. HasMessage(j)' => HasMessage(j)
  BY DEF HasMessage
<1>2. \A r, q \in 0..MaxRetries : messages'[j][r] > 0 /\ messages'[j][q] > 0 => r = q
  BY DEF OnePlace
<1>3. \A w, v \in Workers : IsAtWork(w, j)' /\ IsAtWork(v, j)' => v = w
  BY DEF OnePlace
<1>4. \A w \in Workers : IsAtWork(w, j)' => ~HasMessage(j)'
  BY <1>1 DEF OnePlace
<1>5. request'[j] \in {"none", "sending"} =>
        ~HasMessage(j)' /\ \A w \in Workers : ~IsAtWork(w, j)'
  BY <1>1 DEF OnePlace
<1>6. Completed(j)' =>
        /\ request'[j] # "sending" /\ ~HasMessage(j)'
        /\ \A w \in Workers : IsAtWork(w, j)' => worker'[w].at = "finished"
  BY <1>1 DEF OnePlace
<1>7. \A r \in 0..MaxRetries : messages'[j][r] <= 1
  BY DEF OnePlace
<1> QED  BY <1>2, <1>3, <1>4, <1>5, <1>6, <1>7 DEF OnePlace

\* The only message of a job that nobody works on is sent.
LEMMA OnePlaceSent ==
  ASSUME NEW j \in Jobs, NEW r, AreCounts(messages),
         ~HasMessage(j), Enqueue(j, r), \A w \in Workers : ~IsAtWork(w, j)',
         request'[j] \notin {"none", "sending"}, ~Completed(j)'
  PROVE  OnePlace(j)'
<1>1. \A q \in 0..MaxRetries : messages[j][q] = 0
  BY DEF HasMessage, AreCounts
<1>2. \A q \in 0..MaxRetries : messages'[j][q] = IF q = r THEN 1 ELSE 0
  <2>1. \A q \in 0..MaxRetries : q # r => messages'[j][q] = messages[j][q]
    BY DEF Enqueue, AreCounts
  <2>2. r \in 0..MaxRetries => messages'[j][r] = messages[j][r] + 1
    BY DEF Enqueue, AreCounts
  <2> QED  BY <1>1, <2>1, <2>2
<1> QED  BY <1>2 DEF OnePlace

\* Nothing waits and one worker at most has the message.
LEMMA OnePlaceTaken ==
  ASSUME NEW j \in Jobs, NEW w \in Workers, \A q \in 0..MaxRetries : messages'[j][q] = 0,
         \A v \in Workers : IsAtWork(v, j)' => v = w,
         request'[j] \notin {"none", "sending"},
         Completed(j)' => worker'[w].at = "finished"
  PROVE  OnePlace(j)'
<1>1. ~HasMessage(j)'
  BY DEF HasMessage
<1> QED  BY <1>1 DEF OnePlace

\* Messages are counted.
LEMMA MessagesAreCounted ==
  ASSUME CalmInv, [Next]_vars
  PROVE  AreCounts(messages')
<1> USE DEF CalmInv
<1>1. ASSUME NEW j, NEW r, Enqueue(j, r)
      PROVE  AreCounts(messages')
  BY <1>1 DEF Enqueue, AreCounts
<1>2. ASSUME NEW w, NEW j \in Jobs, NEW r \in 0..MaxRetries, Receive(w, j, r)
      PROVE  AreCounts(messages')
  BY <1>2 DEF Receive, AreCounts
<1>3. CASE messages' = messages
  BY <1>3
<1>4. \/ messages' = messages \/ \E j, r : Enqueue(j, r)
      \/ \E w, j, r : j \in Jobs /\ r \in 0..MaxRetries /\ Receive(w, j, r)
  BY DEF Next, vars, Works, Breaks, Creates, Requests, Deletes, Load, Initialize,
         SkipEmpty, WriteFile, RecordFile, CountFile, Finalize, Acknowledge, DatabaseFails, Retry,
         RunAgain, WriteFails, WorkerDies, TimeLimit, Redeliver, CreateJob, SendTask, SendFails,
         BulkSend, BulkEnd, DeleteRead, DeleteFiles, DeleteRows, DeleteFails
<1> QED  BY <1>1, <1>2, <1>3, <1>4

\* The steps of an attempt.
LEMMA WorksKeepOnePlace ==
  ASSUME ExportInv, CalmInv, calm', NEW w \in Workers, Works(w) \/ Breaks(w), NEW k \in Jobs
  PROVE  /\ OnePlace(k)'
         /\ calm /\ Completed(k) => row'[k] = row[k]
<1> DEFINE j == worker[w].job
<1>0. /\ DOMAIN worker = Workers /\ IsAttempt(worker[w]) /\ calm
      /\ DOMAIN row = Jobs /\ \A i \in Jobs : Present(i) => IsRow(row[i])
      /\ \A i \in Jobs : OnePlace(i)
      /\ AreCounts(messages)
  <2>1. calm
    BY DEF Works, Breaks, Receive, Load, Initialize, SkipEmpty, WriteFile, RecordFile, CountFile,
           Finalize, Acknowledge, DatabaseFails, WriteFails, WorkerDies, TimeLimit, Redeliver
  <2> QED  BY <2>1 DEF ExportInv, Shape, CalmInv
<1>1. ASSUME NEW i \in Jobs, NEW r \in 0..MaxRetries, Receive(w, i, r)
      PROVE  OnePlace(k)' /\ row' = row
  <2>1. /\ row' = row /\ request' = request
        /\ worker[w].at = "idle" /\ \A v \in Workers \ {w} : worker'[v] = worker[v]
        /\ worker'[w].at = "received" /\ worker'[w].job = i
        /\ messages[i][r] > 0
    BY <1>0, <1>1 DEF Receive, outside, Idle
  <2>2. \A n \in Jobs : Completed(n)' => Completed(n)
    BY <2>1 DEF Completed, Present
  <2>3. HasMessage(i)
    BY <2>1 DEF HasMessage
  <2>4. CASE k # i
    <3>1. messages'[k] = messages[k]
      BY <1>0, <1>1, <2>4 DEF Receive, AreCounts
    <3>2. \A v \in Workers : IsAtWork(v, k)' => IsAtWork(v, k) /\ worker'[v] = worker[v]
      BY <2>1, <2>4 DEF IsAtWork
    <3>3. Completed(k)' => Completed(k) /\ request'[k] # "sending"
      BY <1>0, <2>1, <2>2 DEF OnePlace
    <3> QED  BY <1>0, <2>1, <3>1, <3>2, <3>3, OnePlaceStays
  <2>5. CASE k = i
    <3>1. \A q \in 0..MaxRetries : messages'[i][q] = 0
      <4>1. \A q \in 0..MaxRetries : messages[i][q] = IF q = r THEN 1 ELSE 0
        BY <1>0, <2>1 DEF OnePlace, AreCounts
      <4>2. /\ \A q \in 0..MaxRetries : q # r => messages'[i][q] = messages[i][q]
            /\ messages'[i][r] = messages[i][r] - 1
        BY <1>0, <1>1 DEF Receive, AreCounts
      <4> QED  BY <4>1, <4>2
    <3>3. \A v \in Workers : IsAtWork(v, i)' => v = w
      BY <1>0, <2>1, <2>3 DEF IsAtWork, OnePlace
    <3>4. request'[i] \notin {"none", "sending"} /\ ~Completed(i)'
      BY <1>0, <2>1, <2>2, <2>3 DEF OnePlace
    <3>5. OnePlace(i)'
      BY <3>1, <3>3, <3>4, OnePlaceTaken
    <3> QED  BY <2>1, <2>5, <3>5
  <2> QED  BY <2>1, <2>4, <2>5
<1>3. ASSUME worker[w].at # "idle", messages' = messages, request' = request,
             Completed(k)' => Completed(k),
             \A v \in Workers \ {w} : worker'[v] = worker[v],
             IsAtWork(w, k)' => IsAtWork(w, k) /\ worker[w].at # "finished"
      PROVE  OnePlace(k)'
  <2>1. \A v \in Workers : IsAtWork(v, k)' =>
          IsAtWork(v, k) /\ (worker[v].at = "finished" => worker'[v].at = "finished")
    BY <1>3 DEF IsAtWork
  <2>2. Completed(k)' => Completed(k) /\ request'[k] # "sending"
    BY <1>0, <1>3 DEF OnePlace
  <2> QED  BY <1>0, <1>3, <2>1, <2>2, OnePlaceStays
<1>4. ASSUME worker[w].at \notin {"idle", "finished"}
      PROVE  ~Completed(j) /\ j \in Jobs
  BY <1>0, <1>4 DEF OnePlace, IsAtWork, IsAttempt
<1>5. CASE Initialize(w) \/ CountFile(w)
  <2>1. /\ \A v \in Workers \ {w} : worker'[v] = worker[v]
        /\ messages' = messages /\ request' = request
        /\ worker[w].at \notin {"idle", "finished"}
        /\ worker'[w].job = j
    BY <1>0, <1>5 DEF Initialize, CountFile, outside, IsAttempt
  <2>2. (k # j => row'[k] = row[k]) /\ (Completed(k)' => Completed(k))
    <3>1. Present(j) /\ DOMAIN row[j] = {"status", "count", "files"}
      BY <1>0, <1>4, <2>1, <1>5 DEF Initialize, CountFile, IsRow
    <3>2. /\ k # j => row'[k] = row[k]
          /\ row'[j].status \in {row[j].status, "processing"}
      BY <1>0, <1>4, <1>5, <2>1, <3>1 DEF Initialize, CountFile
    <3> QED  BY <3>1, <3>2 DEF Completed, Present
  <2>3. OnePlace(k)'
    BY <1>3, <2>1, <2>2 DEF IsAtWork
  <2> QED  BY <1>4, <2>1, <2>2, <2>3
<1>6. CASE Load(w) \/ SkipEmpty(w) \/ WriteFile(w) \/ RecordFile(w)
  <2>1. /\ \A v \in Workers \ {w} : worker'[v] = worker[v]
        /\ messages' = messages /\ request' = request /\ row' = row
        /\ worker[w].at \notin {"idle", "finished"}
        /\ worker'[w].job = j
    BY <1>0, <1>6 DEF Load, SkipEmpty, WriteFile, RecordFile, outside, IsAttempt
  <2>2. Completed(k)' => Completed(k)
    BY <2>1 DEF Completed, Present
  <2>3. OnePlace(k)'
    BY <1>3, <2>1, <2>2 DEF IsAtWork
  <2> QED  BY <2>1, <2>3
<1>7. CASE Finalize(w)
  <2>1. /\ \A v \in Workers \ {w} : worker'[v] = worker[v]
        /\ messages' = messages /\ request' = request
        /\ worker[w].at = "extract" /\ worker'[w].at = "finished"
        /\ worker'[w].job = j
        /\ \A n \in Jobs \ {j} : row'[n] = row[n]
    BY <1>0, <1>7 DEF Finalize, outside, IsAttempt
  <2>2. CASE k # j
    <3>1. Completed(k)' => Completed(k)
      BY <2>1, <2>2 DEF Completed, Present
    <3>2. OnePlace(k)'
      BY <1>3, <2>1, <2>2, <3>1 DEF IsAtWork
    <3> QED  BY <2>1, <2>2, <3>2
  <2>3. CASE k = j
    <3>1. IsAtWork(w, k)
      BY <2>1, <2>3 DEF IsAtWork
    <3>2. \A v \in Workers : IsAtWork(v, k)' => v = w
      BY <1>0, <2>1, <3>1 DEF IsAtWork, OnePlace
    <3>3. ~HasMessage(k) /\ request[k] \notin {"none", "sending"}
      BY <1>0, <3>1 DEF OnePlace
    <3>4. \A q \in 0..MaxRetries : messages'[k][q] = 0
      BY <1>0, <2>1, <3>3 DEF HasMessage, AreCounts
    <3>6. OnePlace(k)'
      BY <2>1, <3>2, <3>3, <3>4, OnePlaceTaken
    <3> QED  BY <1>4, <2>1, <2>3, <3>6
  <2> QED  BY <2>2, <2>3
<1>8. CASE Acknowledge(w) \/ TimeLimit(w)
  <2>1. /\ \A v \in Workers \ {w} : worker'[v] = worker[v]
        /\ messages' = messages /\ request' = request /\ row' = row
        /\ worker[w].at # "idle" /\ worker'[w].at = "idle"
    BY <1>0, <1>8 DEF Acknowledge, TimeLimit, outside, Idle
  <2>2. Completed(k)' => Completed(k)
    BY <2>1 DEF Completed, Present
  <2>3. OnePlace(k)'
    BY <1>3, <2>1, <2>2 DEF IsAtWork
  <2> QED  BY <2>1, <2>3
<1>9. CASE DatabaseFails(w) \/ WriteFails(w)
  <2>1. /\ request' = request /\ worker[w].at \notin {"idle", "finished"}
        /\ RunAgain(w) \/ Retry(w)
        /\ k # j => row'[k] = row[k]
        /\ Completed(k)' => Completed(k)
    BY <1>0, <1>9 DEF DatabaseFails, WriteFails, outside, Completed, Present, IsRow
  <2>2. ASSUME RunAgain(w)
        PROVE  OnePlace(k)'
    <3>1. /\ \A v \in Workers \ {w} : worker'[v] = worker[v]
          /\ messages' = messages /\ worker'[w].job = j
      BY <1>0, <2>2 DEF RunAgain, Idle
    <3> QED  BY <1>3, <2>1, <3>1 DEF IsAtWork
  <2>3. ASSUME Retry(w)
        PROVE  OnePlace(k)'
    <3>1. /\ \A v \in Workers \ {w} : worker'[v] = worker[v]
          /\ worker'[w].at = "idle"
      BY <1>0, <2>3 DEF Retry, Idle
    <3>2. CASE messages' = messages
      BY <1>3, <2>1, <3>1, <3>2 DEF IsAtWork
    <3>3. ASSUME NEW r, Enqueue(j, r)
          PROVE  OnePlace(k)'
      <4>1. CASE k # j
        <5>1. messages'[k] = messages[k]
          BY <1>0, <3>3, <4>1 DEF Enqueue, AreCounts
        <5>2. \A v \in Workers : IsAtWork(v, k)' => IsAtWork(v, k) /\ worker'[v] = worker[v]
          BY <3>1 DEF IsAtWork
        <5>3. Completed(k)' => Completed(k) /\ request'[k] # "sending"
          BY <1>0, <2>1 DEF OnePlace
        <5> QED  BY <1>0, <2>1, <5>1, <5>2, <5>3, OnePlaceStays
      <4>2. CASE k = j
        <5>1. IsAtWork(w, k)
          BY <2>1, <4>2 DEF IsAtWork
        <5>2. \A v \in Workers : ~IsAtWork(v, k)'
          BY <1>0, <3>1, <5>1 DEF IsAtWork, OnePlace
        <5>3. ~HasMessage(k) /\ request'[k] \notin {"none", "sending"} /\ ~Completed(k)'
          BY <1>0, <1>4, <2>1, <4>2, <5>1 DEF OnePlace
        <5> QED  BY <1>0, <3>3, <4>2, <5>2, <5>3, OnePlaceSent
      <4> QED  BY <4>1, <4>2
    <3> QED  BY <2>3, <3>2, <3>3 DEF Retry
  <2> QED  BY <1>4, <2>1, <2>2, <2>3
<1>10. ~WorkerDies(w) /\ ~Redeliver(w)
  BY DEF WorkerDies, Redeliver
<1> QED  BY <1>1, <1>5, <1>6, <1>7, <1>8, <1>9, <1>10 DEF Works, Breaks

\* Requests and deletions.
LEMMA RequestsKeepOnePlace ==
  ASSUME ExportInv, CalmInv, calm', (\E j \in Jobs : Creates(j) \/ Requests(j)) \/ Deletes,
         NEW k \in Jobs
  PROVE  /\ OnePlace(k)'
         /\ Completed(k) => row'[k] \in {row[k], NoRow}
<1>0. /\ DOMAIN row = Jobs /\ DOMAIN request = Jobs
      /\ AreCounts(messages)
  BY DEF ExportInv, Shape, CalmInv
<1>1. OnePlace(k) /\ worker' = worker
  BY DEF CalmInv, Creates, Requests, Deletes, CreateJob, SendTask, SendFails, BulkSend, BulkEnd,
         DeleteRead, DeleteFiles, DeleteRows, DeleteFails
<1>2. request[k] \in {"none", "flushed"} => ~Completed(k)
  BY DEF ExportInv, NotBeforeCommit, Completed
<1>3. \A w \in Workers : IsAtWork(w, k)' => IsAtWork(w, k) /\ worker'[w] = worker[w]
  BY <1>1 DEF IsAtWork
<1>4. ASSUME NEW j \in Jobs, CreateJob(j) \/ BulkEnd(j)
      PROVE  /\ OnePlace(k)'
             /\ Completed(k) => row'[k] \in {row[k], NoRow}
  <2>1. /\ messages' = messages
        /\ row'[k] = row[k] \/ (k = j /\ row'[k] = QueuedRow)
        /\ request'[k] = request[k] \/ (k = j /\ request'[k] \in {"sending", "done"})
        /\ k = j => request[k] \in {"none", "flushed"}
        /\ request'[k] = "sending" => request[k] \in {"none", "sending"}
    BY <1>0, <1>4 DEF CreateJob, BulkEnd
  <2>2. Completed(k)' => Completed(k) /\ row'[k] = row[k]
    BY <2>1 DEF Completed, Present, QueuedRow
  <2>3. Completed(k) => k # j
    BY <1>2, <2>1
  <2>4. OnePlace(k)'
    <3>1. Completed(k)' => Completed(k) /\ request'[k] # "sending"
      BY <1>1, <2>1, <2>2, <2>3 DEF OnePlace
    <3> QED  BY <1>1, <1>3, <2>1, <3>1, OnePlaceStays
  <2> QED  BY <2>1, <2>3, <2>4
<1>5. ASSUME NEW j \in Jobs, SendFails(j) \/ Deletes
      PROVE  /\ OnePlace(k)'
             /\ Completed(k) => row'[k] \in {row[k], NoRow}
  <2>1. /\ messages' = messages /\ row'[k] \in {row[k], NoRow}
        /\ request'[k] \in {request[k], "done"}
    BY <1>0, <1>5 DEF SendFails, Deletes, DeleteRead, DeleteFiles, DeleteRows, DeleteFails
  <2>2. Completed(k)' => Completed(k) /\ request'[k] # "sending"
    BY <1>1, <2>1 DEF Completed, Present, OnePlace
  <2> QED  BY <1>1, <1>3, <2>1, <2>2, OnePlaceStays
<1>6. ASSUME NEW j \in Jobs, SendTask(j) \/ BulkSend(j)
      PROVE  OnePlace(k)' /\ row' = row
  <2>1. /\ row' = row /\ Enqueue(j, 0)
        /\ request[j] \in {"none", "sending"} /\ request'[j] \in {"flushed", "done"}
        /\ k # j => request'[k] = request[k]
    BY <1>0, <1>6 DEF SendTask, BulkSend
  <2>2. Completed(k)' => Completed(k)
    BY <2>1 DEF Completed, Present
  <2>3. CASE k # j
    <3>1. messages'[k] = messages[k]
      BY <1>0, <2>1, <2>3 DEF Enqueue, AreCounts
    <3>2. Completed(k)' => Completed(k) /\ request'[k] # "sending"
      BY <1>1, <2>1, <2>2, <2>3 DEF OnePlace
    <3> QED  BY <1>1, <1>3, <2>1, <2>3, <3>1, <3>2, OnePlaceStays
  <2>4. CASE k = j
    <3>1. ~HasMessage(k) /\ ~Completed(k)' /\ \A w \in Workers : ~IsAtWork(w, k)'
      BY <1>1, <1>2, <1>3, <2>1, <2>2, <2>4 DEF OnePlace
    <3> QED  BY <1>0, <2>1, <2>4, <3>1, OnePlaceSent
  <2> QED  BY <2>1, <2>3, <2>4
<1> QED  BY <1>4, <1>5, <1>6 DEF Creates, Requests

\* All steps.
LEMMA StepKeepsCalmInv ==
  ASSUME ExportInv, CalmInv, [Next]_vars
  PROVE  /\ CalmInv'
         /\ calm => \A j \in Jobs : Completed(j) => row'[j] \in {row[j], NoRow}
<1>1. calm' => calm
  BY DEF Next, vars, Works, Breaks, Creates, Requests, Deletes, Receive, Load, Initialize,
         SkipEmpty, WriteFile, RecordFile, CountFile, Finalize, Acknowledge, DatabaseFails,
         WriteFails, WorkerDies, TimeLimit, Redeliver, CreateJob, SendTask, SendFails, BulkSend,
         BulkEnd, DeleteRead, DeleteFiles, DeleteRows, DeleteFails
<1>2. ASSUME calm', NEW j \in Jobs
      PROVE  OnePlace(j)' /\ (Completed(j) => row'[j] \in {row[j], NoRow})
  <2>1. CASE UNCHANGED vars
    <3>1. OnePlace(j) /\ row' = row /\ messages' = messages /\ request' = request
          /\ worker' = worker
      BY <1>1, <1>2, <2>1 DEF CalmInv, vars
    <3>2. Completed(j)' => Completed(j) /\ request'[j] # "sending"
      BY <3>1 DEF Completed, Present, OnePlace
    <3>3. \A w \in Workers : IsAtWork(w, j)' => IsAtWork(w, j) /\ worker'[w] = worker[w]
      BY <3>1 DEF IsAtWork
    <3> QED  BY <3>1, <3>2, <3>3, OnePlaceStays
  <2> QED  BY <1>1, <1>2, <2>1, WorksKeepOnePlace, RequestsKeepOnePlace DEF Next
<1>3. CASE calm /\ ~calm'
  <2>1. row' = row
    BY <1>3 DEF Next, vars, Works, Breaks, Creates, Requests, Deletes, Receive, Load, Initialize,
         SkipEmpty, WriteFile, RecordFile, CountFile, Finalize, Acknowledge, DatabaseFails,
         WriteFails, WorkerDies, TimeLimit, Redeliver, CreateJob, SendTask, SendFails, BulkSend,
         BulkEnd, DeleteRead, DeleteFiles, DeleteRows, DeleteFails
  <2> QED  BY <1>3, <2>1, MessagesAreCounted DEF CalmInv
<1>4. CASE ~calm \/ calm'
  BY <1>1, <1>2, <1>4, MessagesAreCounted DEF CalmInv
<1> QED  BY <1>3, <1>4

\* At the start there are no messages.
LEMMA InitCalmInv == Init => CalmInv
<1> SUFFICES ASSUME Init PROVE CalmInv
  OBVIOUS
<1>1. \A j \in Jobs : /\ DOMAIN messages[j] = 0..MaxRetries
                      /\ \A r \in 0..MaxRetries : messages[j][r] = 0
  BY DEF Init
<1>2. AreCounts(messages)
  BY <1>1 DEF Init, AreCounts
<1>3. ASSUME NEW j \in Jobs
      PROVE  OnePlace(j)
  BY <1>1 DEF Init, OnePlace, HasMessage, IsAtWork, Completed, Present, Idle
<1> QED  BY <1>2, <1>3 DEF CalmInv

\* process_export_job: as long as no message comes twice, retries of a failed
\* attempt never touch a completed job.
THEOREM CompletedStaysSo == Spec => CompletedIsFinal
<1>1. ExportInv /\ CalmInv /\ [Next]_vars
        => [\A j \in Jobs : calm /\ Completed(j) => row'[j] \in {row[j], NoRow}]_vars
  BY StepKeepsCalmInv
<1>2. ExportInv /\ CalmInv /\ [Next]_vars => CalmInv'
  BY StepKeepsCalmInv
<1>3. Spec => []ExportInv
  BY InitExportInv, StepKeepsExportInv, PTL DEF Spec
<1> QED  BY <1>1, <1>2, <1>3, InitCalmInv, PTL DEF Spec, CompletedIsFinal
=============================================================================
