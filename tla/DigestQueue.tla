------------------------------ MODULE DigestQueue ------------------------------
(***************************************************************************)
(* The table digest_queue for one digest type and one period, the tasks    *)
(* that fill it and the tasks that send from it.  A task works through its *)
(* list with one database session and commits digest by digest; a commit   *)
(* that fails leaves the session unusable, because nobody rolls it back.   *)
(***************************************************************************)
EXTENDS Naturals, FiniteSets

CONSTANTS Users,       \* who gets a digest: one row each for the period
          Channels,    \* notification channels
          Generators,  \* runs of generate_daily_digests that may overlap
          Senders,     \* runs of send_daily_digests that may overlap
          MaxFailures, \* bound: database statements that fail
          MaxCrashes,  \* bound: worker processes that die
          NoUser

ASSUME NoUserAssumption == NoUser \notin Users
ASSUME BoundsAssumption == MaxFailures \in Nat /\ MaxCrashes \in Nat
ASSUME SendersAssumption == IsFiniteSet(Senders)

VARIABLES row,      \* [Users -> the row: absent, pending or sent (is_sent)]
          enabled,  \* [Users -> channels the user's preferences enable]
          queued,   \* [Users -> [Channels -> rows in notification_queue for it]]
          gen,      \* [Generators -> state of the run]
          snd,      \* [Senders -> state of the run]
          failures, crashes

vars == <<row, enabled, queued, gen, snd, failures, crashes>>

GenIdle == [state |-> "idle", todo |-> {}, broken |-> FALSE]
SndIdle == [state |-> "idle", batch |-> {}, user |-> NoUser, left |-> {},
            some |-> FALSE, broken |-> FALSE]

\* A channel gets a digest a second time only because of a failure, a crash or
\* another run: this bounds the counts.
TypeOK ==
  /\ row \in [Users -> {"absent", "pending", "sent"}]
  /\ enabled \in [Users -> SUBSET Channels]
  /\ queued \in [Users -> [Channels -> 0..(failures + crashes + Cardinality(Senders))]]
  /\ gen \in [Generators -> [state : {"idle", "running", "done"}, todo : SUBSET Users,
                             broken : BOOLEAN]]
  /\ snd \in [Senders -> [state : {"idle", "running", "queueing"}, batch : SUBSET Users,
                          user : Users \cup {NoUser}, left : SUBSET Channels,
                          some : BOOLEAN, broken : BOOLEAN]]
  /\ failures \in 0..MaxFailures
  /\ crashes \in 0..MaxCrashes

Init ==
  /\ row = [u \in Users |-> "absent"]
  /\ enabled \in [Users -> SUBSET Channels]
  /\ queued = [u \in Users |-> [ch \in Channels |-> 0]]
  /\ gen = [g \in Generators |-> GenIdle]
  /\ snd = [s \in Senders |-> SndIdle]
  /\ failures = 0
  /\ crashes = 0

Fails == failures < MaxFailures /\ failures' = failures + 1
Works == UNCHANGED failures

-----------------------------------------------------------------------------
(* generate_daily_digests and queue_digest *)

GenerateStart(g) ==
  /\ gen[g].state # "running"
  /\ gen' = [gen EXCEPT ![g] = [state |-> "running", todo |-> Users, broken |-> FALSE]]
  /\ UNCHANGED <<row, enabled, queued, snd, failures, crashes>>

\* The row is inserted, unless the session is broken; the unique index refuses a
\* second one for the period.  A failure may come after the commit (refresh).
QueueDigest(g, u) ==
  /\ gen[g].state = "running"
  /\ u \in gen[g].todo
  /\ \/ /\ gen[g].broken
        /\ Works
        /\ gen' = [gen EXCEPT ![g].todo = @ \ {u}]
        /\ UNCHANGED row
     \/ /\ ~gen[g].broken
        /\ row[u] = "absent"
        /\ Works
        /\ row' = [row EXCEPT ![u] = "pending"]
        /\ gen' = [gen EXCEPT ![g].todo = @ \ {u}]
     \/ /\ ~gen[g].broken
        /\ \/ row[u] # "absent" /\ Works /\ UNCHANGED row
           \/ row[u] = "absent" /\ Fails /\ row' \in {row, [row EXCEPT ![u] = "pending"]}
        /\ gen' = [gen EXCEPT ![g].todo = @ \ {u}, ![g].broken = TRUE]
  /\ UNCHANGED <<enabled, queued, snd, crashes>>

GenerateEnd(g) ==
  /\ gen[g].state = "running"
  /\ gen[g].todo = {}
  /\ gen' = [gen EXCEPT ![g].state = "done"]
  /\ UNCHANGED <<row, enabled, queued, snd, failures, crashes>>

GeneratorDies(g) ==
  /\ gen[g].state = "running"
  /\ crashes < MaxCrashes
  /\ crashes' = crashes + 1
  /\ gen' = [gen EXCEPT ![g] = GenIdle]
  /\ UNCHANGED <<row, enabled, queued, snd, failures>>

-----------------------------------------------------------------------------
(* send_daily_digests, send_digest and send_notification *)

\* Mutant: a digest for which something has been queued already is passed over.
SelectDueUnqueued(s) ==
  /\ snd[s].state = "idle"
  /\ snd' = [snd EXCEPT ![s] =
               [SndIdle EXCEPT !.state = "running",
                               !.batch = {u \in Users : /\ row[u] = "pending"
                                                        /\ \A ch \in Channels : queued[u][ch] = 0}]]
  /\ UNCHANGED <<row, enabled, queued, gen, failures, crashes>>

\* get_pending_digests
SelectDue(s) ==
  /\ snd[s].state = "idle"
  /\ snd' = [snd EXCEPT ![s] = [SndIdle EXCEPT !.state = "running",
                                               !.batch = {u \in Users : row[u] = "pending"}]]
  /\ UNCHANGED <<row, enabled, queued, gen, failures, crashes>>

\* send_digest selects the row again, but the session returns the object of the
\* batch, on which is_sent is still false.  On a broken session it fails.
BeginSend(s, u) ==
  /\ snd[s].state = "running"
  /\ u \in snd[s].batch
  /\ \/ /\ snd[s].broken
        /\ snd' = [snd EXCEPT ![s].batch = @ \ {u}]
     \/ /\ ~snd[s].broken
        /\ snd' = [snd EXCEPT ![s].state = "queueing", ![s].batch = @ \ {u}, ![s].user = u,
                              ![s].left = enabled[u], ![s].some = FALSE]
  /\ UNCHANGED <<row, enabled, queued, gen, failures, crashes>>

\* One row in notification_queue, committed at once.
QueueFor(s, ch) ==
  /\ snd[s].state = "queueing"
  /\ ch \in snd[s].left
  /\ queued' = [queued EXCEPT ![snd[s].user][ch] = @ + 1]
  /\ snd' = [snd EXCEPT ![s].left = @ \ {ch}, ![s].some = TRUE]
  /\ UNCHANGED <<row, enabled, gen, failures, crashes>>

\* A statement fails, before or after the commit of the row: the other channels
\* are skipped and the session is broken.
QueueFails(s, ch) ==
  /\ snd[s].state = "queueing"
  /\ ch \in snd[s].left
  /\ Fails
  /\ queued' \in {queued, [queued EXCEPT ![snd[s].user][ch] = @ + 1]}
  /\ snd' = [snd EXCEPT ![s].left = {}, ![s].broken = TRUE]
  /\ UNCHANGED <<row, enabled, gen, crashes>>

\* Mutant: the result of send_notification is not looked at.
FinishSendAnyway(s) ==
  /\ snd[s].state = "queueing"
  /\ snd[s].left = {}
  /\ row' = IF ~snd[s].broken THEN [row EXCEPT ![snd[s].user] = "sent"] ELSE row
  /\ snd' = [snd EXCEPT ![s].state = "running"]
  /\ UNCHANGED <<enabled, queued, gen, failures, crashes>>

\* Mutant: is_sent is not written.
FinishSendUnmarked(s) ==
  /\ snd[s].state = "queueing"
  /\ snd[s].left = {}
  /\ snd' = [snd EXCEPT ![s].state = "running"]
  /\ UNCHANGED <<row, enabled, queued, gen, failures, crashes>>

\* is_sent is committed if something was queued; this commit may fail as well.
FinishSend(s) ==
  /\ snd[s].state = "queueing"
  /\ snd[s].left = {}
  /\ \/ /\ snd[s].some /\ ~snd[s].broken
        /\ \/ /\ Works
              /\ row' = [row EXCEPT ![snd[s].user] = "sent"]
              /\ snd' = [snd EXCEPT ![s].state = "running"]
           \/ /\ Fails
              /\ snd' = [snd EXCEPT ![s].state = "running", ![s].broken = TRUE]
              /\ UNCHANGED row
     \/ /\ ~snd[s].some \/ snd[s].broken
        /\ snd' = [snd EXCEPT ![s].state = "running"]
        /\ Works
        /\ UNCHANGED row
  /\ UNCHANGED <<enabled, queued, gen, crashes>>

EndRun(s) ==
  /\ snd[s].state = "running"
  /\ snd[s].batch = {}
  /\ snd' = [snd EXCEPT ![s].state = "idle"]
  /\ UNCHANGED <<row, enabled, queued, gen, failures, crashes>>

SenderDies(s) ==
  /\ snd[s].state # "idle"
  /\ crashes < MaxCrashes
  /\ crashes' = crashes + 1
  /\ snd' = [snd EXCEPT ![s] = SndIdle]
  /\ UNCHANGED <<row, enabled, queued, gen, failures>>

-----------------------------------------------------------------------------
GeneratorStep(g) ==
  \/ GenerateStart(g) \/ GenerateEnd(g)
  \/ \E u \in Users : QueueDigest(g, u)

SenderStep(s) ==
  \/ SelectDue(s) \/ FinishSend(s) \/ EndRun(s)
  \/ \E u \in Users : BeginSend(s, u)
  \/ \E ch \in Channels : QueueFor(s, ch) \/ QueueFails(s, ch)

Next ==
  \/ \E g \in Generators : GeneratorStep(g) \/ GeneratorDies(g)
  \/ \E s \in Senders : SenderStep(s) \/ SenderDies(s)

Spec == Init /\ [][Next]_vars

\* Beat starts the task every day, and a run that has begun goes on.
FairSpec == Spec /\ \A s \in Senders : WF_vars(SenderStep(s))

-----------------------------------------------------------------------------
(* Properties. *)

\* A digest that is marked as sent has been queued on at least one channel,
\* whatever failed and whichever of several runs marked it.
SentWasQueued ==
  \A u \in Users : row[u] = "sent" => \E ch \in Channels : queued[u][ch] > 0

\* A digest of a user who has a channel enabled goes out in the end: a run that a
\* failure has crippled, or that has died, is made up for by a later one.
DigestGoesOut ==
  \A u \in Users : row[u] = "pending" /\ enabled[u] # {} ~> row[u] = "sent"
=============================================================================
