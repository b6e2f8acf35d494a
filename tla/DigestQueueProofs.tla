--------------------------- MODULE DigestQueueProofs ---------------------------
(***************************************************************************)
(* Theorems about DigestQueue, for every set of users, channels and        *)
(* overlapping runs.                                                       *)
(***************************************************************************)
EXTENDS DigestQueue, FiniteSetTheorems, TLAPS

\* The state of a run of send_daily_digests.
IsRun(x) ==
  /\ DOMAIN x = {"state", "batch", "user", "left", "some", "broken"}
  /\ x.batch \subseteq Users /\ x.left \subseteq Channels
  /\ x.state = "queueing" => x.user \in Users

\* Of the state only what the argument needs.
Shape ==
  /\ row \in [Users -> {"absent", "pending", "sent"}]
  /\ queued \in [Users -> [Channels -> Nat]]
  /\ enabled \in [Users -> SUBSET Channels]
  /\ DOMAIN snd = Senders /\ \A s \in Senders : IsRun(snd[s])

\* A notification has been queued for u.
QueuedFor(u) == \E ch \in Channels : queued[u][ch] > 0

\* A run that is about to mark a digest because something was queued has queued
\* it for the same user.
SomeMeansQueued ==
  \A s \in Senders : snd[s].state = "queueing" /\ snd[s].some => QueuedFor(snd[s].user)

\* The inductive invariant.
DigestInv == Shape /\ SomeMeansQueued /\ SentWasQueued

-----------------------------------------------------------------------------
\* What is queued stays queued; all other steps are about the runs.
LEMMA QueuedStays ==
  ASSUME Shape, NEW s \in Senders, NEW ch \in snd[s].left, snd[s].state = "queueing",
         queued' \in {queued, [queued EXCEPT ![snd[s].user][ch] = @ + 1]}
  PROVE  /\ queued' \in [Users -> [Channels -> Nat]]
         /\ \A u \in Users : QueuedFor(u) => QueuedFor(u)'
<1> DEFINE v == snd[s].user
<1>1. v \in Users /\ ch \in Channels /\ queued[v][ch] \in Nat
  BY DEF Shape, IsRun
<1>2. \A u \in Users, c \in Channels : queued'[u][c] \in {queued[u][c], queued[u][c] + 1}
  BY <1>1 DEF Shape
<1>3. \A u \in Users, c \in Channels : queued[u][c] \in Nat
  BY DEF Shape
<1>4. queued' \in [Users -> [Channels -> Nat]]
  <2>1. queued[v] \in [Channels -> Nat]
    BY <1>1 DEF Shape
  <2>2. [queued[v] EXCEPT ![ch] = @ + 1] \in [Channels -> Nat]
    BY <1>1, <2>1
  <2>3. queued' \in {queued, [queued EXCEPT ![v] = [queued[v] EXCEPT ![ch] = @ + 1]]}
    OBVIOUS
  <2> QED  BY <1>1, <2>2, <2>3 DEF Shape
<1>5. \A u \in Users : QueuedFor(u) => QueuedFor(u)'
  BY <1>2, <1>3 DEF QueuedFor
<1> QED  BY <1>4, <1>5

\* One run goes on in one of its states; the others are left alone.
LEMMA RunGoesOn ==
  ASSUME Shape, NEW s \in Senders, NEW x, IsRun(x), snd' = [snd EXCEPT ![s] = x],
         row' \in [Users -> {"absent", "pending", "sent"}],
         queued' \in [Users -> [Channels -> Nat]], enabled' = enabled
  PROVE  Shape'
  BY DEF Shape

\* At the start nothing is sent and no run is under way.
LEMMA InitDigestInv == Init => DigestInv
<1> SUFFICES ASSUME Init PROVE DigestInv
  OBVIOUS
<1>1. Shape
  BY DEF Init, Shape, IsRun, SndIdle
<1>2. SomeMeansQueued /\ SentWasQueued
  BY DEF Init, SomeMeansQueued, SentWasQueued, SndIdle
<1> QED  BY <1>1, <1>2 DEF DigestInv

\* The steps of a run of send_daily_digests.
LEMMA SenderKeepsInv ==
  ASSUME DigestInv, NEW s \in Senders, SenderStep(s) \/ SenderDies(s)
  PROVE  DigestInv'
<1> USE DEF DigestInv
<1>1. CASE SelectDue(s)
  BY <1>1 DEF SelectDue, SndIdle, Shape, IsRun, SomeMeansQueued, SentWasQueued, QueuedFor
<1>2. ASSUME NEW u \in Users, BeginSend(s, u)
      PROVE  DigestInv'
  <2>1. Shape'
    <3>1. /\ IsRun([snd[s] EXCEPT !.batch = @ \ {u}])
          /\ IsRun([snd[s] EXCEPT !.state = "queueing", !.batch = @ \ {u}, !.user = u,
                                  !.left = enabled[u], !.some = FALSE])
      BY DEF Shape, IsRun
    <3>2. UNCHANGED <<row, enabled, queued>>
      BY <1>2 DEF BeginSend
    <3>3. \/ snd' = [snd EXCEPT ![s] = [snd[s] EXCEPT !.batch = @ \ {u}]]
          \/ snd' = [snd EXCEPT ![s] =
                       [snd[s] EXCEPT !.state = "queueing", !.batch = @ \ {u}, !.user = u,
                                      !.left = enabled[u], !.some = FALSE]]
      BY <1>2 DEF BeginSend
    <3> QED  BY <3>1, <3>2, <3>3, RunGoesOn DEF Shape
  <2>2. SomeMeansQueued'
    <3>1. queued' = queued /\ \A r \in Senders \ {s} : snd'[r] = snd[r]
      BY <1>2 DEF BeginSend, Shape
    <3>2. CASE snd[s].broken
      BY <1>2, <3>1, <3>2 DEF BeginSend, Shape, IsRun, SomeMeansQueued, QueuedFor
    <3>3. CASE ~snd[s].broken
      BY <1>2, <3>1, <3>3 DEF BeginSend, Shape, IsRun, SomeMeansQueued, QueuedFor
    <3> QED  BY <3>2, <3>3
  <2>3. SentWasQueued'
    BY <1>2 DEF BeginSend, SentWasQueued
  <2> QED  BY <2>1, <2>2, <2>3
<1>3. ASSUME NEW ch \in Channels, QueueFor(s, ch)
      PROVE  DigestInv'
  <2>1. /\ queued' \in [Users -> [Channels -> Nat]]
        /\ \A u \in Users : QueuedFor(u) => QueuedFor(u)'
    BY <1>3, QueuedStays DEF QueueFor
  <2>2. Shape'
    <3>1. IsRun([snd[s] EXCEPT !.left = @ \ {ch}, !.some = TRUE])
      BY DEF Shape, IsRun
    <3> QED  BY <1>3, <2>1, <3>1, RunGoesOn DEF QueueFor, Shape
  <2>3. snd[s].user \in Users /\ QueuedFor(snd[s].user)'
    BY <1>3 DEF QueueFor, Shape, IsRun, QueuedFor
  <2>4. SomeMeansQueued'
    BY <1>3, <2>1, <2>3 DEF QueueFor, Shape, IsRun, SomeMeansQueued
  <2>5. SentWasQueued'
    BY <1>3, <2>1 DEF QueueFor, SentWasQueued, QueuedFor
  <2> QED  BY <2>2, <2>4, <2>5
<1>4. ASSUME NEW ch \in Channels, QueueFails(s, ch)
      PROVE  DigestInv'
  <2>1. /\ queued' \in [Users -> [Channels -> Nat]]
        /\ \A u \in Users : QueuedFor(u) => QueuedFor(u)'
    BY <1>4, QueuedStays DEF QueueFails
  <2>2. Shape'
    <3>1. IsRun([snd[s] EXCEPT !.left = {}, !.broken = TRUE])
      BY DEF Shape, IsRun
    <3> QED  BY <1>4, <2>1, <3>1, RunGoesOn DEF QueueFails, Shape
  <2>3. SomeMeansQueued'
    BY <1>4, <2>1 DEF QueueFails, Shape, IsRun, SomeMeansQueued
  <2>4. SentWasQueued'
    BY <1>4, <2>1 DEF QueueFails, SentWasQueued, QueuedFor
  <2> QED  BY <2>2, <2>3, <2>4
<1>5. CASE FinishSend(s)
  <2>1. Shape'
    <3>1. /\ IsRun([snd[s] EXCEPT !.state = "running"])
          /\ IsRun([snd[s] EXCEPT !.state = "running", !.broken = TRUE])
      BY DEF Shape, IsRun
    <3>2. /\ row' \in [Users -> {"absent", "pending", "sent"}]
          /\ UNCHANGED <<enabled, queued>>
      BY <1>5 DEF FinishSend, Shape
    <3>3. \/ snd' = [snd EXCEPT ![s] = [snd[s] EXCEPT !.state = "running"]]
          \/ snd' = [snd EXCEPT ![s] = [snd[s] EXCEPT !.state = "running", !.broken = TRUE]]
      BY <1>5 DEF FinishSend
    <3> QED  BY <3>1, <3>2, <3>3, RunGoesOn DEF Shape
  <2>2. SomeMeansQueued'
    BY <1>5 DEF FinishSend, Shape, IsRun, SomeMeansQueued, QueuedFor
  <2>3. SentWasQueued'
    BY <1>5 DEF FinishSend, Shape, IsRun, SomeMeansQueued, SentWasQueued, QueuedFor
  <2> QED  BY <2>1, <2>2, <2>3
<1>6. CASE EndRun(s)
  BY <1>6 DEF EndRun, Shape, IsRun, SomeMeansQueued, SentWasQueued, QueuedFor
<1>7. CASE SenderDies(s)
  BY <1>7 DEF SenderDies, SndIdle, Shape, IsRun, SomeMeansQueued, SentWasQueued, QueuedFor
<1> QED  BY <1>1, <1>2, <1>3, <1>4, <1>5, <1>6, <1>7 DEF SenderStep

\* All steps; a run that generates digests only inserts pending rows.
LEMMA StepKeepsDigestInv == DigestInv /\ [Next]_vars => DigestInv'
<1> SUFFICES ASSUME DigestInv, [Next]_vars PROVE DigestInv'
  OBVIOUS
<1> USE DEF DigestInv
<1>1. ASSUME NEW g \in Generators, GeneratorStep(g) \/ GeneratorDies(g)
      PROVE  DigestInv'
  <2>1. UNCHANGED <<enabled, queued, snd>>
    BY <1>1 DEF GeneratorStep, GeneratorDies, GenerateStart, GenerateEnd, QueueDigest
  <2>2. /\ row' \in [Users -> {"absent", "pending", "sent"}]
        /\ \A u \in Users : row'[u] = "sent" => row[u] = "sent"
    BY <1>1 DEF GeneratorStep, GeneratorDies, GenerateStart, GenerateEnd, QueueDigest, Shape
  <2> QED  BY <2>1, <2>2 DEF Shape, IsRun, SomeMeansQueued, SentWasQueued, QueuedFor
<1>2. ASSUME NEW s \in Senders, SenderStep(s) \/ SenderDies(s)
      PROVE  DigestInv'
  BY <1>2, SenderKeepsInv
<1>3. ASSUME UNCHANGED vars
      PROVE  DigestInv'
  BY <1>3 DEF vars, Shape, IsRun, SomeMeansQueued, SentWasQueued, QueuedFor
<1> QED  BY <1>1, <1>2, <1>3 DEF Next

\* DigestBuilder.send_digest: whatever statements fail, whichever processes die
\* and however many runs overlap, is_sent is set only on a digest of which a
\* notification has been queued.
THEOREM NoDigestIsSentUnqueued == Spec => []SentWasQueued
<1>1. DigestInv => SentWasQueued
  BY DEF DigestInv
<1> QED  BY <1>1, InitDigestInv, StepKeepsDigestInv, PTL DEF Spec

-----------------------------------------------------------------------------
(* Type correctness: the causes of what is queued, and what a run may still queue. *)

\* The states of a run of send_daily_digests.
RunStates == [state : {"idle", "running", "queueing"}, batch : SUBSET Users,
              user : Users \cup {NoUser}, left : SUBSET Channels, some : BOOLEAN, broken : BOOLEAN]

\* The types alone, without the bound on what is queued.
DigestTypes ==
  /\ row \in [Users -> {"absent", "pending", "sent"}]
  /\ enabled \in [Users -> SUBSET Channels]
  /\ queued \in [Users -> [Channels -> Nat]]
  /\ gen \in [Generators -> [state : {"idle", "running", "done"}, todo : SUBSET Users,
                             broken : BOOLEAN]]
  /\ snd \in [Senders -> RunStates]
  /\ failures \in 0..MaxFailures
  /\ crashes \in 0..MaxCrashes

\* How far a run is: the digest it queues is off its list, and it has looked at
\* the user's channels one by one.
RunsInOrder ==
  \A s \in Senders :
    /\ snd[s].state = "idle" => snd[s].batch = {}
    /\ snd[s].state = "queueing" =>
         /\ snd[s].user \in Users /\ snd[s].user \notin snd[s].batch
         /\ snd[s].left \subseteq enabled[snd[s].user]
         /\ (~snd[s].some /\ ~snd[s].broken) => snd[s].left = enabled[snd[s].user]
         /\ snd[s].broken => snd[s].left = {}

\* Run s may still queue the digest of u on ch without another failure or crash:
\* it has it on its list or, unless it is about to mark it, will find it due.
Queueing(s, u) == ~snd[s].broken /\ snd[s].state = "queueing" /\ snd[s].user = u
MayQueue(s, u, ch) ==
  \/ u \in snd[s].batch /\ ~snd[s].broken
  \/ Queueing(s, u) /\ ch \in snd[s].left
  \/ ~Queueing(s, u) /\ row[u] # "sent"
Claims(u, ch) == {s \in Senders : MayQueue(s, u, ch)}

\* Each row of notification_queue was paid for by a run that may not queue it
\* again, by a failure or by a crash.
QueuedWithCause ==
  \A u \in Users, ch \in Channels :
    /\ ch \in enabled[u] =>
         queued[u][ch] + Cardinality(Claims(u, ch)) <= failures + crashes + Cardinality(Senders)
    /\ ch \notin enabled[u] => queued[u][ch] = 0

QueuedInv == DigestTypes /\ RunsInOrder /\ QueuedWithCause

-----------------------------------------------------------------------------
\* A set in which at most s is new has at most one element more.
LEMMA OneMore ==
  ASSUME NEW A, IsFiniteSet(A), NEW B, NEW s, B \subseteq A \cup {s}
  PROVE  /\ IsFiniteSet(B) /\ Cardinality(A) \in Nat /\ Cardinality(B) \in Nat
         /\ Cardinality(B) <= Cardinality(A) + 1
         /\ B \subseteq A => Cardinality(B) <= Cardinality(A)
         /\ (s \in A /\ s \notin B) => Cardinality(B) + 1 <= Cardinality(A)
<1>1. /\ IsFiniteSet(A \cup {s}) /\ Cardinality(A) \in Nat
      /\ Cardinality(A \cup {s}) = IF s \in A THEN Cardinality(A) ELSE Cardinality(A) + 1
  BY FS_AddElement, FS_CardinalityType
<1>2. IsFiniteSet(B) /\ Cardinality(B) \in Nat /\ Cardinality(B) <= Cardinality(A \cup {s})
  BY <1>1, FS_Subset, FS_CardinalityType
<1>3. B \subseteq A => Cardinality(B) <= Cardinality(A)
  BY FS_Subset
<1>4. ASSUME s \in A, s \notin B
      PROVE  Cardinality(B) + 1 <= Cardinality(A)
  <2>1. IsFiniteSet(A \ {s}) /\ Cardinality(A \ {s}) = Cardinality(A) - 1
    BY <1>4, FS_RemoveElement
  <2>2. B \subseteq A \ {s}
    BY <1>4
  <2>3. Cardinality(B) <= Cardinality(A \ {s})
    BY <2>1, <2>2, FS_Subset
  <2> QED  BY <1>1, <1>2, <2>1, <2>3
<1> QED  BY <1>1, <1>2, <1>3, <1>4

\* What is spent on both sides of a bound.
LEMMA SpentOnBoth ==
  ASSUME NEW q \in Nat, NEW a \in Nat, NEW p \in Nat, NEW b \in Nat, NEW f \in Nat, NEW g \in Nat,
         NEW n \in Nat, NEW cause \in {0, 1}, g = f + cause,
         q + a <= f + n, p + b <= q + a + cause
  PROVE  p + b <= g + n
  OBVIOUS

\* One run moves: what it queues it does not claim any more, unless a failure
\* or a crash is counted; the others claim nothing new.
LEMMA ClaimsPay ==
  ASSUME QueuedInv, NEW s \in Senders, enabled' = enabled,
         NEW cause \in {0, 1},
         failures' + crashes' = failures + crashes + cause,
         \A u \in Users, ch \in Channels : ch \in enabled[u] =>
           /\ \A r \in Senders \ {s} : MayQueue(r, u, ch)' => MayQueue(r, u, ch)
           /\ \/ /\ queued'[u][ch] = queued[u][ch]
                 /\ cause = 1 \/ (MayQueue(s, u, ch)' => MayQueue(s, u, ch))
              \/ /\ queued'[u][ch] = queued[u][ch] + 1
                 /\ MayQueue(s, u, ch) /\ (cause = 1 \/ ~MayQueue(s, u, ch)'),
         \A u \in Users, ch \in Channels : ch \notin enabled[u] => queued'[u][ch] = queued[u][ch]
  PROVE  QueuedWithCause'
<1> SUFFICES ASSUME NEW u \in Users, NEW ch \in Channels, ch \in enabled[u]
             PROVE  queued'[u][ch] + Cardinality(Claims(u, ch)')
                      <= failures' + crashes' + Cardinality(Senders)
  BY DEF QueuedWithCause, QueuedInv
<1> DEFINE A == Claims(u, ch)
           B == Claims(u, ch)'
<1>1. A \subseteq Senders /\ B \subseteq Senders
  BY DEF Claims
<1>2. IsFiniteSet(A) /\ Cardinality(Senders) \in Nat
  BY <1>1, SendersAssumption, FS_Subset, FS_CardinalityType
<1>3. s \in A <=> MayQueue(s, u, ch)
  BY DEF Claims
<1>4. s \in B <=> MayQueue(s, u, ch)'
  BY DEF Claims
<1>5. \A r \in Senders \ {s} : r \in B => r \in A
  BY DEF Claims
<1>6. /\ queued[u][ch] \in Nat /\ failures \in Nat /\ crashes \in Nat
      /\ queued[u][ch] + Cardinality(A) <= failures + crashes + Cardinality(Senders)
  BY DEF QueuedInv, DigestTypes, QueuedWithCause
<1>7. \/ queued'[u][ch] = queued[u][ch] /\ (cause = 1 \/ (s \in B => s \in A))
      \/ queued'[u][ch] = queued[u][ch] + 1 /\ s \in A /\ (cause = 1 \/ s \notin B)
  BY <1>3, <1>4
<1> HIDE DEF A, B
<1>8. /\ Cardinality(A) \in Nat /\ Cardinality(B) \in Nat
      /\ Cardinality(B) <= Cardinality(A) + 1
      /\ (s \in B => s \in A) => Cardinality(B) <= Cardinality(A)
      /\ (s \in A /\ s \notin B) => Cardinality(B) + 1 <= Cardinality(A)
  <2>1. B \subseteq A \cup {s} /\ ((s \in B => s \in A) => B \subseteq A)
    BY <1>1, <1>5
  <2> QED  BY <1>2, <2>1, OneMore
<1>9. queued'[u][ch] + Cardinality(B) <= queued[u][ch] + Cardinality(A) + cause
  <2>1. CASE queued'[u][ch] = queued[u][ch] /\ (cause = 1 \/ (s \in B => s \in A))
    BY <1>6, <1>8, <2>1
  <2>2. CASE queued'[u][ch] = queued[u][ch] + 1 /\ s \in A /\ (cause = 1 \/ s \notin B)
    BY <1>6, <1>8, <2>2
  <2> QED  BY <1>7, <2>1, <2>2
<1>10. queued'[u][ch] \in Nat
  BY <1>6, <1>7
<1>11. queued'[u][ch] + Cardinality(B) <= failures' + crashes' + Cardinality(Senders)
  <2> DEFINE f == failures + crashes
             g == failures' + crashes'
             q == queued[u][ch]
             p == queued'[u][ch]
             a == Cardinality(A)
             b == Cardinality(B)
             n == Cardinality(Senders)
  <2>1. f \in Nat /\ q \in Nat
    BY <1>6
  <2>2. p \in Nat /\ a \in Nat /\ b \in Nat /\ n \in Nat
    BY <1>2, <1>8, <1>10
  <2>3. g = f + cause
    OBVIOUS
  <2>4. q + a <= f + n /\ p + b <= q + a + cause
    BY <1>6, <1>9
  <2> HIDE DEF f, g, q, p, a, b, n
  <2>5. g \in Nat
    BY <2>1, <2>3
  <2>6. p + b <= g + n
    BY <2>1, <2>2, <2>3, <2>4, <2>5, SpentOnBoth
  <2> QED  BY <2>6 DEF f, g, q, p, a, b, n
<1> QED  BY <1>11 DEF B

-----------------------------------------------------------------------------
(* The order of a run. *)

\* One run goes on and keeps its order; the others are left alone.
LEMMA RunTyped ==
  ASSUME DigestTypes, RunsInOrder, NEW s \in Senders, NEW x, snd' = [snd EXCEPT ![s] = x],
         x \in RunStates,
         x.state = "idle" => x.batch = {},
         x.state = "queueing" =>
           /\ x.user \in Users /\ x.user \notin x.batch /\ x.left \subseteq enabled[x.user]
           /\ (~x.some /\ ~x.broken) => x.left = enabled[x.user]
           /\ x.broken => x.left = {},
         row' \in [Users -> {"absent", "pending", "sent"}], UNCHANGED <<enabled, gen>>,
         queued' \in [Users -> [Channels -> Nat]],
         failures' \in 0..MaxFailures, crashes' \in 0..MaxCrashes
  PROVE  DigestTypes' /\ RunsInOrder'
<1>1. DigestTypes'
  BY DEF DigestTypes
<1>2. snd'[s] = x /\ \A r \in Senders \ {s} : snd'[r] = snd[r]
  BY DEF DigestTypes
<1>3. RunsInOrder'
  BY <1>2 DEF RunsInOrder
<1> QED  BY <1>1, <1>3

\* What a run of send_daily_digests leaves of the types and the order.
LEMMA SenderTyped ==
  ASSUME DigestTypes, RunsInOrder, NEW s \in Senders, SenderStep(s) \/ SenderDies(s)
  PROVE  DigestTypes' /\ RunsInOrder'
<1>0. /\ snd[s] \in RunStates
      /\ row \in [Users -> {"absent", "pending", "sent"}]
      /\ queued \in [Users -> [Channels -> Nat]] /\ enabled \in [Users -> SUBSET Channels]
      /\ failures \in 0..MaxFailures /\ crashes \in 0..MaxCrashes
  BY DEF DigestTypes
<1>o. /\ snd[s].state = "idle" => snd[s].batch = {}
      /\ snd[s].state = "queueing" =>
           /\ snd[s].user \in Users /\ snd[s].user \notin snd[s].batch
           /\ snd[s].left \subseteq enabled[snd[s].user]
           /\ (~snd[s].some /\ ~snd[s].broken) => snd[s].left = enabled[snd[s].user]
           /\ snd[s].broken => snd[s].left = {}
  BY DEF RunsInOrder
<1>f. Fails => failures' \in 0..MaxFailures
  BY <1>0, BoundsAssumption DEF Fails
<1>w. Works => failures' \in 0..MaxFailures
  BY <1>0 DEF Works
<1>q. ASSUME NEW ch \in Channels, snd[s].state = "queueing"
      PROVE  [queued EXCEPT ![snd[s].user][ch] = @ + 1] \in [Users -> [Channels -> Nat]]
  <2> DEFINE v == snd[s].user
  <2>1. queued[v] \in [Channels -> Nat] /\ queued[v][ch] \in Nat
    BY <1>0, <1>o, <1>q
  <2>2. [queued[v] EXCEPT ![ch] = @ + 1] \in [Channels -> Nat]
    BY <2>1
  <2>3. [queued EXCEPT ![v] = [queued[v] EXCEPT ![ch] = @ + 1]] \in [Users -> [Channels -> Nat]]
    BY <1>0, <2>2
  <2> QED  BY <2>3
<1>1. CASE SelectDue(s)
  <2> DEFINE x == [SndIdle EXCEPT !.state = "running", !.batch = {u \in Users : row[u] = "pending"}]
  <2>1. /\ x.state = "running"
        /\ x \in RunStates
    BY DEF SndIdle, RunStates
  <2>2. snd' = [snd EXCEPT ![s] = x]
    BY <1>1 DEF SelectDue
  <2> HIDE DEF x
  <2> QED  BY <1>0, <1>1, <2>1, <2>2, RunTyped DEF SelectDue
<1>2. ASSUME NEW u \in Users, BeginSend(s, u)
      PROVE  DigestTypes' /\ RunsInOrder'
  <2>1. CASE snd' = [snd EXCEPT ![s].batch = @ \ {u}]
    <3> DEFINE x == [snd[s] EXCEPT !.batch = @ \ {u}]
    <3>1. snd' = [snd EXCEPT ![s] = x] /\ snd[s].state = "running"
      BY <1>2, <2>1 DEF BeginSend
    <3>2. /\ x.state = "running"
          /\ x \in RunStates
      BY <1>0, <3>1 DEF RunStates
    <3> HIDE DEF x
    <3> QED  BY <1>0, <1>2, <3>1, <3>2, RunTyped DEF BeginSend
  <2>2. CASE /\ ~snd[s].broken
             /\ snd' = [snd EXCEPT ![s].state = "queueing", ![s].batch = @ \ {u}, ![s].user = u,
                                   ![s].left = enabled[u], ![s].some = FALSE]
    <3> DEFINE x == [snd[s] EXCEPT !.state = "queueing", !.batch = @ \ {u}, !.user = u,
                                   !.left = enabled[u], !.some = FALSE]
    <3>1. snd' = [snd EXCEPT ![s] = x] /\ ~snd[s].broken
      BY <1>0, <1>2, <2>2 DEF BeginSend, RunStates
    <3>2. /\ ~x.broken /\ x.user = u /\ u \notin x.batch /\ x.left = enabled[u] /\ x.state = "queueing"
          /\ x \in RunStates
      BY <1>0, <3>1 DEF RunStates
    <3> HIDE DEF x
    <3> QED  BY <1>0, <1>2, <3>1, <3>2, RunTyped DEF BeginSend
  <2> QED  BY <1>2, <2>1, <2>2 DEF BeginSend
<1>3. ASSUME NEW ch \in Channels, QueueFor(s, ch)
      PROVE  DigestTypes' /\ RunsInOrder'
  <2> DEFINE x == [snd[s] EXCEPT !.left = @ \ {ch}, !.some = TRUE]
  <2>1. snd' = [snd EXCEPT ![s] = x] /\ snd[s].state = "queueing"
    BY <1>3 DEF QueueFor
  <2>2. /\ x.user = snd[s].user /\ x.batch = snd[s].batch /\ x.left \subseteq snd[s].left /\ x.some
        /\ x.state = "queueing" /\ x.broken = snd[s].broken
        /\ x \in RunStates
    BY <1>0, <2>1 DEF RunStates
  <2>3. queued' \in [Users -> [Channels -> Nat]]
    BY <1>3, <1>q, <2>1 DEF QueueFor
  <2> HIDE DEF x
  <2>4. /\ x.user \in Users /\ x.user \notin x.batch /\ x.left \subseteq enabled[x.user]
        /\ x.broken => x.left = {}
    BY <1>o, <2>1, <2>2
  <2> QED  BY <1>0, <1>3, <2>1, <2>2, <2>3, <2>4, RunTyped DEF QueueFor
<1>4. ASSUME NEW ch \in Channels, QueueFails(s, ch)
      PROVE  DigestTypes' /\ RunsInOrder'
  <2> DEFINE x == [snd[s] EXCEPT !.left = {}, !.broken = TRUE]
  <2>1. snd' = [snd EXCEPT ![s] = x] /\ snd[s].state = "queueing"
    BY <1>4 DEF QueueFails
  <2>2. /\ x.user = snd[s].user /\ x.batch = snd[s].batch /\ x.left = {} /\ x.broken
        /\ x.state = "queueing"
        /\ x \in RunStates
    BY <1>0, <2>1 DEF RunStates
  <2>3. queued' \in [Users -> [Channels -> Nat]]
    BY <1>0, <1>4, <1>q, <2>1 DEF QueueFails
  <2> HIDE DEF x
  <2>4. x.user \in Users /\ x.user \notin x.batch /\ x.left \subseteq enabled[x.user]
    BY <1>o, <2>1, <2>2
  <2> QED  BY <1>0, <1>f, <1>4, <2>1, <2>2, <2>3, <2>4, RunTyped DEF QueueFails
<1>5. CASE FinishSend(s)
  <2> DEFINE x == [snd[s] EXCEPT !.state = "running"]
             y == [snd[s] EXCEPT !.state = "running", !.broken = TRUE]
  <2>1. snd' = [snd EXCEPT ![s] = x] \/ snd' = [snd EXCEPT ![s] = y]
    BY <1>5 DEF FinishSend
  <2>2. x.state = "running" /\ y.state = "running" /\ x \in RunStates /\ y \in RunStates
    BY <1>0 DEF RunStates
  <2>3. row' \in [Users -> {"absent", "pending", "sent"}] /\ failures' \in 0..MaxFailures
    BY <1>0, <1>f, <1>w, <1>5 DEF FinishSend
  <2>4. UNCHANGED <<enabled, gen, queued, crashes>>
    BY <1>5 DEF FinishSend
  <2> HIDE DEF x, y
  <2>5. CASE snd' = [snd EXCEPT ![s] = x]
    BY <1>0, <2>2, <2>3, <2>4, <2>5, RunTyped
  <2>6. CASE snd' = [snd EXCEPT ![s] = y]
    BY <1>0, <2>2, <2>3, <2>4, <2>6, RunTyped
  <2> QED  BY <2>1, <2>5, <2>6
<1>6. CASE EndRun(s)
  <2> DEFINE x == [snd[s] EXCEPT !.state = "idle"]
  <2>1. snd' = [snd EXCEPT ![s] = x] /\ snd[s].batch = {}
    BY <1>6 DEF EndRun
  <2>2. /\ x.state = "idle" /\ x.batch = {}
        /\ x \in RunStates
    BY <1>0, <2>1 DEF RunStates
  <2> HIDE DEF x
  <2> QED  BY <1>0, <1>6, <2>1, <2>2, RunTyped DEF EndRun
<1>7. CASE SenderDies(s)
  <2>1. /\ SndIdle.state = "idle" /\ SndIdle.batch = {}
        /\ SndIdle \in RunStates
    BY DEF SndIdle, RunStates
  <2>2. crashes' \in 0..MaxCrashes
    BY <1>0, <1>7, BoundsAssumption DEF SenderDies
  <2> QED  BY <1>0, <1>7, <2>1, <2>2, RunTyped DEF SenderDies
<1> QED  BY <1>1, <1>2, <1>3, <1>4, <1>5, <1>6, <1>7 DEF SenderStep

\* A run of generate_daily_digests does not touch the runs that send.
LEMMA GeneratorTyped ==
  ASSUME DigestTypes, RunsInOrder, NEW g \in Generators, GeneratorStep(g) \/ GeneratorDies(g)
  PROVE  /\ DigestTypes' /\ RunsInOrder'
         /\ UNCHANGED <<enabled, queued, snd>>
         /\ \A u \in Users : row'[u] # "sent" => row[u] # "sent"
<1>0. UNCHANGED <<enabled, queued, snd>>
  BY DEF GeneratorStep, GeneratorDies, GenerateStart, GenerateEnd, QueueDigest
<1>1. /\ row' \in [Users -> {"absent", "pending", "sent"}]
      /\ \A u \in Users : row'[u] # "sent" => row[u] # "sent"
  BY DEF GeneratorStep, GeneratorDies, GenerateStart, GenerateEnd, QueueDigest, DigestTypes
<1>2. failures' \in 0..MaxFailures /\ crashes' \in 0..MaxCrashes
  <2>1. failures \in 0..MaxFailures /\ crashes \in 0..MaxCrashes
    BY DEF DigestTypes
  <2>2. Fails \/ Works => failures' \in 0..MaxFailures
    BY <2>1, BoundsAssumption DEF Fails, Works
  <2>3. CASE GeneratorStep(g)
    BY <2>1, <2>2, <2>3 DEF GeneratorStep, GenerateStart, GenerateEnd, QueueDigest
  <2>4. CASE GeneratorDies(g)
    BY <2>1, <2>4, BoundsAssumption DEF GeneratorDies
  <2> QED  BY <2>3, <2>4
<1>4. gen' \in [Generators -> [state : {"idle", "running", "done"}, todo : SUBSET Users,
                               broken : BOOLEAN]]
  <2> USE DEF DigestTypes
  <2>1. CASE GenerateStart(g)
    BY <2>1 DEF GenerateStart
  <2>2. CASE GenerateEnd(g)
    BY <2>2 DEF GenerateEnd
  <2>3. ASSUME NEW u \in Users, QueueDigest(g, u)
        PROVE  gen' \in [Generators -> [state : {"idle", "running", "done"}, todo : SUBSET Users,
                                        broken : BOOLEAN]]
    <3>1. \/ gen' = [gen EXCEPT ![g].todo = @ \ {u}]
          \/ gen' = [gen EXCEPT ![g].todo = @ \ {u}, ![g].broken = TRUE]
      BY <2>3 DEF QueueDigest
    <3> DEFINE G == [state : {"idle", "running", "done"}, todo : SUBSET Users, broken : BOOLEAN]
               x == [gen[g] EXCEPT !.todo = @ \ {u}]
               y == [gen[g] EXCEPT !.todo = @ \ {u}, !.broken = TRUE]
    <3>2. gen \in [Generators -> G] /\ x \in G /\ y \in G
      OBVIOUS
    <3>3. gen' = [gen EXCEPT ![g] = x] \/ gen' = [gen EXCEPT ![g] = y]
      BY <3>1
    <3> HIDE DEF G, x, y
    <3>4. gen' \in [Generators -> G]
      BY <3>2, <3>3
    <3> QED  BY <3>4 DEF G
  <2>4. CASE GeneratorDies(g)
    BY <2>4 DEF GeneratorDies, GenIdle
  <2> QED  BY <2>1, <2>2, <2>3, <2>4 DEF GeneratorStep
<1>5. DigestTypes' /\ RunsInOrder'
  BY <1>0, <1>1, <1>2, <1>4 DEF DigestTypes, RunsInOrder
<1> QED  BY <1>0, <1>1, <1>5

-----------------------------------------------------------------------------
(* Every digest that is queued has its cause. *)

\* Sums grow with their parts.
LEMMA SumGrows ==
  ASSUME NEW a \in Nat, NEW b \in Nat, NEW c \in Nat, NEW d \in Nat, a <= c, b <= d
  PROVE  a + b <= c + d /\ a + b \in Nat /\ c + d \in Nat
  OBVIOUS

\* What a run does to its own claims, and to what is queued.
LEMMA SenderPays ==
  ASSUME QueuedInv, NEW s \in Senders, SenderStep(s) \/ SenderDies(s)
  PROVE  QueuedWithCause'
<1>t. DigestTypes /\ RunsInOrder /\ DigestTypes'
  BY SenderTyped DEF QueuedInv
<1>r. /\ snd[s] \in RunStates /\ snd \in [Senders -> RunStates] /\ DOMAIN snd = Senders
      /\ queued \in [Users -> [Channels -> Nat]] /\ row \in [Users -> {"absent", "pending", "sent"}]
      /\ failures \in Nat /\ crashes \in Nat
  BY <1>t, BoundsAssumption DEF DigestTypes
<1>e. enabled' = enabled
  BY DEF SenderStep, SenderDies, SelectDue, BeginSend, QueueFor, QueueFails, FinishSend, EndRun
<1>a. \A r \in Senders \ {s} : snd'[r] = snd[r]
  BY <1>r DEF SenderStep, SenderDies, SelectDue, BeginSend, QueueFor, QueueFails, FinishSend, EndRun
<1>s. \A u \in Users : row[u] = "sent" => row'[u] = "sent"
  BY <1>r DEF SenderStep, SenderDies, SelectDue, BeginSend, QueueFor, QueueFails, FinishSend, EndRun
<1>o. \A u \in Users, ch \in Channels, r \in Senders \ {s} : MayQueue(r, u, ch)' => MayQueue(r, u, ch)
  BY <1>a, <1>s DEF MayQueue, Queueing
<1>i. /\ snd[s].state = "idle" => snd[s].batch = {}
      /\ snd[s].state = "queueing" =>
           /\ snd[s].user \in Users /\ snd[s].user \notin snd[s].batch
           /\ snd[s].left \subseteq enabled[snd[s].user]
           /\ (~snd[s].some /\ ~snd[s].broken) => snd[s].left = enabled[snd[s].user]
           /\ snd[s].broken => snd[s].left = {}
  BY <1>t DEF RunsInOrder
\* Steps that queue nothing and count nothing.
<1>free. ASSUME queued' = queued, failures' = failures, crashes' = crashes,
                \A u \in Users, ch \in Channels :
                  ch \in enabled[u] /\ MayQueue(s, u, ch)' => MayQueue(s, u, ch)
         PROVE  QueuedWithCause'
  <2>1. failures' + crashes' = failures + crashes + 0
    BY <1>r, <1>free
  <2> QED  BY <1>e, <1>o, <1>free, <2>1, ClaimsPay
\* Steps that count a failure or a crash and queue nothing.
<1>paid. ASSUME queued' = queued, failures' + crashes' = failures + crashes + 1
         PROVE  QueuedWithCause'
  BY <1>e, <1>o, <1>paid, ClaimsPay
<1>1. CASE SelectDue(s)
  <2>1. /\ snd'[s].state = "running" /\ snd'[s].batch = {u \in Users : row[u] = "pending"}
        /\ snd[s].state = "idle" /\ UNCHANGED <<row, queued, failures, crashes>>
    BY <1>1, <1>r DEF SelectDue, SndIdle
  <2>2. \A u \in Users, ch \in Channels : MayQueue(s, u, ch)' => MayQueue(s, u, ch)
    BY <2>1 DEF MayQueue, Queueing
  <2> QED  BY <1>free, <2>1, <2>2
<1>2. ASSUME NEW u \in Users, BeginSend(s, u)
      PROVE  QueuedWithCause'
  <2>1. /\ snd[s].state = "running" /\ u \in snd[s].batch
        /\ UNCHANGED <<row, queued, failures, crashes>>
    BY <1>2 DEF BeginSend
  <2>2. \/ /\ snd[s].broken /\ snd'[s].broken /\ snd'[s].state = "running"
           /\ snd'[s].batch = snd[s].batch \ {u}
        \/ /\ ~snd[s].broken /\ ~snd'[s].broken
           /\ snd'[s].state = "queueing" /\ snd'[s].user = u /\ snd'[s].left = enabled[u]
           /\ snd'[s].batch = snd[s].batch \ {u}
    BY <1>2, <1>r DEF BeginSend, RunStates
  <2>3. ASSUME NEW v \in Users, NEW ch \in Channels, MayQueue(s, v, ch)'
        PROVE  MayQueue(s, v, ch)
    BY <2>1, <2>2, <2>3 DEF MayQueue, Queueing
  <2> QED  BY <1>free, <2>1, <2>3
<1>3. ASSUME NEW ch \in Channels, QueueFor(s, ch)
      PROVE  QueuedWithCause'
  <2>0. PICK v \in Users : v = snd[s].user
    BY <1>3, <1>i DEF QueueFor
  <2>1. /\ snd[s].state = "queueing" /\ ch \in snd[s].left /\ ch \in enabled[v]
        /\ UNCHANGED <<row, failures, crashes>>
        /\ queued' = [queued EXCEPT ![v][ch] = @ + 1]
        /\ snd' = [snd EXCEPT ![s].left = @ \ {ch}, ![s].some = TRUE]
    BY <1>3, <1>i, <2>0 DEF QueueFor
  <2>2. /\ snd'[s].state = "queueing" /\ snd'[s].user = v /\ snd'[s].left = snd[s].left \ {ch}
        /\ snd'[s].batch = snd[s].batch /\ snd'[s].broken = snd[s].broken /\ v \notin snd[s].batch
    BY <1>i, <1>r, <2>0, <2>1 DEF RunStates
  <2>3. queued'[v][ch] = queued[v][ch] + 1
    BY <1>r, <2>1
  <2>4. \A u \in Users, c \in Channels : (u # v \/ c # ch) => queued'[u][c] = queued[u][c]
    BY <1>r, <2>1
  <2>5. MayQueue(s, v, ch) /\ ~MayQueue(s, v, ch)'
    BY <1>i, <2>0, <2>1, <2>2 DEF MayQueue, Queueing
  <2>6. ASSUME NEW u \in Users, NEW c \in Channels, MayQueue(s, u, c)'
        PROVE  MayQueue(s, u, c)
    BY <2>0, <2>1, <2>2, <2>6 DEF MayQueue, Queueing
  <2>7. failures' + crashes' = failures + crashes + 0
    BY <1>r, <2>1
  <2>8. \A u \in Users, c \in Channels :
          \/ queued'[u][c] = queued[u][c] /\ (MayQueue(s, u, c)' => MayQueue(s, u, c))
          \/ /\ queued'[u][c] = queued[u][c] + 1 /\ c \in enabled[u]
             /\ MayQueue(s, u, c) /\ ~MayQueue(s, u, c)'
    <3> SUFFICES ASSUME NEW u \in Users, NEW c \in Channels
                 PROVE  \/ queued'[u][c] = queued[u][c] /\ (MayQueue(s, u, c)' => MayQueue(s, u, c))
                        \/ /\ queued'[u][c] = queued[u][c] + 1 /\ c \in enabled[u]
                           /\ MayQueue(s, u, c) /\ ~MayQueue(s, u, c)'
      OBVIOUS
    <3>1. CASE u = v /\ c = ch
      BY <2>1, <2>3, <2>5, <3>1
    <3>2. CASE u # v \/ c # ch
      BY <2>4, <2>6, <3>2
    <3> QED  BY <3>1, <3>2
  <2> QED  BY <1>e, <1>o, <2>7, <2>8, ClaimsPay
<1>4. ASSUME NEW ch \in Channels, QueueFails(s, ch)
      PROVE  QueuedWithCause'
  <2> DEFINE v == snd[s].user
  <2>1. /\ snd[s].state = "queueing" /\ ch \in snd[s].left /\ v \in Users /\ ch \in enabled[v]
        /\ UNCHANGED <<row, crashes>> /\ failures' = failures + 1
        /\ queued' \in {queued, [queued EXCEPT ![v][ch] = @ + 1]}
    BY <1>4, <1>i DEF QueueFails, Fails
  <2>2. failures' + crashes' = failures + crashes + 1
    BY <1>r, <2>1
  <2>3. CASE queued' = queued
    BY <1>paid, <2>2, <2>3
  <2>4. CASE queued' = [queued EXCEPT ![v][ch] = @ + 1]
    <3>1. \A u \in Users, c \in Channels : (u # v \/ c # ch) => queued'[u][c] = queued[u][c]
      BY <1>r, <2>1, <2>4
    <3>2. queued'[v][ch] = queued[v][ch] + 1
      BY <1>r, <2>1, <2>4
    <3>3. MayQueue(s, v, ch)
      BY <1>i, <2>1 DEF MayQueue, Queueing
    <3>4. \A u \in Users, c \in Channels :
            \/ queued'[u][c] = queued[u][c]
            \/ queued'[u][c] = queued[u][c] + 1 /\ c \in enabled[u] /\ MayQueue(s, u, c)
      BY <2>1, <3>1, <3>2, <3>3
    <3> QED  BY <1>e, <1>o, <2>2, <3>4, ClaimsPay
  <2> QED  BY <2>1, <2>3, <2>4
<1>5. CASE FinishSend(s)
  <2> DEFINE v == snd[s].user
  <2>1. /\ snd[s].state = "queueing" /\ snd[s].left = {} /\ v \in Users
        /\ UNCHANGED <<queued, crashes>>
    BY <1>5, <1>i DEF FinishSend
  <2>2. /\ snd'[s].state = "running" /\ snd'[s].batch = snd[s].batch
        /\ snd'[s].broken = snd[s].broken \/ Fails
    BY <1>5, <1>r DEF FinishSend, RunStates
  <2>3. CASE Fails
    <3>1. failures' + crashes' = failures + crashes + 1
      BY <1>r, <2>1, <2>3 DEF Fails
    <3> QED  BY <1>paid, <2>1, <3>1
  <2>4. CASE ~Fails
    <3>1. failures' = failures /\ snd'[s].broken = snd[s].broken
      BY <1>5, <2>2, <2>4 DEF FinishSend, Works
    <3>2. ASSUME NEW u \in Users, NEW ch \in enabled[u], MayQueue(s, u, ch)'
          PROVE  MayQueue(s, u, ch)
      <4>1. CASE u \in snd[s].batch /\ ~snd[s].broken
        BY <4>1 DEF MayQueue
      <4>2. CASE ~ (u \in snd[s].batch /\ ~snd[s].broken)
        <5>1. row'[u] # "sent"
          BY <2>2, <3>1, <3>2, <4>2 DEF MayQueue, Queueing
        <5>2. ~Queueing(s, u)
          <6> SUFFICES ASSUME Queueing(s, u) PROVE FALSE
            OBVIOUS
          <6>1. v = u /\ ~snd[s].broken
            BY DEF Queueing
          <6>2. snd[s].some
            BY <1>i, <2>1, <6>1
          <6>3. row' = [row EXCEPT ![u] = "sent"]
            BY <1>5, <2>4, <6>1, <6>2 DEF FinishSend
          <6> QED  BY <1>r, <5>1, <6>3
        <5> QED  BY <1>s, <5>1, <5>2 DEF MayQueue
      <4> QED  BY <4>1, <4>2
    <3> QED  BY <1>free, <2>1, <3>1, <3>2
  <2> QED  BY <2>3, <2>4
<1>6. CASE EndRun(s)
  <2>1. /\ snd[s].state = "running" /\ snd[s].batch = {} /\ UNCHANGED <<row, queued, failures, crashes>>
        /\ snd'[s].state = "idle" /\ snd'[s].batch = {}
    BY <1>6, <1>r DEF EndRun, RunStates
  <2>2. \A u \in Users, ch \in Channels : MayQueue(s, u, ch)' => MayQueue(s, u, ch)
    BY <2>1 DEF MayQueue, Queueing
  <2> QED  BY <1>free, <2>1, <2>2
<1>7. CASE SenderDies(s)
  <2>1. queued' = queued /\ failures' + crashes' = failures + crashes + 1
    BY <1>7, <1>r DEF SenderDies
  <2> QED  BY <1>paid, <2>1
<1> QED  BY <1>1, <1>2, <1>3, <1>4, <1>5, <1>6, <1>7 DEF SenderStep

\* Together: the invariant is inductive.
LEMMA StepKeepsQueuedInv == QueuedInv /\ [Next]_vars => QueuedInv'
<1> SUFFICES ASSUME QueuedInv, [Next]_vars PROVE QueuedInv'
  OBVIOUS
<1>1. ASSUME NEW g \in Generators, GeneratorStep(g) \/ GeneratorDies(g)
      PROVE  QueuedInv'
  <2>1. DigestTypes' /\ RunsInOrder' /\ UNCHANGED <<enabled, queued, snd>>
    BY <1>1, GeneratorTyped DEF QueuedInv
  <2>2. \A u \in Users, ch \in Channels, s \in Senders : MayQueue(s, u, ch)' => MayQueue(s, u, ch)
    BY <1>1, <2>1, GeneratorTyped DEF QueuedInv, MayQueue, Queueing
  <2>3. /\ failures + crashes <= failures' + crashes'
        /\ failures + crashes \in Nat /\ failures' + crashes' \in Nat
    <3>1. failures' \in {failures, failures + 1} /\ crashes' \in {crashes, crashes + 1}
      BY <1>1 DEF GeneratorStep, GeneratorDies, GenerateStart, GenerateEnd, QueueDigest, Fails, Works
    <3>2. failures \in Nat /\ crashes \in Nat
      BY BoundsAssumption DEF QueuedInv, DigestTypes
    <3>3. failures <= failures' /\ failures' \in Nat
      BY <3>1, <3>2
    <3>4. crashes <= crashes' /\ crashes' \in Nat
      BY <3>1, <3>2
    <3> QED  BY <3>2, <3>3, <3>4, SumGrows
  <2>4. QueuedWithCause'
    <3> SUFFICES ASSUME NEW u \in Users, NEW ch \in Channels, ch \in enabled[u]
                 PROVE  queued[u][ch] + Cardinality(Claims(u, ch)')
                          <= failures' + crashes' + Cardinality(Senders)
      BY <2>1 DEF QueuedWithCause, QueuedInv
    <3> DEFINE A == Claims(u, ch)
               B == Claims(u, ch)'
    <3>1. B \subseteq A /\ A \subseteq Senders
      BY <2>2 DEF Claims
    <3>2. /\ queued[u][ch] \in Nat
          /\ queued[u][ch] + Cardinality(A) <= failures + crashes + Cardinality(Senders)
      BY DEF QueuedInv, DigestTypes, QueuedWithCause
    <3> HIDE DEF A, B
    <3>3. /\ Cardinality(A) \in Nat /\ Cardinality(B) \in Nat /\ Cardinality(Senders) \in Nat
          /\ Cardinality(B) <= Cardinality(A)
      <4>1. IsFiniteSet(A) /\ Cardinality(Senders) \in Nat
        BY <3>1, SendersAssumption, FS_Subset, FS_CardinalityType
      <4> QED  BY <3>1, <4>1, FS_Subset, FS_CardinalityType
    <3>4. queued[u][ch] + Cardinality(B) <= failures' + crashes' + Cardinality(Senders)
      <4> DEFINE f == failures + crashes
                 k == failures' + crashes'
                 q == queued[u][ch]
      <4>1. f <= k /\ f \in Nat /\ k \in Nat
        BY <2>3
      <4>2. q \in Nat /\ q + Cardinality(A) <= f + Cardinality(Senders)
        BY <3>2
      <4> HIDE DEF f, k, q
      <4>3. q + Cardinality(B) <= k + Cardinality(Senders)
        BY <3>3, <4>1, <4>2
      <4> QED  BY <4>3 DEF f, k, q
    <3> QED  BY <3>4 DEF B
  <2> QED  BY <2>1, <2>4 DEF QueuedInv
<1>2. ASSUME NEW s \in Senders, SenderStep(s) \/ SenderDies(s)
      PROVE  QueuedInv'
  BY <1>2, SenderTyped, SenderPays DEF QueuedInv
<1>3. CASE UNCHANGED vars
  <2>1. DigestTypes' /\ RunsInOrder'
    BY <1>3 DEF vars, QueuedInv, DigestTypes, RunsInOrder
  <2>2. \A u, ch : Claims(u, ch)' = Claims(u, ch)
    BY <1>3 DEF vars, Claims, MayQueue, Queueing
  <2>3. QueuedWithCause'
    BY <1>3, <2>2 DEF vars, QueuedInv, QueuedWithCause
  <2> QED  BY <2>1, <2>3 DEF QueuedInv
<1> QED  BY <1>1, <1>2, <1>3 DEF Next

\* At the start nothing is queued and every run may queue everything once.
LEMMA InitQueuedInv == Init => QueuedInv
<1> SUFFICES ASSUME Init PROVE QueuedInv
  OBVIOUS
<1>1. DigestTypes
  BY BoundsAssumption DEF Init, DigestTypes, GenIdle, SndIdle, RunStates
<1>2. RunsInOrder
  BY DEF Init, RunsInOrder, SndIdle
<1>3. QueuedWithCause
  <2> SUFFICES ASSUME NEW u \in Users, NEW ch \in Channels
               PROVE  0 + Cardinality(Claims(u, ch)) <= 0 + 0 + Cardinality(Senders)
    BY DEF Init, QueuedWithCause
  <2>1. Claims(u, ch) \subseteq Senders
    BY DEF Claims
  <2>2. /\ Cardinality(Claims(u, ch)) \in Nat /\ Cardinality(Senders) \in Nat
        /\ Cardinality(Claims(u, ch)) <= Cardinality(Senders)
    BY <2>1, SendersAssumption, FS_Subset, FS_CardinalityType
  <2> QED  BY <2>2
<1> QED  BY <1>1, <1>2, <1>3 DEF QueuedInv

\* send_digest: however many runs overlap, a channel gets the digest of a user at
\* most once for each run, for each statement that failed and for each process
\* that died; and everything has its type.
THEOREM TypeCorrect == Spec => []TypeOK
<1>1. QueuedInv => TypeOK
  <2> SUFFICES ASSUME QueuedInv PROVE TypeOK
    OBVIOUS
  <2>1. DigestTypes
    BY DEF QueuedInv
  <2>2. failures \in Nat /\ crashes \in Nat /\ Cardinality(Senders) \in Nat
    BY <2>1, BoundsAssumption, SendersAssumption, FS_CardinalityType DEF DigestTypes
  <2>3. ASSUME NEW u \in Users, NEW ch \in Channels
        PROVE  queued[u][ch] \in 0..(failures + crashes + Cardinality(Senders))
    <3>1. queued[u][ch] \in Nat
      BY <2>1 DEF DigestTypes
    <3>2. CASE ch \notin enabled[u]
      BY <2>2, <3>2 DEF QueuedInv, QueuedWithCause
    <3>3. CASE ch \in enabled[u]
      <4>1. Cardinality(Claims(u, ch)) \in Nat
        <5>1. Claims(u, ch) \subseteq Senders
          BY DEF Claims
        <5> QED  BY <5>1, SendersAssumption, FS_Subset, FS_CardinalityType
      <4>2. queued[u][ch] + Cardinality(Claims(u, ch))
              <= failures + crashes + Cardinality(Senders)
        BY <3>3 DEF QueuedInv, QueuedWithCause
      <4> QED  BY <2>2, <3>1, <4>1, <4>2
    <3> QED  BY <3>2, <3>3
  <2>4. queued \in [Users -> [Channels -> 0..(failures + crashes + Cardinality(Senders))]]
    BY <2>1, <2>3 DEF DigestTypes
  <2> QED  BY <2>1, <2>4 DEF DigestTypes, RunStates, TypeOK
<1> QED  BY <1>1, InitQueuedInv, StepKeepsQueuedInv, PTL DEF Spec
=============================================================================
