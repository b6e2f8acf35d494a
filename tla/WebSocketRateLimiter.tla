------------------------- MODULE WebSocketRateLimiter -------------------------
(***************************************************************************)
(* WebSocketRateLimiter, the in-memory limiter of WebSocket messages.  It  *)
(* never awaits, so each call is one step.  Time is monotonic here.        *)
(***************************************************************************)
EXTENDS Naturals, Sequences, FiniteSets

CONSTANTS Users,
          Actions,   \* message types
          Limits,    \* [Actions -> WS_RATE_LIMITS]
          Period,    \* 60 seconds
          MaxTicks,  \* bound: the clock stops here
          MaxResets  \* bound: calls of reset_user_limits

ASSUME LimitsAssumption == Limits \in [Actions -> Nat \ {0}]
ASSUME PeriodAssumption == Period \in Nat \ {0}

VARIABLES clock,
          users,    \* the keys of action_counts
          log,      \* [Users -> [Actions -> times in action_counts, oldest first]]
          resets,
          passed,   \* for the properties: the times of all requests let through
          verdict   \* for the properties: the answer to the last request

limiterVars == <<clock, users, log, resets, passed, verdict>>

LimitedKeys == Users \X Actions

\* The lists stay within the limits, so they cost bounded memory for each user.
LimiterTypeOK ==
  /\ clock \in Nat
  /\ users \subseteq Users
  /\ log \in [Users -> [Actions -> Seq(0..clock)]]
  /\ \A u \in Users, a \in Actions : Len(log[u][a]) <= Limits[a]
  /\ resets \in Nat
  /\ passed \in [LimitedKeys -> Seq(0..clock)]
  /\ verdict \in {"none", "pass", "refuse"}

LimiterInit ==
  /\ clock = 0
  /\ users = {}
  /\ log = [u \in Users |-> [a \in Actions |-> <<>>]]
  /\ resets = 0
  /\ passed = [k \in LimitedKeys |-> <<>>]
  /\ verdict = "none"

-----------------------------------------------------------------------------
\* The list comprehension: the entries of s that are younger than a period at t.
RecentAt(t, s) ==
  LET kept[i \in 0..Len(s)] ==
        IF i = 0 THEN <<>>
        ELSE IF t < s[i] + Period THEN Append(kept[i - 1], s[i]) ELSE kept[i - 1]
  IN kept[Len(s)]

Recent(s) == RecentAt(clock, s)

\* Mutant: a refused request is counted as well.
CheckCountsRefused(u, a) ==
  LET recent == Recent(log[u][a]) IN
  /\ users' = users \cup {u}
  /\ log' = [log EXCEPT ![u][a] = Append(recent, clock)]
  /\ IF Len(recent) >= Limits[a]
     THEN verdict' = "refuse" /\ UNCHANGED passed
     ELSE verdict' = "pass" /\ passed' = [passed EXCEPT ![<<u, a>>] = Append(@, clock)]
  /\ UNCHANGED <<clock, resets>>

\* check_rate_limit
Check(u, a) ==
  LET recent == Recent(log[u][a]) IN
  /\ users' = users \cup {u}
  /\ \/ /\ Len(recent) >= Limits[a]
        /\ log' = [log EXCEPT ![u][a] = recent]
        /\ verdict' = "refuse"
        /\ UNCHANGED passed
     \/ /\ Len(recent) < Limits[a]
        /\ log' = [log EXCEPT ![u][a] = Append(recent, clock)]
        /\ verdict' = "pass"
        /\ passed' = [passed EXCEPT ![<<u, a>>] = Append(@, clock)]
  /\ UNCHANGED <<clock, resets>>

\* get_remaining_quota, which also drops old entries.
Quota(u, a) ==
  /\ u \in users
  /\ log' = [log EXCEPT ![u][a] = Recent(@)]
  /\ UNCHANGED <<clock, users, resets, passed, verdict>>

\* reset_user_limits
Reset(u) ==
  /\ u \in users
  /\ resets < MaxResets
  /\ resets' = resets + 1
  /\ users' = users \ {u}
  /\ log' = [log EXCEPT ![u] = [a \in Actions |-> <<>>]]
  /\ passed' = [k \in LimitedKeys |-> IF k[1] = u THEN <<>> ELSE passed[k]]
  /\ UNCHANGED <<clock, verdict>>

\* Mutant: a user is dropped when any of the lists is empty.
CleanupDropsBusy ==
  LET recent == [u \in Users |-> [a \in Actions |-> Recent(log[u][a])]]
      idle == {u \in users : \E a \in Actions : recent[u][a] = <<>>}
  IN
  /\ users' = users \ idle
  /\ log' = [u \in Users |-> IF u \in idle THEN [a \in Actions |-> <<>>] ELSE recent[u]]
  /\ UNCHANGED <<clock, resets, passed, verdict>>

\* cleanup_old_entries: users without a recent entry are dropped.
Cleanup ==
  LET recent == [u \in Users |-> [a \in Actions |-> Recent(log[u][a])]]
      idle == {u \in users : \A a \in Actions : recent[u][a] = <<>>}
  IN
  /\ users' = users \ idle
  /\ log' = recent
  /\ UNCHANGED <<clock, resets, passed, verdict>>

LimiterTick ==
  /\ clock < MaxTicks
  /\ clock' = clock + 1
  /\ UNCHANGED <<users, log, resets, passed, verdict>>

LimiterNext ==
  \/ LimiterTick
  \/ Cleanup
  \/ \E u \in Users : \/ Reset(u)
                      \/ \E a \in Actions : Check(u, a) \/ Quota(u, a)

LimiterSpec == LimiterInit /\ [][LimiterNext]_limiterVars

-----------------------------------------------------------------------------
(* Properties. *)

W == INSTANCE WindowLimit WITH Keys <- LimitedKeys,
                               LimitOf <- [k \in LimitedKeys |-> Limits[k[2]]],
                               Window <- Period

\* The limiter is an exact sliding window for each user and message type: what
\* the checks, the quota queries and the clean-up throw away never counted any
\* more, and nothing that counts is ever thrown away except by a reset.
KeepsLimit == W!Spec
=============================================================================
