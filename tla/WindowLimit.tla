----------------------------- MODULE WindowLimit -----------------------------
(***************************************************************************)
(* What a sliding-window rate limiter promises: a request passes exactly   *)
(* if fewer than the limit passed in the window that ends with it.         *)
(***************************************************************************)
EXTENDS Naturals, Sequences, FiniteSets

CONSTANTS Keys,    \* what is limited separately
          LimitOf, \* [Keys -> requests that may pass in a window]
          Window

VARIABLES clock,
          passed,  \* [Keys -> times of the requests that passed]
          verdict  \* on the last request: "none", "pass" or "refuse"

vars == <<clock, passed, verdict>>

InWindow(k) == Cardinality({i \in DOMAIN passed[k] : clock < passed[k][i] + Window})

Init ==
  /\ clock = 0
  /\ passed = [k \in Keys |-> <<>>]
  /\ verdict = "none"

Pass(k) ==
  /\ InWindow(k) < LimitOf[k]
  /\ passed' = [passed EXCEPT ![k] = Append(@, clock)]
  /\ verdict' = "pass"
  /\ UNCHANGED clock

Refuse(k) ==
  /\ InWindow(k) >= LimitOf[k]
  /\ verdict' = "refuse"
  /\ UNCHANGED <<clock, passed>>

\* The past of some keys is forgiven on purpose.
Forgive(S) ==
  /\ passed' = [k \in Keys |-> IF k \in S THEN <<>> ELSE passed[k]]
  /\ UNCHANGED <<clock, verdict>>

Tick ==
  /\ clock' = clock + 1
  /\ UNCHANGED <<passed, verdict>>

Next ==
  \/ Tick
  \/ \E k \in Keys : Pass(k) \/ Refuse(k)
  \/ \E S \in SUBSET Keys : Forgive(S)

Spec == Init /\ [][Next]_vars
=============================================================================
