--------------------------- MODULE DeliveryContract ---------------------------
(***************************************************************************)
(* What the notification queue promises to those who queue notifications,  *)
(* whatever tables and tasks implement it: a notification waits, is        *)
(* attempted at most MaxAttempts times, one attempt at a time, reaches the *)
(* recipient once at most in each attempt, and is never attempted again    *)
(* once it is known to be delivered.  An attempt may be lost for ever.     *)
(***************************************************************************)
EXTENDS Naturals

CONSTANTS Rows,        \* the notifications
          MaxAttempts  \* attempts a notification is given

VARIABLES phase,   \* [Rows -> "absent", "waiting", "attempting", "delivered"]
          begun,   \* [Rows -> attempts begun so far]
          arrived  \* [Rows -> times the recipient has got it]

contract == <<phase, begun, arrived>>

ContractInit ==
  /\ phase = [n \in Rows |-> "absent"]
  /\ begun = [n \in Rows |-> 0]
  /\ arrived = [n \in Rows |-> 0]

Accept(n) ==
  /\ phase[n] = "absent"
  /\ phase' = [phase EXCEPT ![n] = "waiting"]
  /\ UNCHANGED <<begun, arrived>>

BeginAttempt(n) ==
  /\ phase[n] = "waiting"
  /\ begun[n] < MaxAttempts
  /\ phase' = [phase EXCEPT ![n] = "attempting"]
  /\ begun' = [begun EXCEPT ![n] = @ + 1]
  /\ UNCHANGED arrived

Arrive(n) ==
  /\ phase[n] = "attempting"
  /\ arrived[n] < begun[n]
  /\ arrived' = [arrived EXCEPT ![n] = @ + 1]
  /\ UNCHANGED <<phase, begun>>

\* Only what has arrived is delivered.
EndAttempt(n, delivered) ==
  /\ phase[n] = "attempting"
  /\ delivered => arrived[n] > 0
  /\ phase' = [phase EXCEPT ![n] = IF delivered THEN "delivered" ELSE "waiting"]
  /\ UNCHANGED <<begun, arrived>>

\* The failure of one attempt may be recorded as the next one begins.
GoOn(n, next) ==
  /\ phase[n] = "attempting"
  /\ phase[next] = "waiting"
  /\ begun[next] < MaxAttempts
  /\ phase' = [phase EXCEPT ![n] = "waiting", ![next] = "attempting"]
  /\ begun' = [begun EXCEPT ![next] = @ + 1]
  /\ UNCHANGED arrived

ContractNext ==
  \E n \in Rows : \/ Accept(n)
                  \/ BeginAttempt(n)
                  \/ Arrive(n)
                  \/ \E delivered \in BOOLEAN : EndAttempt(n, delivered)
                  \/ \E next \in Rows : GoOn(n, next)

ContractSpec == ContractInit /\ [][ContractNext]_contract
=============================================================================
