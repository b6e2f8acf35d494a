-------------------------- MODULE RequestLifecycle --------------------------
(***************************************************************************)
(* What a request leaves behind.  A route handler is a list of steps, some *)
(* before and some inside its try; an exception of a step is answered by   *)
(* its except clauses.  get_db ends the session: it rolls back before an   *)
(* error is answered, but commits only after any other answer was sent     *)
(* (FastAPI 0.104 leaves dependencies after the response).  A task that    *)
(* the handler sends to Celery may start at any time from then on; it is   *)
(* about a row of the handler's session, or about one the client names.    *)
(***************************************************************************)
EXTENDS Naturals, Sequences

CONSTANT Routes  \* the handlers

Statuses == {"400", "401", "403", "404", "409", "429", "500", "504"}
Raised == Statuses \cup {"value", "timeout", "error"}

\* What a step does when it succeeds, what it may raise, whether it can succeed
\* at all, and where the handler goes on when its exception is caught and
\* logged: so many steps further, or nowhere.
Step == [does : {"look", "change", "commit", "outside", "enqueue", "ask", "wait", "return"},
         raises : SUBSET Raised, works : BOOLEAN, skips : Nat]

Does(what, exceptions) == [does |-> what, raises |-> exceptions, works |-> TRUE, skips |-> 0]

Needs(status) == Does("look", {status})            \* or raises HTTPException(status)
Access == Needs("403")                             \* validate_workspace_access
Validate == Does("look", {"value"})                \* or raises ValueError
Query == Does("look", {"error"})                   \* any number of reads
Find == Does("look", {"error", "404"})
InTime == Does("look", {"error", "timeout"})       \* asyncio.wait_for
Add == Does("change", {})                          \* seen by the database with the commit
Change == Does("change", {"error"})
Save == Does("commit", {"error"})
Refresh == Query                                   \* of an object that was just committed
Outside == Does("outside", {"error"})              \* no rollback undoes it
Enqueue == Does("enqueue", {"error"})              \* delay() for a row of this session
Ask == Does("ask", {"error"})                      \* delay() for a row the client names
Wait == Does("wait", {"error"})                    \* get(): its exception, or too late
MayReturn == Does("return", {})                    \* the answer may be complete here
Fails == [Query EXCEPT !.works = FALSE]            \* raises whatever happens
TryAll(steps) == [i \in DOMAIN steps |-> [steps[i] EXCEPT !.skips = Len(steps) + 1 - i]]
Try(step) == [step EXCEPT !.skips = 1]
Delete == <<Change, Save>>
Create == <<Add, Save, Refresh>>

\* "except HTTPException: raise" before "except Exception", or no try at all.
AsRaised == [e \in Raised |-> IF e \in Statuses THEN e ELSE "500"]
\* "except Exception" alone: it also catches the handler's own HTTPException.
Masked == [e \in Raised |-> "500"]
Value(status, clauses) == [clauses EXCEPT !["value"] = status]
Timeout(clauses) == [clauses EXCEPT !["timeout"] = "504"]

Route == [bare : Seq(Step), tried : Seq(Step), answers : [Raised -> Statuses]]
Bare(steps) == [bare |-> steps, tried |-> <<>>, answers |-> AsRaised]
Tries(steps, clauses) == [bare |-> <<>>, tried |-> steps, answers |-> clauses]
Passes(steps) == Tries(steps, AsRaised)

ASSUME RoutesAssumption == \A r \in Routes : r \in Route

VARIABLES
  route,    \* the handler of the request
  at,       \* its next step
  pending,  \* the session holds changes that are not committed
  stored,   \* changes are committed
  lost,     \* changes were rolled back
  outside,  \* something was done that no rollback undoes
  raised,   \* the exception on its way
  answer,   \* the status the client gets
  over,     \* get_db has ended the session
  task      \* the task it sent: "none", "sent" or "asked", then whether it found its row

requestVars == <<route, at, pending, stored, lost, outside, raised, answer, over, task>>

RequestInit ==
  /\ route \in Routes
  /\ at = 1
  /\ pending = FALSE /\ stored = FALSE /\ lost = FALSE /\ outside = FALSE
  /\ raised = "none" /\ answer = "none" /\ over = FALSE /\ task = "none"

StepsOf(r) == r.bare \o r.tried
AllSteps == StepsOf(route)
Current == AllSteps[at]
Running == answer = "none" /\ raised = "none" /\ at <= Len(AllSteps)

TaskAfter == CASE task = "none" /\ Current.does = "enqueue" -> "sent"
               [] task = "none" /\ Current.does = "ask" -> "asked"
               [] OTHER -> task

-----------------------------------------------------------------------------
\* Mutant: the handler goes on whatever became of its task.
WorksUnanswered == Current.works
Works == Current.works /\ (Current.does = "wait" => task = "found")

\* Mutant: commit() is not awaited, so that nothing is committed yet.
SucceedWithoutAwait ==
  /\ Running /\ Works
  /\ at' \in IF Current.does = "return" THEN {at + 1, Len(AllSteps) + 1} ELSE {at + 1}
  /\ pending' = (pending \/ Current.does = "change")
  /\ outside' = (outside \/ Current.does \in {"outside", "enqueue", "ask"})
  /\ task' = TaskAfter
  /\ UNCHANGED <<route, stored, lost, raised, answer, over>>

Succeed ==
  /\ Running /\ Works
  /\ at' \in IF Current.does = "return" THEN {at + 1, Len(AllSteps) + 1} ELSE {at + 1}
  /\ pending' = CASE Current.does = "change" -> TRUE
                   [] Current.does = "commit" -> FALSE
                   [] OTHER -> pending
  /\ stored' = (stored \/ (Current.does = "commit" /\ pending))
  /\ outside' = (outside \/ Current.does \in {"outside", "enqueue", "ask"})
  /\ task' = TaskAfter
  /\ UNCHANGED <<route, lost, raised, answer, over>>

\* A commit that fails has rolled back; one that a timeout interrupts may
\* have reached the database.
Raise ==
  /\ Running
  /\ \E e \in Current.raises :
       /\ \/ Current.skips > 0 /\ at' = at + Current.skips /\ UNCHANGED raised
          \/ Current.skips = 0 /\ raised' = e /\ UNCHANGED at
       /\ IF Current.does = "commit" /\ pending
          THEN /\ pending' = FALSE
               /\ \/ lost' = TRUE /\ UNCHANGED stored
                  \/ e = "timeout" /\ stored' = TRUE /\ UNCHANGED lost
          ELSE UNCHANGED <<pending, lost, stored>>
  /\ UNCHANGED <<route, outside, answer, over, task>>

\* Mutant: what comes before the try is put into it.
ClausesOfTry == route.answers
Clauses == IF at <= Len(route.bare) THEN AsRaised ELSE route.answers

\* Mutant: get_db commits in its finally clause.
AnswerErrorAndCommit ==
  /\ answer = "none" /\ raised # "none"
  /\ answer' = Clauses[raised]
  /\ stored' = (stored \/ pending)
  /\ pending' = FALSE /\ over' = TRUE
  /\ UNCHANGED <<route, at, lost, outside, raised, task>>

\* The exception passes get_db, which rolls back, on its way to the client.
AnswerError ==
  /\ answer = "none" /\ raised # "none"
  /\ answer' = Clauses[raised]
  /\ lost' = (lost \/ pending)
  /\ pending' = FALSE /\ over' = TRUE
  /\ UNCHANGED <<route, at, stored, outside, raised, task>>

AnswerOk ==
  /\ answer = "none" /\ raised = "none" /\ at > Len(AllSteps)
  /\ answer' = "200"
  /\ UNCHANGED <<route, at, pending, stored, lost, outside, raised, over, task>>

\* After the response: the commit of get_db, which may fail.
EndSession ==
  /\ answer = "200" /\ ~over
  /\ over' = TRUE
  /\ \/ stored' = (stored \/ pending) /\ UNCHANGED lost
     \/ lost' = (lost \/ pending) /\ UNCHANGED stored
  /\ pending' = FALSE
  /\ UNCHANGED <<route, at, outside, raised, answer, task>>

\* A worker takes the task and looks its row up; there may be none of the id
\* that a client names.
StartTask ==
  /\ \/ task = "sent" /\ task' = IF stored THEN "found" ELSE "not found"
     \/ task = "asked" /\ task' \in {"found", "not found"}
  /\ UNCHANGED <<route, at, pending, stored, lost, outside, raised, answer, over>>

RequestNext == Succeed \/ Raise \/ AnswerError \/ AnswerOk \/ EndSession \/ StartTask

RequestSpec == RequestInit /\ [][RequestNext]_requestVars

-----------------------------------------------------------------------------
(* Rules for the order of the steps of a handler.                          *)

\* From step i no way leads past step c.
NoWayAround(r, i, c) ==
  \A j \in i..(c - 1) : StepsOf(r)[j].does # "return" /\ j + StepsOf(r)[j].skips <= c

\* No request gets to step i: a step before it always raises.
Unreached(r, i) ==
  \E c \in 1..(i - 1) : ~StepsOf(r)[c].works /\ StepsOf(r)[c].skips = 0 /\ NoWayAround(r, 1, c)

\* What no rollback undoes.
Lasting == {"outside", "enqueue", "ask", "commit"}

\* Nothing that is answered with an error comes after what lasts.
ActsLast(r) ==
  /\ \A i, j \in DOMAIN StepsOf(r) :
       (i < j /\ StepsOf(r)[i].does \in Lasting /\ ~Unreached(r, i))
         => StepsOf(r)[j].raises = {} \/ StepsOf(r)[j].skips > 0
  /\ \A i \in DOMAIN StepsOf(r) :
       (StepsOf(r)[i].does = "commit" /\ StepsOf(r)[i].skips = 0)
         => "timeout" \notin StepsOf(r)[i].raises

\* The change of step i cannot get past step c, whose commit is the next one and
\* whose exceptions are not caught.
HeldUntil(r, i, c) ==
  /\ i < c /\ StepsOf(r)[c].skips = 0 /\ NoWayAround(r, i, c)
  /\ StepsOf(r)[c].does = "commit" \/ ~StepsOf(r)[c].works
  /\ \A j \in i..(c - 1) : StepsOf(r)[j].does # "commit"

\* No change is left to get_db.
SavesItsChanges(r) ==
  \A i \in DOMAIN StepsOf(r) :
    StepsOf(r)[i].does = "change" => \E c \in DOMAIN StepsOf(r) : HeldUntil(r, i, c)

\* The except clauses do not change the status of an HTTPException.
KeepsStatuses(r) ==
  \A i \in DOMAIN r.tried : \A e \in r.tried[i].raises \cap Statuses :
    r.tried[i].skips = 0 => r.answers[e] = e

\* Step c commits what step a has changed, and nothing is skipped on the way.
Saves(r, a, c) ==
  /\ a < c /\ StepsOf(r)[a].does = "change" /\ StepsOf(r)[c].does = "commit"
  /\ \A j \in 1..c : StepsOf(r)[j].skips = 0

\* A task is sent after a change was committed.
SendsAfterSave(r) ==
  \A e \in DOMAIN StepsOf(r) :
    StepsOf(r)[e].does = "enqueue" => \E a, c \in 1..(e - 1) : Saves(r, a, c)

\* The handler sends a task about a row that the client names.
Asks(r) == \E e \in DOMAIN StepsOf(r) : StepsOf(r)[e].does = "ask"

\* Such a task is waited for on every way through the handler.
AwaitsItsTask(r) ==
  Asks(r) =>
    \E c \in DOMAIN StepsOf(r) :
      StepsOf(r)[c].does = "wait" /\ StepsOf(r)[c].skips = 0 /\ NoWayAround(r, 1, c)

-----------------------------------------------------------------------------
RequestTypeOK ==
  /\ route \in Routes
  /\ at \in Nat
  /\ {pending, stored, lost, outside, over} \subseteq BOOLEAN
  /\ raised \in Raised \cup {"none"} /\ answer \in Statuses \cup {"none", "200"}
  /\ task \in {"none", "sent", "asked", "found", "not found"}
=============================================================================
