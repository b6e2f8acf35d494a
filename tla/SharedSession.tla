--------------------------- MODULE SharedSession ---------------------------
(***************************************************************************)
(* One request and its AsyncSession.  A service answers with several parts,*)
(* each a few SQL statements: some awaited one by one, the others started  *)
(* together by asyncio.gather on the one session of the request.           *)
(*                                                                         *)
(* What the libraries do with that (SQLAlchemy 2.0, asyncpg), in short: a  *)
(* session gets its connection with its first statement; a statement that  *)
(* meets a session still waiting for a connection is refused; on an open   *)
(* connection the statements of all tasks run one at a time, in the order  *)
(* of an asyncio.Lock; after an error of the database the transaction      *)
(* refuses every statement until a rollback.                               *)
(***************************************************************************)
EXTENDS Naturals, Sequences, FiniteSets

CONSTANT Services  \* the services: for each its parts and how it awaits them

\* A part runs from "least" to "most" statements (it may return early).  It
\* answers with a default when it "catches" the exception, of a statement or
\* of what it does with the rows, and passes on any other.  It may end with a
\* commit, and roll back when it fails.
Part == [least : Nat, most : Nat, catches : SUBSET {"statement", "data"},
         commits : BOOLEAN, rollsBack : BOOLEAN]

\* The first "alone" parts are awaited one by one, the rest gathered; "waits":
\* gather returns exceptions as results, so it ends with the last task and not
\* with the first exception; an exception of a "critical" part fails the answer.
Service == [parts : Seq(Part), alone : Nat, waits : BOOLEAN, critical : SUBSET Nat]

ASSUME ServicesAssumption ==
  \A s \in DOMAIN Services :
    /\ Services[s] \in Service
    /\ \A i \in DOMAIN Services[s].parts : Services[s].parts[i].least <= Services[s].parts[i].most

\* What a gathering service awaits and gathers only reads: its session has one
\* transaction, which none of its parts ends.
Gathering(s) == Services[s].alone < Len(Services[s].parts)
ASSUME GatheringAssumption ==
  \A s \in DOMAIN Services : Gathering(s) =>
    \A i \in DOMAIN Services[s].parts :
      ~Services[s].parts[i].commits /\ ~Services[s].parts[i].rollsBack

\* Handlers that roll back: every one of a service, or only the last, which
\* stores what the others computed and is awaited alone.
ASSUME RollbackAssumption ==
  \A s \in DOMAIN Services :
    LET parts == Services[s].parts
    IN  \/ \A i \in DOMAIN parts : parts[i].rollsBack
        \/ \A i \in DOMAIN parts : parts[i].rollsBack => i = Len(parts) /\ i <= Services[s].alone

VARIABLES
  service,  \* the service that is asked
  part,     \* how far each of its parts is
  conn,     \* the connection of the session
  broken,   \* the transaction refuses statements
  queue,    \* parts with a statement under way (the first) or waiting
  outcome,  \* what the service did
  closed    \* get_db has ended the session

sessionVars == <<service, part, conn, broken, queue, outcome, closed>>

Parts == DOMAIN part
Def(i) == Services[service].parts[i]
Alone(i) == i <= Services[service].alone
Waits == Services[service].waits
Ended(i) == part[i].at \in {"real", "default", "raised"}

SessionInit ==
  /\ service \in DOMAIN Services
  /\ part = [i \in DOMAIN Services[service].parts |->
               [at |-> "waiting", done |-> 0, cause |-> "none"]]
  /\ conn = "none" /\ broken = FALSE /\ queue = <<>>
  /\ outcome = "none" /\ closed = FALSE

-----------------------------------------------------------------------------
Kind(why) == IF why = "data" THEN "data" ELSE "statement"
Failed(i, why) ==
  [part EXCEPT ![i] = [at |-> IF Kind(why) \in Def(i).catches THEN "default" ELSE "raised",
                       done |-> 0, cause |-> why]]

CanBegin(i) ==
  /\ outcome = "none" /\ part[i].at = "waiting"
  /\ \A j \in Parts : j < i =>
       IF Alone(j) THEN Ended(j) /\ part[j].at # "raised" ELSE part[j].at # "waiting"

\* Mutant: a statement is refused while any other is under way.
BeginAlone(i) ==
  /\ CanBegin(i)
  /\ \/ /\ Def(i).most = 0
        /\ part' = [part EXCEPT ![i].at = "real"]
        /\ UNCHANGED <<conn, queue>>
     \/ /\ Def(i).most > 0 /\ queue # <<>>
        /\ part' = Failed(i, "met")
        /\ UNCHANGED <<conn, queue>>
     \/ /\ Def(i).most > 0 /\ queue = <<>>
        /\ part' = [part EXCEPT ![i].at = "queued"]
        /\ queue' = Append(queue, i)
        /\ conn' \in IF conn = "none" THEN {"opening", "open"} ELSE {"open"}
  /\ UNCHANGED <<service, broken, outcome, closed>>

\* A task runs to its first await: it asks for its first statement, or is done.
Begin(i) ==
  /\ CanBegin(i)
  /\ \/ /\ Def(i).most = 0
        /\ part' = [part EXCEPT ![i].at = "real"]
        /\ UNCHANGED <<conn, queue>>
     \/ /\ Def(i).most > 0 /\ conn = "opening"
        /\ part' = Failed(i, "met")
        /\ UNCHANGED <<conn, queue>>
     \/ /\ Def(i).most > 0 /\ conn # "opening"
        /\ part' = [part EXCEPT ![i].at = "queued"]
        /\ queue' = Append(queue, i)
        /\ conn' \in IF conn = "none" THEN {"opening", "open"} ELSE {"open"}
  /\ UNCHANGED <<service, broken, outcome, closed>>

\* The event loop runs what can run before it looks at what has arrived.
Idle == queue # <<>> /\ \A i \in Parts : ~CanBegin(i)

Opened ==
  /\ Idle /\ conn = "opening"
  /\ conn' = "open"
  /\ UNCHANGED <<service, part, broken, queue, outcome, closed>>

\* All connections of the pool are in use for too long.
PoolTimeout ==
  /\ Idle /\ conn = "opening"
  /\ conn' = "none"
  /\ part' = Failed(Head(queue), "pool")
  /\ queue' = Tail(queue)
  /\ UNCHANGED <<service, broken, outcome, closed>>

StatementSucceeds ==
  LET i == Head(queue)
      n == part[i].done + 1
  IN
  /\ Idle /\ conn = "open" /\ ~broken
  /\ \/ /\ n >= Def(i).least                              \* the part is complete
        /\ part' = [part EXCEPT ![i].at = "real", ![i].done = 0]
        /\ queue' = Tail(queue)
        /\ conn' = IF Def(i).commits THEN "none" ELSE conn
     \/ /\ n < Def(i).most
        /\ part' = [part EXCEPT ![i].done = n]
        /\ queue' = Append(Tail(queue), i)
        /\ UNCHANGED conn
     \/ /\ part' = Failed(i, "data")                       \* the rows are not as expected
        /\ queue' = Tail(queue)
        /\ conn' = IF Def(i).rollsBack THEN "none" ELSE conn
  /\ UNCHANGED <<service, broken, outcome, closed>>

\* Mutant: every handler rolls back, and the others go on.
StatementFailsAndRecovers ==
  LET i == Head(queue) IN
  /\ Idle /\ conn = "open"
  /\ part' = Failed(i, "database")
  /\ queue' = Tail(queue)
  /\ broken' = FALSE
  /\ UNCHANGED <<service, conn, outcome, closed>>

\* The database refuses the statement: for its own sake, or because the
\* transaction is broken.
StatementFails ==
  LET i == Head(queue) IN
  /\ Idle /\ conn = "open"
  /\ part' = Failed(i, "database")
  /\ queue' = Tail(queue)
  /\ broken' = ~Def(i).rollsBack
  /\ conn' = IF Def(i).rollsBack THEN "none" ELSE conn
  /\ UNCHANGED <<service, outcome, closed>>

-----------------------------------------------------------------------------
\* Mutant: gather without return_exceptions=True.
FatalAtOnce == \E i \in Parts : part[i].at = "raised"

\* An exception that ends the service.
Fatal ==
  \E i \in Parts :
    /\ part[i].at = "raised"
    /\ \/ Alone(i)
       \/ ~Waits
       \/ i \in Services[service].critical /\ \A j \in Parts : Ended(j)

Respond ==
  /\ outcome = "none"
  /\ \A i \in Parts : ~CanBegin(i)
  /\ \/ Fatal /\ outcome' = "error"
     \/ ~Fatal /\ (\A i \in Parts : Ended(i)) /\ outcome' = "answer"
  /\ UNCHANGED <<service, part, conn, broken, queue, closed>>

\* get_db commits or rolls back and closes.  Statements of tasks nobody waits
\* for fail with the connection; but while a connection is being opened the
\* session refuses to be closed.
Close ==
  /\ outcome # "none" /\ ~closed
  /\ closed' = TRUE
  /\ \/ conn = "opening" /\ UNCHANGED <<part, conn, broken, queue>>
     \/ /\ conn # "opening"
        /\ conn' = "none" /\ broken' = FALSE /\ queue' = <<>>
        /\ part' = [i \in Parts |-> IF part[i].at = "queued" THEN Failed(i, "closed")[i] ELSE part[i]]
  /\ UNCHANGED <<service, outcome>>

SessionNext ==
  \/ \E i \in Parts : Begin(i)
  \/ Opened \/ PoolTimeout \/ StatementSucceeds \/ StatementFails
  \/ Respond \/ Close

SessionSpec == SessionInit /\ [][SessionNext]_sessionVars

-----------------------------------------------------------------------------
Causes == {"none", "met", "pool", "database", "data", "closed"}

PartStates == [at : {"waiting", "queued", "real", "default", "raised"}, done : Nat, cause : Causes]

SessionTypeOK ==
  /\ service \in DOMAIN Services
  /\ part \in [DOMAIN Services[service].parts -> PartStates]
  /\ conn \in {"none", "opening", "open"} /\ broken \in BOOLEAN
  /\ queue \in Seq(Parts)
  /\ outcome \in {"none", "answer", "error"} /\ closed \in BOOLEAN

Statements(i) == Def(i).most > 0

\* No handler rolls back what the database refused before it answers with a
\* default: from then on no part of the answer is read any more, so that what
\* looks like several failures, or like zeros, is one.
FailureSticks ==
  [][(\E i \in Parts : part[i].cause = "database" /\ ~Def(i).rollsBack)
       => \A j \in Parts : (Statements(j) /\ part'[j].at = "real") => part[j].at = "real"]_sessionVars

\* Parts that are started together when the session has no connection yet do
\* not share the wait: if one is refused for it, at most the one that opened
\* the connection gets its data, however healthy the database is.
OnlyTheOpenerSurvives ==
  (\E i \in Parts : part[i].cause = "met")
    => Cardinality({i \in Parts : Statements(i) /\ part[i].at = "real"}) <= 1

\* When the session of a request is ended, no statement is under way and its
\* connection is back in the pool, if the service waited for all its tasks.
EndedHoldsNothing ==
  (closed /\ Waits) => conn = "none" /\ queue = <<>>
=============================================================================
