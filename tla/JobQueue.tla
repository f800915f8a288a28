------------------------------ MODULE JobQueue ------------------------------
(***************************************************************************)
(* The job table and its drainer (src/backend/modules/jobs/service.ts).    *)
(* A drain is one POST /api/jobs/run: it reads the due rows once and runs  *)
(* them one after the other, writing each row by id without looking at the *)
(* status it has by then.  Nothing keeps two drains apart.                 *)
(*                                                                         *)
(* What a handler does is left to the module that composes with this one:  *)
(* it decides when Succeed or Throw ends the handler a drain waits for.    *)
(* Time is kept per row: its runAt has come (due) or not.                  *)
(***************************************************************************)
EXTENDS Naturals, FiniteSets

CONSTANTS
  Rows,               \* job rows; a finished one is reused once forgotten
  NoRow,
  Drains,             \* drains that can be under way at once
  MaxAttempts         \* JobRecord.maxAttempts

ASSUME QueueAssumption == NoRow \notin Rows /\ MaxAttempts \in Nat \ {0}

VARIABLES
  job,                \* the JobRecord rows
  drain               \* per drain: where it is, the rows it has yet to run

RowStatus == {"queued", "running", "retrying", "done", "failed"}

IdleDrain == [at |-> "idle", todo |-> {}, row |-> NoRow, attempts |-> 0]

QueueInit ==
  /\ job = [r \in Rows |-> [status |-> "done", attempts |-> 0, due |-> FALSE]]
  /\ drain = [d \in Drains |-> IdleDrain]

QueueTypeOK ==
  /\ job \in [Rows -> [status : RowStatus, attempts : Nat, due : BOOLEAN]]
  /\ drain \in [Drains -> [at : {"idle", "listed", "handling"},
                           todo : SUBSET Rows, row : Rows \cup {NoRow},
                           attempts : Nat]]

-----------------------------------------------------------------------------
Waiting(r) == job[r].status \in {"queued", "retrying"}

\* A finished row is never read again; its place is free once no drain has it.
Free(r) ==
  /\ job[r].status \in {"done", "failed"}
  /\ \A d \in Drains : r \notin drain[d].todo \cup {drain[d].row}

Enqueue ==
  \E r \in Rows :
    /\ Free(r)
    /\ job' = [job EXCEPT ![r] = [status |-> "queued", attempts |-> 0, due |-> FALSE]]

\* runAt passes.
FallDue(r) ==
  /\ Waiting(r) /\ ~job[r].due
  /\ job' = [job EXCEPT ![r].due = TRUE]
  /\ UNCHANGED drain

DueRows == {r \in Rows : Waiting(r) /\ job[r].due}

\* A drain that finds nothing due ends at once.
List(d) ==
  /\ drain[d].at = "idle"
  /\ DueRows # {}
  /\ drain' = [drain EXCEPT ![d].at = "listed", ![d].todo = DueRows]
  /\ UNCHANGED job

Start(d, r) ==
  /\ drain[d].at = "listed"
  /\ r \in drain[d].todo
  /\ job' = [job EXCEPT ![r].status = "running", ![r].attempts = @ + 1]
  /\ drain' = [drain EXCEPT ![d] =
                 [at |-> "handling", todo |-> @.todo \ {r}, row |-> r,
                  attempts |-> job[r].attempts + 1]]

\* The drain goes on to its next row, or ends.
GoOn(d) ==
  LET left == drain[d].todo IN
  drain' = [drain EXCEPT ![d] =
              [IdleDrain EXCEPT !.at = IF left = {} THEN "idle" ELSE "listed",
                                !.todo = left]]

Succeed(d) ==
  /\ job' = [job EXCEPT ![drain[d].row].status = "done"]
  /\ GoOn(d)

Terminal(d) == drain[d].attempts >= MaxAttempts

Throw(d) ==
  /\ job' = [job EXCEPT ![drain[d].row] =
               IF Terminal(d) THEN [@ EXCEPT !.status = "failed"]
                              ELSE [@ EXCEPT !.status = "retrying", !.due = FALSE]]
  /\ GoOn(d)

\* The handler lost the race against its time limit: never tried again.
TimeOut(d) ==
  /\ job' = [job EXCEPT ![drain[d].row].status = "failed"]
  /\ GoOn(d)

\* The process ends: rows that were running stay so.
DrainsDie ==
  /\ drain' = [d \in Drains |-> IdleDrain]
  /\ UNCHANGED job
=============================================================================
