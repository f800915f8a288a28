----------------------------- MODULE SyncServer -----------------------------
(***************************************************************************)
(* The server side of offline work: POST /api/sync, which applies a batch  *)
(* of queued actions one by one behind a dedupe marker, and POST           *)
(* /api/actions, which applies one action directly                         *)
(* (src/backend/api/sync.ts, src/backend/api/actions.ts).                  *)
(*                                                                         *)
(* A request is a process of its own: the device that sent it may stop     *)
(* listening while the server goes on, and the same action may be in       *)
(* several requests at once.  A step ends at an await that reads or writes *)
(* the database, so the look-up of a marker, the pre-check, the applier    *)
(* and the recording of the marker interleave with other requests.         *)
(*                                                                         *)
(* The actions are of three kinds, which the route treats differently:     *)
(*   "append"  consumption.create: a new row each time it is applied;      *)
(*   "money"   payment.pay: the ledger takes one payment per request;      *)
(*   "field"   task.complete: edits a versioned row, here one task.        *)
(***************************************************************************)
EXTENDS Naturals, Sequences, FiniteSets

CONSTANTS
  Actions,            \* what the user did, each at most one outbox item
  Kind,
  Payment,            \* the payment request a money action pays
  Method,             \* the method it pays with
  NoMethod,
  Calls,              \* requests that can be in flight at once
  MaxVersion,         \* bound on the versions other people's edits reach
  MaxBreaks           \* bound on server restarts, page reloads and expired sessions

Kinds == {"append", "money", "field"}
Money == {a \in Actions : Kind[a] = "money"}
Field == {a \in Actions : Kind[a] = "field"}
Payments == {Payment[a] : a \in Money}
Methods  == {Method[a] : a \in Money}

ASSUME ActionsAssumption ==
  /\ Kind \in [Actions -> Kinds]
  /\ Money \subseteq DOMAIN Payment \cap DOMAIN Method
  /\ NoMethod \notin Methods
  /\ MaxVersion \in Nat \ {0}
  /\ MaxBreaks \in Nat

VARIABLES
  task,               \* the task row the field actions edit
  paidBy,             \* per payment request: the method it was paid with
  landed,             \* how often an action took effect; 2 stands for more
  marks,              \* IdempotencyRecord rows with an outbox item id
  prints,             \* IdempotencyRecord rows with a payload fingerprint
  base,               \* the baseVersion in a queued action's payload, 0: none
  session,            \* whether the device's session is still accepted
  call,               \* per request: what it carries and how far it is
  breaks

serverRows == <<task, paidBy, landed, marks, prints>>
serverVars == <<serverRows, base, session, call, breaks>>

Vias   == {"idle", "sync", "force", "actions"}
Steps  == {"arrive", "lookup", "check", "apply", "write", "mark", "print",
           "refresh", "answer", "unauthorized", "refused"}
Results == {"none", "ok", "conflict", "failed"}

NoCall == [via |-> "idle", batch |-> <<>>, todo |-> <<>>, at |-> "arrive",
           seen |-> 0, result |-> [a \in Actions |-> "none"], heard |-> FALSE]

\* A request as the device sends it.
Request(via, batch) ==
  [NoCall EXCEPT !.via = via, !.batch = batch, !.todo = batch, !.heard = TRUE]

\* A request nobody listens to: its results and what it carried are forgotten.
Unlistened(r) == [r EXCEPT !.heard = FALSE, !.batch = <<>>, !.result = NoCall.result]

ServerInit ==
  /\ task = [version |-> 1, status |-> "open"]
  /\ paidBy = [p \in Payments |-> NoMethod]
  /\ landed = [a \in Actions |-> 0]
  /\ marks = {}
  /\ prints = {}
  /\ base = [a \in Actions |-> 0]
  /\ session = "valid"
  /\ call = [c \in Calls |-> NoCall]
  /\ breaks = 0

ServerTypeOK ==
  /\ task \in [version : Nat \ {0}, status : {"open", "blocked", "done"}]
  /\ paidBy \in [Payments -> Methods \cup {NoMethod}]
  /\ landed \in [Actions -> 0..2]
  /\ marks \subseteq Actions
  /\ base \in [Actions -> Nat]
  /\ session \in {"valid", "expired"}
  /\ breaks \in 0..MaxBreaks
  /\ call \in [Calls -> [via : Vias, batch : Seq(Actions), todo : Seq(Actions),
                         at : Steps, seen : Nat, result : [Actions -> Results],
                         heard : BOOLEAN]]

-----------------------------------------------------------------------------
(* Helpers *)

Current(c) == Head(call[c].todo)

\* replayFingerprintKey: the payloads that must not be applied a second time
\* under another item id.  Appends have none.
Fingerprint(a) ==
  CASE Kind[a] = "money" -> <<"money", Payment[a], Method[a]>>
    [] Kind[a] = "field" -> <<"field", base[a]>>
    [] OTHER -> <<>>

Fingerprinted(a) == Kind[a] # "append"

MoveTo(c, step) == call' = [call EXCEPT ![c] = [@ EXCEPT !.at = step, !.seen = 0]]

\* The result of the current item; the loop goes on, or refreshes the payload.
Answer(c, out) ==
  LET r == call[c] IN
  call' = [call EXCEPT ![c] = [r EXCEPT
    !.at     = IF Len(r.todo) > 1 THEN "lookup" ELSE "refresh",
    !.seen   = 0,
    !.todo   = Tail(r.todo),
    !.result = [r.result EXCEPT ![Current(c)] = IF r.heard THEN out ELSE "none"]]]

\* The current item was applied: a sync records it, a direct call is over.
Applied(c) == IF call[c].via = "actions" THEN Answer(c, "ok") ELSE MoveTo(c, "mark")

Land(a) == landed' = [landed EXCEPT ![a] = IF @ = 2 THEN 2 ELSE @ + 1]

-----------------------------------------------------------------------------
(* The request *)

\* route(): an expired session is refused, and so is a request over the rate
\* limit or one whose handling throws early.  /api/actions has no look-up
\* here: the app sends it no Idempotency-Key.
Arrive(c) ==
  /\ call[c].via # "idle"
  /\ call[c].at = "arrive"
  /\ \/ session = "expired" /\ MoveTo(c, "unauthorized")
     \/ session = "valid" /\ MoveTo(c, "refused")
     \/ session = "valid" /\ MoveTo(c, IF call[c].via = "actions" THEN "apply" ELSE "lookup")
  /\ UNCHANGED <<serverRows, base, session, breaks>>

\* Steps (1) and (2): an item that is marked, or whose payload is, is skipped.
Known(a) == a \in marks \/ (Fingerprinted(a) /\ Fingerprint(a) \in prints)

\* Fault: the marker is written first, as a claim.
LookupClaiming(c) ==
  /\ call[c].at = "lookup"
  /\ IF Known(Current(c))
     THEN Answer(c, "ok") /\ UNCHANGED marks
     ELSE MoveTo(c, "check") /\ marks' = marks \cup {Current(c)}
  /\ UNCHANGED <<task, paidBy, landed, prints, base, session, breaks>>

Lookup(c) ==
  /\ call[c].at = "lookup"
  /\ IF Known(Current(c)) THEN Answer(c, "ok") ELSE MoveTo(c, "check")
  /\ UNCHANGED <<serverRows, base, session, breaks>>

\* detectStaleVersion: the payload was written against an older row.
Stale(a) == Kind[a] = "field" /\ base[a] > 0 /\ base[a] < task.version

\* detectConflict on a field row: a human decides.
FieldConflict(a) == Kind[a] = "field" /\ task.status \in {"done", "blocked"}

\* detectConflict on a financial row: the same payment is an identical replay,
\* another one loses to the ledger, forced or not.
MoneyReplay(a)   == Kind[a] = "money" /\ paidBy[Payment[a]] = Method[a]
MoneyConflict(a) == Kind[a] = "money" /\ paidBy[Payment[a]] \notin {NoMethod, Method[a]}

Check(c) ==
  LET a == Current(c)
      forced == call[c].via = "force"
      conflict == MoneyConflict(a) \/ (~forced /\ (Stale(a) \/ FieldConflict(a)))
  IN
  /\ call[c].at = "check"
  /\ \/ MoneyReplay(a) /\ Answer(c, "ok")
     \/ conflict /\ Answer(c, "conflict")
     \/ ~MoneyReplay(a) /\ ~conflict /\ MoveTo(c, "apply")
  /\ UNCHANGED <<serverRows, base, session, breaks>>

-----------------------------------------------------------------------------
(* applyAction *)

\* consumption.create: a row per call.
ApplyAppend(c) ==
  /\ call[c].at = "apply"
  /\ Kind[Current(c)] = "append"
  /\ Land(Current(c))
  /\ Applied(c)
  /\ UNCHANGED <<task, paidBy, marks, prints, base, session, breaks>>

\* payment.pay: the status is read again inside the transaction that pays.
\* Fault: it trusts the status read before.
MayPayUnchecked(a) == TRUE

MayPay(a) == paidBy[Payment[a]] = NoMethod

ApplyMoney(c) ==
  LET a == Current(c) IN
  /\ call[c].at = "apply"
  /\ Kind[a] = "money"
  /\ MayPay(a)
  /\ paidBy' = [paidBy EXCEPT ![Payment[a]] = Method[a]]
  /\ Land(a)
  /\ Applied(c)
  /\ UNCHANGED <<task, marks, prints, base, session, breaks>>

\* "already paid": the route reads the error as a server-wins conflict.
RefuseMoney(c) ==
  LET a == Current(c) IN
  /\ call[c].at = "apply"
  /\ Kind[a] = "money"
  /\ ~MayPay(a)
  /\ Answer(c, IF call[c].via = "actions" THEN "failed" ELSE "conflict")
  /\ UNCHANGED <<serverRows, base, session, breaks>>

\* task.complete reads the row, then writes it with the version it read plus
\* one; the baseVersion was compared before, by another read.
ReadTask(c) ==
  /\ call[c].at = "apply"
  /\ Kind[Current(c)] = "field"
  /\ task.status # "blocked"
  /\ call' = [call EXCEPT ![c] = [@ EXCEPT !.at = "write", !.seen = task.version]]
  /\ UNCHANGED <<serverRows, base, session, breaks>>

WriteTask(c) ==
  /\ call[c].at = "write"
  /\ task' = [version |-> call[c].seen + 1, status |-> "done"]
  /\ Land(Current(c))
  /\ Applied(c)
  /\ UNCHANGED <<paidBy, marks, prints, base, session, breaks>>

\* Any applier may throw: a blocked task, a validation, a flag, a busy database.
ApplyFails(c) ==
  /\ call[c].at = "apply"
  /\ Answer(c, "failed")
  /\ UNCHANGED <<serverRows, base, session, breaks>>

-----------------------------------------------------------------------------
(* The markers, written after the action took effect *)

MarkItem(c) ==
  /\ call[c].at = "mark"
  /\ marks' = marks \cup {Current(c)}
  /\ IF Fingerprinted(Current(c)) THEN MoveTo(c, "print") ELSE Answer(c, "ok")
  /\ UNCHANGED <<task, paidBy, landed, prints, base, session, breaks>>

MarkPayload(c) ==
  /\ call[c].at = "print"
  /\ prints' = prints \cup {Fingerprint(Current(c))}
  /\ Answer(c, "ok")
  /\ UNCHANGED <<task, paidBy, landed, marks, base, session, breaks>>

\* The payload the answer carries is read last, and that too may throw: the
\* batch is then refused as a whole although its items were handled.
Refresh(c) ==
  /\ call[c].at = "refresh"
  /\ MoveTo(c, "answer") \/ MoveTo(c, "refused")
  /\ UNCHANGED <<serverRows, base, session, breaks>>

-----------------------------------------------------------------------------
(* Around the requests *)

\* Nobody listens any more: the finished request is gone, or the server
\* process went down with the request at any point.
Forget(c) ==
  /\ call[c].via # "idle"
  /\ ~call[c].heard
  /\ call[c].at \in {"answer", "unauthorized", "refused"}
  /\ call' = [call EXCEPT ![c] = NoCall]
  /\ UNCHANGED <<serverRows, base, session, breaks>>

Break == breaks < MaxBreaks /\ breaks' = breaks + 1

Die(c) ==
  /\ Break
  /\ call[c].via # "idle"
  /\ ~call[c].heard
  /\ call' = [call EXCEPT ![c] = NoCall]
  /\ UNCHANGED <<serverRows, base, session>>

\* Another person edits the same task online (task.update, task.block, ...).
OtherEdit ==
  /\ task.version < MaxVersion
  /\ \E s \in {"open", "blocked", "done"} :
       task' = [version |-> task.version + 1, status |-> s]
  /\ UNCHANGED <<paidBy, landed, marks, prints, base, session, call, breaks>>

ServerStep(c) ==
  \/ Arrive(c) \/ Lookup(c) \/ Check(c)
  \/ ApplyAppend(c) \/ ApplyMoney(c) \/ RefuseMoney(c)
  \/ ReadTask(c) \/ WriteTask(c) \/ ApplyFails(c)
  \/ MarkItem(c) \/ MarkPayload(c) \/ Refresh(c) \/ Forget(c)
=============================================================================
