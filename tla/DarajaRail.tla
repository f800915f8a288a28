----------------------------- MODULE DarajaRail -----------------------------
(***************************************************************************)
(* The M-Pesa rail (src/backend/modules/wallet: payPaymentRequest of       *)
(* service.ts, daraja-callback.ts, daraja-reconcile.ts).  A payment is     *)
(* pushed to the customer's handset and its intent recorded; money is      *)
(* posted when a callback arrives or a sweep asks, and the rail's query    *)
(* confirms it.  The sweep is a job of JobQueue that keeps a follow-up     *)
(* scheduled while an intent of the probing window is unsettled.           *)
(*                                                                         *)
(* Calls, callbacks and sweeps run in one Node process and interleave at   *)
(* each await; a db.$transaction is one action.                            *)
(***************************************************************************)
EXTENDS JobQueue, Sequences

CONSTANTS
  Requests,           \* payment requests, approved ones can be paid
  NoRequest,
  Checkouts,          \* CheckoutRequestIDs; each push gets a fresh one
  Payers,             \* pay calls under way at once
  Deciders,           \* decide calls under way at once
  Handlers,           \* callbacks being handled at once
  Sweeps,             \* sweeps under way at once, abandoned ones included
  NoDrain,
  NoCheckout,
  MaxProbe,           \* MAX_PROBE_PER_SWEEP
  MaxFaults           \* bound: faults of the storage, the process, the clock

ASSUME RailAssumption ==
  /\ NoRequest \notin Requests /\ NoCheckout \notin Checkouts
  /\ NoDrain \notin Drains /\ Handlers \cap Sweeps = {}
  /\ MaxProbe \in Nat \ {0} /\ MaxFaults \in Nat

VARIABLES
  rail,               \* external: what became of each push
  payFor,             \* the request a checkout was pushed for
  request,            \* PaymentRequest.status
  ledger,             \* payment postings: the idempotency key, the request
  intents,            \* daraja.intent:* rows, oldest first
  age,                \* per intent, against after-min and max-age
  marked,             \* daraja.callback:* rows
  seen,               \* seenCheckouts, in memory
  payer,              \* pay calls
  decider,            \* decide calls: the request found pending
  proc,               \* runs of processDarajaStkCallback
  sweep,              \* runs of runDarajaReconcile
  faults,             \* how many faults there have been
  broken              \* history: a fault has cut a chain of sweeps short

moneyVars == <<request, ledger>>
railVars  == <<rail, payFor>>
noteVars  == <<intents, age, marked, seen>>
queueVars == <<job, drain>>
faultVars == <<faults, broken>>
vars == <<moneyVars, railVars, noteVars, queueVars, faultVars,
          payer, decider, proc, sweep>>

Processes == Handlers \cup Sweeps

CallbackKey(c) == <<"daraja.callback", c>>
PayKey(r)      == <<"payment.request", r>>

IdlePayer == [at |-> "idle", request |-> NoRequest, checkout |-> NoCheckout]
IdleProc  == [at |-> "idle", checkout |-> NoCheckout, outcome |-> "none"]
IdleSweep == [at |-> "idle", drain |-> NoDrain, todo |-> <<>>, ripe |-> {},
              left |-> FALSE, budget |-> 0]

Init ==
  /\ rail = [c \in Checkouts |-> "unused"]
  /\ payFor = [c \in Checkouts |-> NoRequest]
  /\ request = [r \in Requests |-> "pending"]
  /\ ledger = {}
  /\ intents = <<>> /\ age = [c \in Checkouts |-> "none"]
  /\ marked = {} /\ seen = {}
  /\ payer = [p \in Payers |-> IdlePayer]
  /\ decider = [d \in Deciders |-> NoRequest]
  /\ proc = [p \in Processes |-> IdleProc]
  /\ sweep = [s \in Sweeps |-> IdleSweep]
  /\ faults = 0 /\ broken = FALSE
  /\ QueueInit

Fault(breaks) ==
  /\ faults < MaxFaults
  /\ faults' = faults + 1
  /\ broken' = (broken \/ breaks)

\* postLedgerTransactionInTx: a known key answers with what was posted.
Post(key, r) ==
  ledger' = IF \E entry \in ledger : entry.key = key THEN ledger
            ELSE ledger \cup {[key |-> key, request |-> r]}

-----------------------------------------------------------------------------
(* decidePaymentRequest reads the status and writes the decision.          *)

ReadDecision(d, r) ==
  /\ decider[d] = NoRequest
  /\ request[r] = "pending"
  /\ decider' = [decider EXCEPT ![d] = r]
  /\ UNCHANGED <<moneyVars, railVars, noteVars, queueVars, faultVars, payer, proc, sweep>>

WriteDecision(d) ==
  /\ decider[d] # NoRequest
  /\ \E decision \in {"approved", "rejected"} :
       request' = [request EXCEPT ![decider[d]] = decision]
  /\ decider' = [decider EXCEPT ![d] = NoRequest]
  /\ UNCHANGED <<ledger, railVars, noteVars, queueVars, faultVars, payer, proc, sweep>>

-----------------------------------------------------------------------------
(* payPaymentRequest.                                                      *)

PayerUnchanged ==
  UNCHANGED <<moneyVars, railVars, noteVars, queueVars, faultVars, decider, proc, sweep>>

\* The provider of the other rails succeeds at once; M-Pesa is asked to push.
ReadPay(p, r) ==
  /\ payer[p].at = "idle"
  /\ request[r] = "approved"
  /\ \E at \in {"direct", "push"} :
       payer' = [payer EXCEPT ![p] = [IdlePayer EXCEPT !.at = at, !.request = r]]
  /\ PayerUnchanged

\* The transaction of the other rails looks at the status again; it is undone
\* when the request is not approved any more or the ledger refuses.
PayDirect(p) ==
  LET r == payer[p].request IN
  /\ payer[p].at = "direct"
  /\ payer' = [payer EXCEPT ![p] = IdlePayer]
  /\ \/ /\ request[r] = "approved"
        /\ Post(PayKey(r), r)
        /\ request' = [request EXCEPT ![r] = "paid"]
     \/ UNCHANGED moneyVars
  /\ UNCHANGED <<railVars, noteVars, queueVars, faultVars, decider, proc, sweep>>

\* The push is accepted; its answer, with the checkout, may be lost.
PushAccepted(p) ==
  /\ payer[p].at = "push"
  /\ \E c \in Checkouts, heard \in BOOLEAN :
       /\ rail[c] = "unused"
       /\ rail' = [rail EXCEPT ![c] = "waiting"]
       /\ payFor' = [payFor EXCEPT ![c] = payer[p].request]
       /\ payer' = [payer EXCEPT ![p] =
                      IF heard THEN [@ EXCEPT !.at = "record", !.checkout = c]
                               ELSE IdlePayer]
  /\ UNCHANGED <<moneyVars, noteVars, queueVars, faultVars, decider, proc, sweep>>

PushRejected(p) ==
  /\ payer[p].at = "push"
  /\ payer' = [payer EXCEPT ![p] = IdlePayer]
  /\ PayerUnchanged

RecordIntent(p) ==
  LET c == payer[p].checkout IN
  /\ payer[p].at = "record"
  /\ intents' = Append(intents, c)
  /\ age' = [age EXCEPT ![c] = "young"]
  /\ payer' = [payer EXCEPT ![p].at = "seed"]
  /\ UNCHANGED <<moneyVars, railVars, marked, seen, queueVars, faultVars, decider, proc, sweep>>

\* fault: the row of the sweep that asks counts too.
SweepAround == \E r \in Rows : job[r].status \in {"queued", "retrying", "running"}

\* scheduleDarajaReconcile, first half: is a sweep scheduled already?
SweepScheduled == \E r \in Rows : Waiting(r)

ReadSchedule(p) ==
  /\ payer[p].at = "seed"
  /\ payer' = [payer EXCEPT ![p] = IF SweepScheduled THEN IdlePayer
                                   ELSE [@ EXCEPT !.at = "enqueue"]]
  /\ PayerUnchanged

EnqueueSeed(p) ==
  /\ payer[p].at = "enqueue"
  /\ Enqueue
  /\ payer' = [payer EXCEPT ![p] = IdlePayer]
  /\ UNCHANGED <<moneyVars, railVars, noteVars, drain, faultVars, decider, proc, sweep>>

\* A failed write of the intent or of the seed is logged and passed over.
NoteFails(p) ==
  /\ payer[p].at \in {"record", "seed", "enqueue"}
  /\ Fault(payer[p].at # "record")
  /\ payer' = [payer EXCEPT ![p] = IdlePayer]
  /\ UNCHANGED <<moneyVars, railVars, noteVars, queueVars, decider, proc, sweep>>

-----------------------------------------------------------------------------
(* The customer and the clock.                                             *)

Respond(c) ==
  /\ rail[c] = "waiting"
  /\ \E answer \in {"succeeded", "failed"} : rail' = [rail EXCEPT ![c] = answer]
  /\ UNCHANGED <<moneyVars, payFor, noteVars, queueVars, faultVars, payer, decider, proc, sweep>>

\* createdAt: an intent is never older than one recorded before it.
GrowOlder(c) ==
  /\ \E i \in DOMAIN intents :
       intents[i] = c /\ \A j \in 1..(i - 1) : age[intents[j]] # age[c]
  /\ UNCHANGED <<moneyVars, railVars, intents, marked, seen, queueVars, faultVars,
                 payer, decider, proc, sweep>>
  /\ \/ age[c] = "young" /\ age' = [age EXCEPT ![c] = "ripe"]
     \/ age[c] = "ripe"  /\ age' = [age EXCEPT ![c] = "old"]

Ripen(c) == age[c] = "young" /\ GrowOlder(c)

RunAtPasses(r) ==
  /\ FallDue(r)
  /\ UNCHANGED <<moneyVars, railVars, noteVars, faultVars, payer, decider, proc, sweep>>

-----------------------------------------------------------------------------
(* processDarajaStkCallback, for a callback or for a sweep.                *)

\* The run p of the processor ends; a sweep waits for the outcome.
Outcome(p, outcome) ==
  proc' = [proc EXCEPT ![p] =
             IF p \in Handlers THEN IdleProc
                               ELSE [@ EXCEPT !.at = "answered", !.outcome = outcome]]

ProcUnchanged == UNCHANGED <<railVars, queueVars, faultVars, payer, decider, sweep>>

\* The rail calls back once it knows, never, late, or many times over.  A
\* checkout in memory is answered without further steps.
Deliver(h, c) ==
  /\ proc[h].at = "idle"
  /\ rail[c] \in {"succeeded", "failed"}
  /\ c \notin seen
  /\ proc' = [proc EXCEPT ![h] = [IdleProc EXCEPT !.at = "lookup", !.checkout = c]]
  /\ ProcUnchanged /\ UNCHANGED <<moneyVars, noteVars>>

\* ResultCode 0; what a sweep hands in always says so.
ClaimsSuccess(p) == p \in Sweeps \/ rail[proc[p].checkout] = "succeeded"

LookupMark(p) ==
  LET c == proc[p].checkout IN
  /\ proc[p].at = "lookup"
  /\ \/ /\ c \in marked
        /\ seen' = seen \cup {c}
        /\ Outcome(p, "duplicate")
     \/ /\ c \notin marked /\ ~ClaimsSuccess(p)
        /\ Outcome(p, "ignored")
        /\ UNCHANGED seen
     \/ /\ c \notin marked /\ ClaimsSuccess(p)
        /\ proc' = [proc EXCEPT ![p].at = "verify"]
        /\ UNCHANGED seen
  /\ ProcUnchanged /\ UNCHANGED <<moneyVars, intents, age, marked>>

\* fault: the claim of the callback is taken for the answer.
ConfirmsClaim(p) == ClaimsSuccess(p)

\* The query confirms only what the rail knows to have succeeded ...
Confirms(p) == rail[proc[p].checkout] = "succeeded"

Verified(p) ==
  /\ proc[p].at = "verify"
  /\ Confirms(p)
  /\ proc' = [proc EXCEPT ![p].at = "intent"]
  /\ ProcUnchanged /\ UNCHANGED <<moneyVars, noteVars>>

\* fault: every outcome is recorded.
UnverifiedMarking(p) ==
  /\ proc[p].at = "verify"
  /\ Outcome(p, "unverified")
  /\ marked' = marked \cup {proc[p].checkout}
  /\ ProcUnchanged /\ UNCHANGED <<moneyVars, intents, age, seen>>

\* ... and may always fail, or say that it does not know yet.  Failures are
\* never recorded.
Unverified(p) ==
  /\ proc[p].at = "verify"
  /\ Outcome(p, "unverified")
  /\ ProcUnchanged /\ UNCHANGED <<moneyVars, noteVars>>

FindIntent(p) ==
  /\ proc[p].at = "intent"
  /\ \/ /\ age[proc[p].checkout] # "none"
        /\ proc' = [proc EXCEPT ![p].at = "post"]
     \/ /\ age[proc[p].checkout] = "none"
        /\ Outcome(p, "ignored")
  /\ ProcUnchanged /\ UNCHANGED <<moneyVars, noteVars>>

\* fault: the transaction trusts that an intent is for an unpaid request.
PayableUnchecked(r) == request[r] # "rejected"

Payable(r) == request[r] = "approved"

Settle(p) ==
  LET c == proc[p].checkout
      r == payFor[c] IN
  /\ proc[p].at = "post"
  /\ \/ /\ Payable(r)
        /\ Post(CallbackKey(c), r)
        /\ request' = [request EXCEPT ![r] = "paid"]
        /\ proc' = [proc EXCEPT ![p].at = "mark"]
     \/ /\ ~Payable(r)
        /\ Outcome(p, "ignored")
        /\ UNCHANGED moneyVars
  /\ ProcUnchanged /\ UNCHANGED noteVars

\* The durable record follows the money; its failure is passed over.
Mark(p) ==
  LET c == proc[p].checkout IN
  /\ proc[p].at = "mark"
  /\ seen' = seen \cup {c}
  /\ \/ marked' = marked \cup {c} /\ UNCHANGED faultVars
     \/ UNCHANGED marked /\ c \notin marked /\ Fault(FALSE)
  /\ Outcome(p, "credited")
  /\ UNCHANGED <<railVars, queueVars, payer, decider, sweep, moneyVars, intents, age>>

\* The storage throws: the webhook answers 500 and the rail may call again.
HandlerThrows(h) ==
  /\ proc[h].at \in {"lookup", "intent", "post"}
  /\ proc' = [proc EXCEPT ![h] = IdleProc]
  /\ ProcUnchanged /\ UNCHANGED <<moneyVars, noteVars>>

-----------------------------------------------------------------------------
(* runDarajaReconcile, as the handler a drain waits for.                   *)

SweepUnchanged == UNCHANGED <<moneyVars, railVars, payer, decider>>

DrainLists(d) ==
  /\ List(d)
  /\ SweepUnchanged /\ UNCHANGED <<noteVars, faultVars, proc, sweep>>

StartSweep(d, r, s) ==
  /\ Start(d, r)
  /\ sweep[s].at = "idle"
  /\ sweep' = [sweep EXCEPT ![s] = [IdleSweep EXCEPT !.at = "scan", !.drain = d,
                                                     !.budget = MaxProbe]]
  /\ SweepUnchanged /\ UNCHANGED <<noteVars, faultVars, proc>>

InWindow(c) == age[c] \in {"young", "ripe"}

\* The rows of the window are the last ones of the table.
Scan(s) ==
  /\ sweep[s].at = "scan"
  /\ \E k \in 1..(Len(intents) + 1) :
       /\ \A i \in DOMAIN intents : InWindow(intents[i]) <=> i >= k
       /\ sweep' = [sweep EXCEPT ![s].at = "loop",
                                 ![s].todo = SubSeq(intents, k, Len(intents)),
                                 ![s].ripe = {c \in Checkouts : age[c] = "ripe"}]
  /\ SweepUnchanged /\ UNCHANGED <<noteVars, queueVars, faultVars, proc>>

\* fault: a sweep probes whatever it finds.
ProbeableAll(s, c) == c \in sweep[s].ripe

Probeable(s, c) == c \in sweep[s].ripe /\ sweep[s].budget > 0

\* One intent: settled already, left for the follow-up, or probed.
TakeIntent(s) ==
  LET c == Head(sweep[s].todo)
      Past(left) == [sweep EXCEPT ![s].todo = Tail(@), ![s].left = @ \/ left]
  IN
  /\ sweep[s].at = "loop" /\ sweep[s].todo # <<>>
  /\ \/ /\ c \in marked
        /\ sweep' = Past(FALSE)
        /\ UNCHANGED proc
     \/ /\ c \notin marked /\ ~Probeable(s, c)
        /\ sweep' = Past(TRUE)
        /\ UNCHANGED proc
     \/ /\ c \notin marked /\ Probeable(s, c)
        /\ sweep' = [sweep EXCEPT ![s].at = "probe", ![s].budget = @ - 1]
        /\ proc' = [proc EXCEPT ![s] =
             IF c \in seen
               THEN [at |-> "answered", checkout |-> c, outcome |-> "duplicate"]
               ELSE [at |-> "lookup", checkout |-> c, outcome |-> "none"]]
  /\ SweepUnchanged /\ UNCHANGED <<noteVars, queueVars, faultVars>>

Probed(s) ==
  /\ sweep[s].at = "probe" /\ proc[s].at = "answered"
  /\ sweep' = [sweep EXCEPT ![s].at = "loop", ![s].todo = Tail(@),
                            ![s].left = @ \/ proc[s].outcome \notin {"credited", "duplicate"}]
  /\ proc' = [proc EXCEPT ![s] = IdleProc]
  /\ SweepUnchanged /\ UNCHANGED <<noteVars, queueVars, faultVars>>

\* fault: only what was probed in vain is followed up.
NeedsFollowUpIfSpent(s) == sweep[s].left /\ ~SweepScheduled /\ sweep[s].budget < MaxProbe

NeedsFollowUp(s) == sweep[s].left /\ ~SweepScheduled

ReadFollowUp(s) ==
  /\ sweep[s].at = "loop" /\ sweep[s].todo = <<>>
  /\ sweep' = [sweep EXCEPT ![s].at = IF NeedsFollowUp(s) THEN "enqueue" ELSE "end",
                            ![s].left = @ /\ NeedsFollowUp(s)]
  /\ SweepUnchanged /\ UNCHANGED <<noteVars, queueVars, faultVars, proc>>

EnqueueFollowUp(s) ==
  /\ sweep[s].at = "enqueue"
  /\ Enqueue
  /\ sweep' = [sweep EXCEPT ![s].at = "end", ![s].left = FALSE]
  /\ SweepUnchanged /\ UNCHANGED <<noteVars, drain, faultVars, proc>>

\* The drain records the result, unless it has given the sweep up.
SweepEnds(s) ==
  /\ sweep[s].at = "end"
  /\ sweep' = [sweep EXCEPT ![s] = IdleSweep]
  /\ \/ sweep[s].drain = NoDrain /\ UNCHANGED queueVars
     \/ sweep[s].drain # NoDrain /\ Succeed(sweep[s].drain)
  /\ SweepUnchanged /\ UNCHANGED <<noteVars, faultVars, proc>>

\* The storage throws: the row is retried, or has failed for good.
SweepThrows(s) ==
  LET d == sweep[s].drain IN
  /\ \/ sweep[s].at \in {"scan", "loop", "enqueue"}
     \/ sweep[s].at = "probe" /\ proc[s].at \in {"lookup", "intent", "post"}
  /\ \/ d = NoDrain /\ Fault(TRUE) /\ UNCHANGED queueVars
     \/ d # NoDrain /\ Fault(Terminal(d)) /\ Throw(d)
  /\ sweep' = [sweep EXCEPT ![s] = IdleSweep]
  /\ proc' = [proc EXCEPT ![s] = IdleProc]
  /\ SweepUnchanged /\ UNCHANGED noteVars

\* The sweep outlives its time limit: the row fails, the sweep goes on alone.
SweepTimesOut(s) ==
  /\ sweep[s].at \notin {"idle", "end"} /\ sweep[s].drain # NoDrain
  /\ Fault(FALSE)
  /\ TimeOut(sweep[s].drain)
  /\ sweep' = [sweep EXCEPT ![s].drain = NoDrain]
  /\ SweepUnchanged /\ UNCHANGED <<noteVars, proc>>

-----------------------------------------------------------------------------
\* The process ends and is restarted.
Die ==
  /\ Fault(\/ \E s \in Sweeps : sweep[s].at # "idle"
           \/ \E p \in Payers : payer[p].at \in {"seed", "enqueue"})
  /\ payer' = [p \in Payers |-> IdlePayer]
  /\ decider' = [d \in Deciders |-> NoRequest]
  /\ proc' = [p \in Processes |-> IdleProc]
  /\ sweep' = [s \in Sweeps |-> IdleSweep]
  /\ seen' = {}
  /\ DrainsDie
  /\ UNCHANGED <<moneyVars, railVars, intents, age, marked>>

ProcessorStep(p) ==
  LookupMark(p) \/ Verified(p) \/ Unverified(p) \/ FindIntent(p) \/ Settle(p) \/ Mark(p)

PayerStep(p) ==
  PayDirect(p) \/ PushAccepted(p) \/ PushRejected(p) \/ RecordIntent(p)
    \/ ReadSchedule(p) \/ EnqueueSeed(p)

SweepStep(s) ==
  Scan(s) \/ TakeIntent(s) \/ Probed(s) \/ ReadFollowUp(s) \/ EnqueueFollowUp(s) \/ SweepEnds(s)

Next ==
  \/ \E d \in Deciders : (\E r \in Requests : ReadDecision(d, r)) \/ WriteDecision(d)
  \/ \E p \in Payers : (\E r \in Requests : ReadPay(p, r)) \/ PayerStep(p) \/ NoteFails(p)
  \/ \E c \in Checkouts : Respond(c) \/ GrowOlder(c)
  \/ \E r \in Rows : RunAtPasses(r)
  \/ \E h \in Handlers : (\E c \in Checkouts : Deliver(h, c)) \/ HandlerThrows(h)
  \/ \E p \in Processes : ProcessorStep(p)
  \/ \E d \in Drains : DrainLists(d) \/ \E r \in Rows, s \in Sweeps : StartSweep(d, r, s)
  \/ \E s \in Sweeps : SweepStep(s) \/ SweepThrows(s) \/ SweepTimesOut(s)
  \/ Die

Spec == Init /\ [][Next]_vars

\* The process runs what is ready, a scheduler posts drains, time passes, and
\* a query that is asked again and again answers in the end.
Fairness ==
  /\ \A p \in Payers : WF_vars(PayerStep(p))
  /\ \A c \in Checkouts : WF_vars(Ripen(c))
  /\ \A r \in Rows : WF_vars(RunAtPasses(r))
  /\ \A d \in Drains :
       WF_vars(DrainLists(d)) /\ WF_vars(\E r \in Rows, s \in Sweeps : StartSweep(d, r, s))
  /\ \A s \in Sweeps :
       WF_vars(SweepStep(s)) /\ WF_vars(ProcessorStep(s)) /\ SF_vars(Verified(s))

FairSpec == Spec /\ Fairness

-----------------------------------------------------------------------------
(* Properties.                                                             *)

TypeOK ==
  /\ QueueTypeOK
  /\ rail \in [Checkouts -> {"unused", "waiting", "succeeded", "failed"}]
  /\ payFor \in [Checkouts -> Requests \cup {NoRequest}]
  /\ request \in [Requests -> {"pending", "approved", "rejected", "paid"}]
  /\ ledger \subseteq [key : {CallbackKey(c) : c \in Checkouts} \cup {PayKey(r) : r \in Requests},
                       request : Requests]
  /\ intents \in Seq(Checkouts)
  /\ age \in [Checkouts -> {"none", "young", "ripe", "old"}]
  /\ marked \subseteq Checkouts /\ seen \subseteq Checkouts
  /\ payer \in [Payers -> [at : {"idle", "direct", "push", "record", "seed", "enqueue"},
                           request : Requests \cup {NoRequest},
                           checkout : Checkouts \cup {NoCheckout}]]
  /\ decider \in [Deciders -> Requests \cup {NoRequest}]
  /\ proc \in [Processes -> [at : {"idle", "lookup", "verify", "intent", "post", "mark", "answered"},
                             checkout : Checkouts \cup {NoCheckout},
                             outcome : {"none", "duplicate", "ignored", "unverified", "credited"}]]
  /\ sweep \in [Sweeps -> [at : {"idle", "scan", "loop", "probe", "enqueue", "end"},
                           drain : Drains \cup {NoDrain}, todo : Seq(Checkouts),
                           ripe : SUBSET Checkouts, left : BOOLEAN,
                           budget : 0..MaxProbe]]
  /\ faults \in 0..MaxFaults /\ broken \in BOOLEAN

\* daraja-callback.ts: no invented money.  A posting for a checkout means that
\* the customer paid it, and for the request it was pushed for.
NoInventedMoney ==
  \A entry \in ledger, c \in Checkouts :
    entry.key = CallbackKey(c) => rail[c] = "succeeded" /\ entry.request = payFor[c]

\* Whatever callbacks, sweeps and direct payments race, over however many
\* checkouts, a request is paid at most once.
PaidOnce ==
  \A e1, e2 \in ledger : e1.request = e2.request => e1 = e2

Posted(c) == \E entry \in ledger : entry.key = CallbackKey(c)

\* The rail, seen as what becomes of requests and pushes.
Taken == {c \in Checkouts : rail[c] = "succeeded"}
Credited ==
  {x \in Checkouts \X Requests : [key |-> CallbackKey(x[1]), request |-> x[2]] \in ledger}
Direct == {r \in Requests : [key |-> PayKey(r), request |-> r] \in ledger}

Desk == INSTANCE Settlement WITH
  Pushes <- Checkouts, standing <- request, for <- payFor, taken <- Taken,
  credited <- Credited, direct <- Direct, known <- marked

\* However pushes, callbacks, sweeps, direct payments and decisions interleave,
\* a request is decided once and paid once, as approved, for good, by money
\* that came in for it before; and what is recorded as dealt with is booked
\* before (daraja-callback.ts, payPaymentRequest, decidePaymentRequest).
SettlementPromise == Desk!Spec

\* A durable callback record ends all probing of its checkout, so there is none
\* before its money is posted, in whatever order crashes and retries come.
MarkedIsPosted == \A c \in marked : Posted(c)

Unsettled(c) == InWindow(c) /\ ~Posted(c)

\* A row waits, or somebody under way will look at c or see to a follow-up.
Covered(c) ==
  \/ SweepScheduled
  \/ \E p \in Payers : payer[p].checkout = c
  \/ \E s \in Sweeps :
       \/ sweep[s].at = "scan" \/ sweep[s].left
       \/ \E i \in 1..Len(sweep[s].todo) : sweep[s].todo[i] = c

\* daraja-reconcile.ts: each sweep schedules a follow-up while any unsettled
\* intent remains in the window, so that probing goes on until it settles or
\* ages out.
ReprobedUntilSettled == \A c \in Checkouts : Unsettled(c) => Covered(c)

\* It does, however the reads and writes of the schedule interleave, unless a
\* fault cut the chain short: the seed was not written, the process ended in
\* the middle of a sweep, or a sweep failed for good.
ChainHolds == ~broken => ReprobedUntilSettled

\* A customer's payment whose callback never comes is booked by a sweep, or
\* its request is decided otherwise, unless it leaves the window first.
MissedCallbackSettles ==
  \A c \in Checkouts :
    InWindow(c) /\ rail[c] = "succeeded"
      ~> \/ broken \/ age[c] = "old"
         \/ \E r \in Requests : payFor[c] = r /\ request[r] # "approved"
=============================================================================
