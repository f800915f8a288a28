----------------------------- MODULE Procurement -----------------------------
(***************************************************************************)
(* Material requests, their approval chain, purchase orders and deliveries *)
(* (src/backend/modules/supply/service.ts, and the driver legs of          *)
(* src/backend/lib/mjengo.ts).                                             *)
(*                                                                         *)
(* Every operation reads a row and checks its status, then resolves the    *)
(* actor or the payload, then writes.  Six of them write by a conditional  *)
(* claim inside a transaction (the row must still be in the right status); *)
(* the others write by id, whatever the row has become.  A suspended       *)
(* operation is call[p].  Overlap says which operations may be under way   *)
(* together: {Ops} for all, as the server allows, or smaller groups, to    *)
(* say what the claims protect and from what.                              *)
(*                                                                         *)
(* A definition marked "fault" is its neighbour with a plausible bug.  No  *)
(* specification uses it: it is there to show that the properties notice.  *)
(***************************************************************************)
EXTENDS Integers, Sequences, FiniteSets

CONSTANTS
  Procs,              \* operations that can be in flight at once
  NoTarget,           \* no row
  Requests, Orders, Deliveries,  \* rows there is room for
  Requesters,         \* roles that raise requests
  MaxLines,           \* bound: quantity of a request's lines
  Bands,              \* per quantity, the roles of the matching rules in order
  MaxCrashes,         \* bound: times the process dies
  Overlap             \* groups of operations that may be in flight together

Roles == {"contractor", "client", "finance", "supervisor"}

Ops == {"edit", "submit", "approve", "reject", "cancelRequest", "createOrder",
        "send", "confirm", "dispatch", "cancelOrder", "void", "close",
        "transit", "arrive", "receive"}

\* The operations whose write is a claim inside a transaction.
Claims == {"cancelRequest", "createOrder", "dispatch", "cancelOrder", "void",
           "receive"}

ASSUME ProcurementAssumption ==
  /\ NoTarget \notin Requests \cup Orders \cup Deliveries
  /\ Requesters \subseteq Roles
  /\ MaxLines \in Nat /\ MaxCrashes \in Nat
  /\ Bands \in [0..MaxLines -> Seq(Roles)]
  /\ Overlap \subseteq SUBSET Ops

VARIABLES
  request,            \* MaterialRequest: status, requester, quantity of its lines
  rungs,              \* Approval rows of each request, oldest first
  order,              \* PurchaseOrder: status, request, quantity, quantity stocked
  delivery,           \* OrderDelivery: status and order
  call,               \* per operation in flight: what it does and has read
  crashes

vars == <<request, rungs, order, delivery, call, crashes>>

RequestStatus == {"none", "draft", "submitted", "approved", "rejected",
                  "converted", "cancelled"}
OrderStatus == {"none", "approved", "sent", "confirmed", "delivering",
                "delivered", "closed", "cancelled"}
DeliveryStatus == {"none", "dispatched", "in_transit", "arrived", "received",
                   "discrepancy", "cancelled"}

Withdrawable == {"draft", "submitted", "approved"}
Dispatchable == {"sent", "confirmed"}
\* fault: what has been delivered may still be cancelled.
CancellableLate == {"sent", "confirmed", "delivering", "delivered"}
Cancellable  == {"sent", "confirmed", "delivering"}
Receivable   == {"dispatched", "arrived"}
EnRoute      == {"dispatched", "in_transit"}
InFlight     == {"dispatched", "in_transit", "arrived"}

Idle == [op |-> "idle", on |-> NoTarget, step |-> "read", row |-> 0, qty |-> 0]

RequestRow == [status : RequestStatus, by : Roles, qty : 0..MaxLines]
OrderRow == [status : OrderStatus, of : Requests \cup {NoTarget},
             qty : 0..MaxLines, stocked : Nat]
DeliveryRow == [status : DeliveryStatus, order : Orders \cup {NoTarget}]
Rung == [role : Roles, decision : {"pending", "approved", "rejected", "withdrawn"}]

TypeOK ==
  /\ request \in [Requests -> RequestRow]
  /\ rungs \in [Requests -> Seq(Rung)]
  /\ order \in [Orders -> OrderRow]
  /\ delivery \in [Deliveries -> DeliveryRow]
  /\ \A p \in Procs :
       /\ call[p].op \in Ops \cup {"idle"} /\ call[p].qty \in 0..MaxLines
       /\ call[p].on \in Requests \cup Orders \cup Deliveries \cup {NoTarget}
  /\ crashes \in 0..MaxCrashes

Init ==
  /\ request \in [Requests ->
       {[status |-> "none", by |-> role, qty |-> 0] : role \in Requesters}]
  /\ rungs = [r \in Requests |-> <<>>]
  /\ order = [o \in Orders |->
       [status |-> "none", of |-> NoTarget, qty |-> 0, stocked |-> 0]]
  /\ delivery = [d \in Deliveries |-> [status |-> "none", order |-> NoTarget]]
  /\ call = [p \in Procs |-> Idle]
  /\ crashes = 0

-----------------------------------------------------------------------------
(* An operation: started by what it reads, ended by its answer.            *)

Compatible(op, other) ==
  other = "idle" \/ \E group \in Overlap : {op, other} \subseteq group

Suspend(p, op, on, row, qty) ==
  /\ call[p] = Idle
  /\ \A q \in Procs : Compatible(op, call[q].op)
  /\ call' = [call EXCEPT ![p] =
       [op |-> op, on |-> on, step |-> "read", row |-> row, qty |-> qty]]
  /\ UNCHANGED <<request, rungs, order, delivery, crashes>>

At(p, op, step) == call[p].op = op /\ call[p].step = step

Goto(p, step, row) ==
  call' = [call EXCEPT ![p] = [op |-> @.op, on |-> @.on, step |-> step,
                               row |-> row, qty |-> @.qty]]

Answer(p) == call' = [call EXCEPT ![p] = Idle]

\* A claim matched no row: everything the transaction did is rolled back.
Refuse(p) == Answer(p) /\ UNCHANGED <<request, rungs, order, delivery, crashes>>

SetRequest(r, status) == request' = [request EXCEPT ![r].status = status]

-----------------------------------------------------------------------------
(* Requests and their approval chain.                                      *)

CreateRequest(r, q) ==
  /\ request[r].status = "none" /\ q > 0
  /\ request' = [request EXCEPT ![r].status = "draft", ![r].qty = q]
  /\ UNCHANGED <<rungs, order, delivery, call, crashes>>

ReadEdit(p, r, q) ==
  request[r].status = "draft" /\ Suspend(p, "edit", r, 0, q)

\* updateRequest rewrites the lines in two writes, outside any transaction.
EditClear(p) ==
  /\ At(p, "edit", "read")
  /\ request' = [request EXCEPT ![call[p].on].qty = 0]
  /\ Goto(p, "lines", 0)
  /\ UNCHANGED <<rungs, order, delivery, crashes>>

EditLines(p) ==
  LET r == call[p].on IN
  /\ At(p, "edit", "lines")
  /\ request[r].qty + call[p].qty <= MaxLines
  /\ request' = [request EXCEPT ![r].qty = @ + call[p].qty]
  /\ Answer(p)
  /\ UNCHANGED <<rungs, order, delivery, crashes>>

\* fault: a client is asked to sign their own request.
ChainUnsubstituted(r, q) == IF Bands[q] = <<>> THEN <<"client">> ELSE Bands[q]

\* The roles that must sign: the client's own rung falls to the contractor.
Chain(r, q) ==
  LET roles == IF Bands[q] = <<>> THEN <<"client">> ELSE Bands[q] IN
  [i \in DOMAIN roles |-> IF roles[i] = "client" /\ request[r].by = "client"
                            THEN "contractor" ELSE roles[i]]

\* The only signer is who asks: approved at once.
SoleSigner(r, q) == Chain(r, q) = <<request[r].by>>

\* submitRequest: the estimate comes from the lines as they are now.
ReadSubmit(p, r) ==
  /\ request[r].status = "draft"
  /\ Suspend(p, "submit", r, 1, request[r].qty)

\* One Approval row after the other, each a write of its own ...
FileRung(p) ==
  LET c == call[p]  chain == Chain(c.on, c.qty) IN
  /\ At(p, "submit", "read") /\ c.row <= Len(chain)
  /\ rungs' = [rungs EXCEPT ![c.on] = Append(@,
       [role |-> chain[c.row],
        decision |-> IF SoleSigner(c.on, c.qty) THEN "approved" ELSE "pending"])]
  /\ Goto(p, "read", c.row + 1)
  /\ UNCHANGED <<request, order, delivery, crashes>>

\* ... and then the status, whatever it has become.
FileStatus(p) ==
  LET c == call[p] IN
  /\ At(p, "submit", "read") /\ c.row > Len(Chain(c.on, c.qty))
  /\ SetRequest(c.on, IF SoleSigner(c.on, c.qty) THEN "approved" ELSE "submitted")
  /\ Answer(p)
  /\ UNCHANGED <<rungs, order, delivery, crashes>>

PendingRungs(r, role) ==
  {i \in DOMAIN rungs[r] : rungs[r][i] = [role |-> role, decision |-> "pending"]}

\* A client does not sign their own request.
MayDecide(r, role) == ~(role = "client" /\ request[r].by = "client")

\* decideApproval: the actor's first pending row, if the request awaits one.
ReadDecision(p, r, role, op) ==
  /\ request[r].status = "submitted"
  /\ MayDecide(r, role)
  /\ \E i \in PendingRungs(r, role) :
       /\ \A j \in PendingRungs(r, role) : i <= j
       /\ Suspend(p, op, r, i, 0)

DecideRung(p) ==
  LET c == call[p] IN
  /\ c.op \in {"approve", "reject"} /\ c.step = "read"
  /\ rungs' = [rungs EXCEPT ![c.on][c.row].decision =
                 IF c.op = "approve" THEN "approved" ELSE "rejected"]
  /\ Goto(p, "tally", c.row)
  /\ UNCHANGED <<request, order, delivery, crashes>>

AnyRejected(r) == \E i \in DOMAIN rungs[r] : rungs[r][i].decision = "rejected"

\* fault: one signature is enough.
AllApprovedAny(r) == \E i \in DOMAIN rungs[r] : rungs[r][i].decision = "approved"

AllApproved(r) == \A i \in DOMAIN rungs[r] : rungs[r][i].decision = "approved"

\* The rows are read again: rejected, approved, or still waiting.
Tally(p) ==
  LET c == call[p] IN
  /\ c.step = "tally"
  /\ CASE AnyRejected(c.on) -> Goto(p, "rejected", c.row)
       [] ~AnyRejected(c.on) /\ AllApproved(c.on) -> Goto(p, "approved", c.row)
       [] OTHER -> Answer(p)
  /\ UNCHANGED <<request, rungs, order, delivery, crashes>>

\* The request's status is written by id, whatever it has become.
Settle(p) ==
  LET c == call[p] IN
  /\ c.step \in {"rejected", "approved"}
  /\ SetRequest(c.on, c.step)
  /\ Answer(p)
  /\ UNCHANGED <<rungs, order, delivery, crashes>>

ReadWithdrawal(p, r) ==
  request[r].status \in Withdrawable /\ Suspend(p, "cancelRequest", r, 0, 0)

\* cancelRequest: a claim; pending rows are settled with it.
CancelRequest(p) ==
  LET r == call[p].on IN
  /\ At(p, "cancelRequest", "read")
  /\ request[r].status \in Withdrawable
  /\ SetRequest(r, "cancelled")
  /\ rungs' = [rungs EXCEPT ![r] = [i \in DOMAIN @ |->
       IF @[i].decision = "pending" THEN [@[i] EXCEPT !.decision = "withdrawn"]
                                    ELSE @[i]]]
  /\ Answer(p)
  /\ UNCHANGED <<order, delivery, crashes>>

CancelRequestRefused(p) ==
  /\ At(p, "cancelRequest", "read")
  /\ request[call[p].on].status \notin Withdrawable
  /\ Refuse(p)

-----------------------------------------------------------------------------
(* Purchase orders.                                                        *)

ReadForOrder(p, r) ==
  /\ request[r].status = "approved"
  /\ Suspend(p, "createOrder", r, 0, request[r].qty)

\* The claim of createOrder.
Convertible(r) == request[r].status = "approved"

\* createOrder: the order, with the lines read before, and the claim on the
\* request are one transaction.
CreateOrder(p, o) ==
  LET c == call[p] IN
  /\ At(p, "createOrder", "read")
  /\ Convertible(c.on) /\ order[o].status = "none"
  /\ order' = [order EXCEPT ![o] =
       [status |-> "approved", of |-> c.on, qty |-> c.qty, stocked |-> 0]]
  /\ SetRequest(c.on, "converted")
  /\ Answer(p)
  /\ UNCHANGED <<rungs, delivery, crashes>>

CreateOrderRefused(p) ==
  At(p, "createOrder", "read") /\ ~Convertible(call[p].on) /\ Refuse(p)

\* The statuses sendOrder, confirmOrder and closeOrder start from, and write.
Before(op) == CASE op = "send" -> "approved"
                [] op = "confirm" -> "sent"
                [] op = "close" -> "delivered"

\* fault: the operation's name is written for the status.
AfterVerb(op) == op

After(op) == CASE op = "send" -> "sent"
               [] op = "confirm" -> "confirmed"
               [] op = "close" -> "closed"

ReadOrder(p, op, o) ==
  order[o].status = Before(op) /\ Suspend(p, op, o, 0, 0)

\* sendOrder, confirmOrder, closeOrder: written by id.
WriteOrder(p) ==
  LET c == call[p] IN
  /\ c.op \in {"send", "confirm", "close"}
  /\ order' = [order EXCEPT ![c.on].status = After(c.op)]
  /\ Answer(p)
  /\ UNCHANGED <<request, rungs, delivery, crashes>>

Live(o) ==
  {d \in Deliveries : delivery[d].order = o /\ delivery[d].status # "cancelled"}

\* dispatchOrder looks for a live delivery before its transaction.
ReadDispatch(p, o) ==
  /\ order[o].status \in Dispatchable /\ Live(o) = {}
  /\ Suspend(p, "dispatch", o, 0, 0)

\* fault: the order is claimed whatever it has become.
DispatchClaimAnyway(o) == TRUE

DispatchClaim(o) == order[o].status \in Dispatchable

Dispatch(p, d) ==
  LET o == call[p].on IN
  /\ At(p, "dispatch", "read")
  /\ DispatchClaim(o) /\ delivery[d].status = "none"
  /\ order' = [order EXCEPT ![o].status = "delivering"]
  /\ delivery' = [delivery EXCEPT ![d] = [status |-> "dispatched", order |-> o]]
  /\ Answer(p)
  /\ UNCHANGED <<request, rungs, crashes>>

DispatchRefused(p) ==
  At(p, "dispatch", "read") /\ ~DispatchClaim(call[p].on) /\ Refuse(p)

ReadCancelOrder(p, o) ==
  order[o].status \in Cancellable /\ Suspend(p, "cancelOrder", o, 0, 0)

\* cancelOrder: a claim, and every delivery still receivable dies with it.
CancelOrder(p) ==
  LET o == call[p].on IN
  /\ At(p, "cancelOrder", "read")
  /\ order[o].status \in Cancellable
  /\ order' = [order EXCEPT ![o].status = "cancelled"]
  /\ delivery' = [d \in Deliveries |->
       IF delivery[d].order = o /\ delivery[d].status \in InFlight
         THEN [delivery[d] EXCEPT !.status = "cancelled"] ELSE delivery[d]]
  /\ Answer(p)
  /\ UNCHANGED <<request, rungs, crashes>>

CancelOrderRefused(p) ==
  /\ At(p, "cancelOrder", "read")
  /\ order[call[p].on].status \notin Cancellable
  /\ Refuse(p)

-----------------------------------------------------------------------------
(* Deliveries.                                                             *)

ReadVoid(p, d) ==
  delivery[d].status \in InFlight /\ Suspend(p, "void", d, 0, 0)

\* The two claims of voidDelivery.
Voidable(d) ==
  delivery[d].status \in InFlight /\ order[delivery[d].order].status = "delivering"

VoidDelivery(p) ==
  LET d == call[p].on IN
  /\ At(p, "void", "read") /\ Voidable(d)
  /\ delivery' = [delivery EXCEPT ![d].status = "cancelled"]
  /\ order' = [order EXCEPT ![delivery[d].order].status = "confirmed"]
  /\ Answer(p)
  /\ UNCHANGED <<request, rungs, crashes>>

VoidRefused(p) ==
  At(p, "void", "read") /\ ~Voidable(call[p].on) /\ Refuse(p)

\* delivery.transit and delivery.arrive, written by id.
ReadLeg(p, op, d) ==
  delivery[d].status \in EnRoute /\ Suspend(p, op, d, 0, 0)

WriteLeg(p) ==
  LET c == call[p] IN
  /\ c.op \in {"transit", "arrive"}
  /\ delivery' = [delivery EXCEPT ![c.on].status =
                    IF c.op = "transit" THEN "in_transit" ELSE "arrived"]
  /\ Answer(p)
  /\ UNCHANGED <<request, rungs, order, crashes>>

\* receiveDelivery checks the delivery and its order, first when it reads
\* and again when it claims.
ReceiveClaim(d) ==
  /\ delivery[d].status \in Receivable
  /\ order[delivery[d].order].status # "cancelled"

\* What arrived may not exceed what the order's lines say.
ReadReceipt(p, d, q) ==
  /\ ReceiveClaim(d)
  /\ q <= order[delivery[d].order].qty
  /\ Suspend(p, "receive", d, 0, q)

\* The whole receipt, stock included, is one transaction.
ReceiveDelivery(p) ==
  LET c == call[p]  d == c.on  o == delivery[d].order IN
  /\ At(p, "receive", "read") /\ ReceiveClaim(d)
  /\ delivery' = [delivery EXCEPT ![d].status =
                    IF c.qty < order[o].qty THEN "discrepancy" ELSE "received"]
  /\ order' = [order EXCEPT ![o] = [status |-> "delivered", of |-> @.of, qty |-> @.qty,
                                    stocked |-> @.stocked + c.qty]]
  /\ Answer(p)
  /\ UNCHANGED <<request, rungs, crashes>>

ReceiveRefused(p) ==
  At(p, "receive", "read") /\ ~ReceiveClaim(call[p].on) /\ Refuse(p)

\* The process dies; what is in flight is gone, what was written stays.
Crash ==
  /\ crashes < MaxCrashes
  /\ \E p \in Procs : call[p] # Idle
  /\ crashes' = crashes + 1
  /\ call' = [p \in Procs |-> Idle]
  /\ UNCHANGED <<request, rungs, order, delivery>>

-----------------------------------------------------------------------------
RequestStep(p) ==
  \/ \E r \in Requests :
       \/ \E q \in 1..MaxLines : ReadEdit(p, r, q)
       \/ ReadSubmit(p, r)
       \/ \E role \in Roles, op \in {"approve", "reject"} :
            ReadDecision(p, r, role, op)
       \/ ReadWithdrawal(p, r)
  \/ EditClear(p) \/ EditLines(p) \/ FileRung(p) \/ FileStatus(p)
  \/ DecideRung(p) \/ Tally(p) \/ Settle(p)
  \/ CancelRequest(p) \/ CancelRequestRefused(p)

OrderStep(p) ==
  \/ \E r \in Requests : ReadForOrder(p, r)
  \/ \E o \in Orders :
       \/ CreateOrder(p, o)
       \/ \E op \in {"send", "confirm", "close"} : ReadOrder(p, op, o)
       \/ ReadDispatch(p, o)
       \/ ReadCancelOrder(p, o)
  \/ CreateOrderRefused(p) \/ WriteOrder(p)
  \/ CancelOrder(p) \/ CancelOrderRefused(p)

DeliveryStep(p) ==
  \/ \E d \in Deliveries :
       \/ Dispatch(p, d)
       \/ ReadVoid(p, d)
       \/ \E op \in {"transit", "arrive"} : ReadLeg(p, op, d)
       \/ \E q \in 0..MaxLines : ReadReceipt(p, d, q)
  \/ DispatchRefused(p) \/ VoidDelivery(p) \/ VoidRefused(p)
  \/ WriteLeg(p) \/ ReceiveDelivery(p) \/ ReceiveRefused(p)

Next ==
  \/ \E r \in Requests, q \in 1..MaxLines : CreateRequest(r, q)
  \/ \E p \in Procs : RequestStep(p) \/ OrderStep(p) \/ DeliveryStep(p)
  \/ Crash

Spec == Init /\ [][Next]_vars

-----------------------------------------------------------------------------
\* A purchase order stands on a request that was converted into it, and on
\* no other: a withdrawal and a conversion cannot both win (service.ts:637).
OrdersAreCommitted ==
  /\ \A o \in Orders : order[o].status # "none" =>
       request[order[o].of].status = "converted"
  /\ \A o1, o2 \in Orders :
       order[o1].status # "none" /\ order[o1].of = order[o2].of => o1 = o2

\* A cancelled order was never stocked and has nothing left to receive,
\* whatever was dispatched, voided or received against the cancellation
\* ("a CANCELLED order can never be stocked", service.ts:1404).
CancelledNeverStocked ==
  \A o \in Orders : order[o].status = "cancelled" =>
    /\ order[o].stocked = 0
    /\ \A d \in Deliveries : delivery[d].order = o => delivery[d].status \notin InFlight

\* No more is stocked for an order than it ordered, over all its deliveries
\* (the over-delivery bound, service.ts:1466).
StockedOnce == \A o \in Orders : order[o].stocked <= order[o].qty

\* The orders, seen as the book of orders the site can rely on.
Stage(status) ==
  IF status \in {"delivered", "closed"} THEN "stocked"
  ELSE IF status \in {"none", "cancelled"} THEN status ELSE "open"
EntryOf(row) ==
  [stage |-> Stage(row.status), of |-> row.of, qty |-> row.qty, stocked |-> row.stocked]
Entries == [o \in Orders |-> EntryOf(order[o])]
Converted == {r \in Requests : request[r].status = "converted"}

Book == INSTANCE OrderBook WITH
  Quantities <- 0..MaxLines, NoRequest <- NoTarget, entry <- Entries, taken <- Converted

\* However the claims of withdrawals, conversions, dispatches, voids, receipts
\* and cancellations interleave, a request becomes one order for good, and an
\* order is stocked once, within what it ordered, or cancelled, and neither
\* is ever taken back (service.ts:637, :1069, :1404, :1466).
OrderPromise == Book!Spec

\* An approved or converted request was signed by every role its lines ask
\* for, and a client's request by no client (service.ts:580): editing,
\* submitting in several writes and dying halfway cannot leave one out.
SignedOff ==
  \A r \in Requests : request[r].status \in {"approved", "converted"} =>
    /\ \A i \in DOMAIN Chain(r, request[r].qty) :
         \E j \in DOMAIN rungs[r] :
           rungs[r][j] = [role |-> Chain(r, request[r].qty)[i],
                          decision |-> "approved"]
    /\ request[r].by = "client" =>
         \A j \in DOMAIN rungs[r] : rungs[r][j].role # "client"

\* A submitted request waits for somebody who may decide it (its own client
\* may not), or for a decision that is being counted.  Not after a crash
\* between the row and the count: that one waits for ever.
SubmittedIsDecidable ==
  \A r \in Requests : request[r].status = "submitted" /\ crashes = 0 =>
    \/ \E role \in Roles : MayDecide(r, role) /\ PendingRungs(r, role) # {}
    \/ \E p \in Procs : call[p].on = r /\ call[p].step \in {"tally", "rejected", "approved"}
=============================================================================
