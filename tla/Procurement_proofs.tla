------------------------- MODULE Procurement_proofs -------------------------
(***************************************************************************)
(* For any number of requests, orders, deliveries and operations in        *)
(* flight: what the claims of purchase orders and deliveries guarantee, as *)
(* long as an operation that claims runs beside claims only (the run       *)
(* procurement_stocked_twice shows what happens beside the others), up to  *)
(* that Procurement implements OrderBook; the types, without a condition;  *)
(* and what the approval chain guarantees, as long as edits, submissions   *)
(* and decisions do not run beside each other.                             *)
(***************************************************************************)
EXTENDS Procurement, SequenceTheorems, TLAPS

\* Claims run beside claims only.
ClaimsApart == \A group \in Overlap : group \cap Claims # {} => group \subseteq Claims

-----------------------------------------------------------------------------
(* The claims: their invariant.                                            *)

RowTypes ==
  /\ request \in [Requests -> RequestRow]
  /\ order \in [Orders -> OrderRow]
  /\ delivery \in [Deliveries -> DeliveryRow]

\* A suspended operation has five fields.
CallShape ==
  /\ call = [p \in Procs |-> call[p]]
  /\ \A p \in Procs :
       /\ call[p] = [op |-> call[p].op, on |-> call[p].on, step |-> call[p].step,
                     row |-> call[p].row, qty |-> call[p].qty]
       /\ call[p].qty \in 0..MaxLines

OnRequests == {"edit", "submit", "approve", "reject", "cancelRequest", "createOrder"}

\* What an operation in flight can rely on although it has let others run:
\* no claim runs beside an operation that does not claim.
CallOK(p) ==
  LET c == call[p] IN
  /\ c.op \in Ops \cup {"idle"}
  /\ c.step \in {"tally", "approved", "rejected"} => c.op \in {"approve", "reject"}
  /\ c.op \in OnRequests => c.on \in Requests
  /\ c.op \in {"submit", "approve", "reject"} => request[c.on].status # "converted"
  /\ c.op \in {"send", "confirm"} =>
       c.on \in Orders /\ order[c.on].status \in {"approved", "sent", "confirmed"}
  /\ c.op = "close" => c.on \in Orders /\ order[c.on].status \in {"delivered", "closed"}
  /\ c.op \in {"dispatch", "cancelOrder"} => c.on \in Orders
  /\ c.op \in {"transit", "arrive"} =>
       c.on \in Deliveries /\ delivery[c.on].status \in InFlight
  /\ c.op \in {"void", "receive"} =>
       c.on \in Deliveries /\ delivery[c.on].status # "none"
  /\ c.op = "receive" => c.qty <= order[delivery[c.on].order].qty

Apart ==
  \A p, q \in Procs :
    p # q /\ call[p].op \in Claims => call[q].op \in Claims \cup {"idle"}

\* Orders and the requests they stand on.
OrdersOK ==
  /\ \A o \in Orders :
       /\ order[o].status = "none" <=> order[o].of = NoTarget
       /\ order[o].status # "none" => request[order[o].of].status = "converted"
       /\ order[o].stocked <= order[o].qty
       /\ order[o].stocked > 0 => order[o].status \in {"delivered", "closed"}
  /\ \A x, y \in Orders :
       order[x].status # "none" /\ order[x].of = order[y].of => x = y

\* Deliveries and their orders.
DeliveriesOK ==
  /\ \A d \in Deliveries :
       /\ delivery[d].status = "none" <=> delivery[d].order = NoTarget
       /\ delivery[d].status # "none" => order[delivery[d].order].status # "none"
       /\ delivery[d].status \in InFlight =>
            order[delivery[d].order].status = "delivering"
       /\ delivery[d].status \in {"received", "discrepancy"} =>
            order[delivery[d].order].status \in {"delivered", "closed"}
  /\ \A d, e \in Deliveries :
       /\ delivery[d].order = delivery[e].order
       /\ delivery[d].status \notin {"none", "cancelled"}
       /\ delivery[e].status \notin {"none", "cancelled"}
       => d = e

CallsOK == \A p \in Procs : CallOK(p)

ClaimInv == RowTypes /\ CallShape /\ CallsOK /\ Apart /\ OrdersOK /\ DeliveriesOK

-----------------------------------------------------------------------------
(* What the steps of an operation do to it.                                *)

LEMMA AnswerEffect ==
  ASSUME CallShape, Apart, NEW p \in Procs, Answer(p)
  PROVE  /\ CallShape' /\ Apart'
         /\ call'[p] = Idle /\ \A q \in Procs \ {p} : call'[q] = call[q]
<1>1. call'[p] = Idle /\ \A q \in Procs \ {p} : call'[q] = call[q]
  BY DEF Answer, CallShape
<1>2. CallShape'
  <2>1. 0 \in 0..MaxLines BY ProcurementAssumption
  <2>. QED BY <1>1, <2>1 DEF Answer, CallShape, Idle
<1>3. Idle.op = "idle" /\ "idle" \notin Claims BY DEF Idle, Claims
<1>. QED BY <1>1, <1>2, <1>3 DEF Apart

LEMMA GotoEffect ==
  ASSUME CallShape, Apart, NEW p \in Procs, NEW step, NEW row, Goto(p, step, row)
  PROVE  /\ CallShape' /\ Apart'
         /\ call'[p].op = call[p].op /\ call'[p].on = call[p].on
         /\ call'[p].step = step /\ call'[p].qty = call[p].qty
         /\ \A q \in Procs \ {p} : call'[q] = call[q]
<1>1. \A q \in Procs \ {p} : call'[q] = call[q] BY DEF Goto, CallShape
<1>2. call'[p] = [op |-> call[p].op, on |-> call[p].on, step |-> step,
                  row |-> row, qty |-> call[p].qty]
  BY DEF Goto, CallShape
<1>3. CallShape' BY <1>1, <1>2 DEF Goto, CallShape
<1>4. Apart' BY <1>1, <1>2 DEF Apart
<1>. QED BY <1>1, <1>2, <1>3, <1>4

LEMMA SuspendEffect ==
  ASSUME ClaimsApart, CallShape, Apart, NEW p \in Procs, NEW op, NEW on, NEW row,
         NEW qty \in 0..MaxLines, Suspend(p, op, on, row, qty)
  PROVE  /\ CallShape' /\ Apart'
         /\ call'[p] = [op |-> op, on |-> on, step |-> "read", row |-> row, qty |-> qty]
         /\ \A q \in Procs \ {p} : call'[q] = call[q]
         /\ \A q \in Procs : Compatible(op, call[q].op)
         /\ request' = request /\ order' = order /\ delivery' = delivery
<1>1. /\ call'[p] = [op |-> op, on |-> on, step |-> "read", row |-> row, qty |-> qty]
      /\ \A q \in Procs \ {p} : call'[q] = call[q]
  BY DEF Suspend, CallShape
<1>2. CallShape' BY <1>1 DEF Suspend, CallShape
<1>3. \A q \in Procs : Compatible(op, call[q].op) BY DEF Suspend
<1>4. ASSUME NEW q \in Procs \ {p}
      PROVE  /\ op \in Claims => call[q].op \in Claims \cup {"idle"}
             /\ call[q].op \in Claims => op \in Claims \cup {"idle"}
  BY <1>3 DEF Compatible, ClaimsApart, Claims
<1>5. Apart' BY <1>1, <1>4 DEF Apart
<1>. QED BY <1>1, <1>2, <1>3, <1>5 DEF Suspend

\* An order's status is written, and nothing else of it.
LEMMA OrderEffect ==
  ASSUME order \in [Orders -> OrderRow], NEW o \in Orders, NEW s \in OrderStatus,
         order' = [order EXCEPT ![o].status = s]
  PROVE  /\ order' \in [Orders -> OrderRow]
         /\ order'[o].status = s
         /\ \A x \in Orders :
              /\ order'[x].of = order[x].of /\ order'[x].qty = order[x].qty
              /\ order'[x].stocked = order[x].stocked
              /\ x # o => order'[x] = order[x]
BY DEF OrderRow

\* A request's status is written, and nothing else of it.
LEMMA RequestEffect ==
  ASSUME request \in [Requests -> RequestRow], NEW r \in Requests, NEW s \in RequestStatus,
         SetRequest(r, s)
  PROVE  /\ request' \in [Requests -> RequestRow]
         /\ request'[r].status = s
         /\ \A x \in Requests \ {r} : request'[x] = request[x]
BY DEF RequestRow, SetRequest

\* A delivery's status is written, and nothing else of it.
LEMMA DeliveryEffect ==
  ASSUME delivery \in [Deliveries -> DeliveryRow], NEW d \in Deliveries,
         NEW s \in DeliveryStatus, delivery' = [delivery EXCEPT ![d].status = s]
  PROVE  /\ delivery' \in [Deliveries -> DeliveryRow]
         /\ delivery'[d].status = s
         /\ \A x \in Deliveries :
              /\ delivery'[x].order = delivery[x].order
              /\ x # d => delivery'[x] = delivery[x]
BY DEF DeliveryRow

\* An operation that is not under way relies on nothing.
LEMMA IdleIsOK ==
  ASSUME NEW p \in Procs, call'[p] = Idle
  PROVE  CallOK(p)'
<1>1. Idle.op = "idle" /\ Idle.step = "read" BY DEF Idle
<1>. QED BY <1>1 DEF CallOK, OnRequests

\* As long as no status changes, what a call relies on stands.
LEMMA CallStays ==
  ASSUME NEW p \in Procs, CallOK(p), call'[p] = call[p],
         order' = order, delivery' = delivery,
         \A r \in Requests : request'[r].status = request[r].status
  PROVE  CallOK(p)'
BY DEF CallOK, OnRequests

\* As long as no status changes, the rows agree.
LEMMA RowsStay ==
  ASSUME ClaimInv, request' \in [Requests -> RequestRow],
         order' = order, delivery' = delivery,
         \A r \in Requests : request'[r].status = request[r].status
  PROVE  RowTypes' /\ OrdersOK' /\ DeliveriesOK'
<1>1. ASSUME NEW o \in Orders, order[o].status # "none" PROVE order[o].of \in Requests
  <2>1. order[o].of \in Requests \cup {NoTarget} BY DEF ClaimInv, RowTypes, OrderRow
  <2>. QED BY <1>1, <2>1 DEF ClaimInv, OrdersOK
<1>2. RowTypes' BY DEF ClaimInv, RowTypes
<1>3. OrdersOK' BY <1>1 DEF ClaimInv, OrdersOK
<1>4. DeliveriesOK' BY DEF ClaimInv, DeliveriesOK
<1>. QED BY <1>2, <1>3, <1>4

-----------------------------------------------------------------------------
(* Reading: an operation starts.                                           *)

LEMMA ReadingKeeps ==
  ASSUME ClaimsApart, ClaimInv, NEW p \in Procs, NEW op, NEW on, NEW row,
         NEW qty \in 0..MaxLines, Suspend(p, op, on, row, qty),
         \/ op \in {"edit", "cancelRequest", "createOrder"} /\ on \in Requests
         \/ /\ op \in {"submit", "approve", "reject"} /\ on \in Requests
            /\ request[on].status # "converted"
         \/ op \in {"send", "confirm", "close"} /\ on \in Orders /\ order[on].status = Before(op)
         \/ op \in {"dispatch", "cancelOrder"} /\ on \in Orders
         \/ /\ op \in {"transit", "arrive"} /\ on \in Deliveries
            /\ delivery[on].status \in InFlight
         \/ /\ op \in {"void", "receive"} /\ on \in Deliveries /\ delivery[on].status # "none"
            /\ op = "receive" => qty <= order[delivery[on].order].qty
  PROVE  ClaimInv'
<1>1. /\ CallShape' /\ Apart'
      /\ call'[p] = [op |-> op, on |-> on, step |-> "read", row |-> row, qty |-> qty]
      /\ \A q \in Procs \ {p} : call'[q] = call[q]
      /\ request' = request /\ order' = order /\ delivery' = delivery
  BY SuspendEffect DEF ClaimInv
<1>2. /\ call'[p].op = op /\ call'[p].on = on /\ call'[p].step = "read"
      /\ call'[p].qty = qty
  BY <1>1
<1>3. CallOK(p)' BY <1>1, <1>2 DEF CallOK, Ops, OnRequests, Before
<1>4. ASSUME NEW q \in Procs \ {p} PROVE CallOK(q)'
  BY <1>1, CallStays DEF ClaimInv, CallsOK
<1>5. RowTypes' /\ OrdersOK' /\ DeliveriesOK' BY <1>1, RowsStay DEF ClaimInv, RowTypes
<1>. QED BY <1>1, <1>3, <1>4, <1>5 DEF ClaimInv, CallsOK

LEMMA ReadsKeep ==
  ASSUME ClaimsApart, ClaimInv, NEW p \in Procs,
         \/ \E r \in Requests : \/ \E q \in 1..MaxLines : ReadEdit(p, r, q)
                                \/ ReadSubmit(p, r) \/ ReadWithdrawal(p, r)
                                \/ ReadForOrder(p, r)
                                \/ \E role \in Roles, op \in {"approve", "reject"} :
                                     ReadDecision(p, r, role, op)
         \/ \E o \in Orders : \/ \E op \in {"send", "confirm", "close"} : ReadOrder(p, op, o)
                              \/ ReadDispatch(p, o) \/ ReadCancelOrder(p, o)
         \/ \E d \in Deliveries : \/ ReadVoid(p, d)
                                  \/ \E op \in {"transit", "arrive"} : ReadLeg(p, op, d)
                                  \/ \E q \in 0..MaxLines : ReadReceipt(p, d, q)
  PROVE  ClaimInv'
<1>0. 0 \in 0..MaxLines /\ 1..MaxLines \subseteq 0..MaxLines BY ProcurementAssumption
<1>1. ASSUME NEW r \in Requests, NEW q \in 1..MaxLines, ReadEdit(p, r, q) PROVE ClaimInv'
  BY <1>0, <1>1, ReadingKeeps DEF ReadEdit
<1>2. ASSUME NEW r \in Requests, ReadSubmit(p, r) PROVE ClaimInv'
  <2>1. request[r].qty \in 0..MaxLines /\ request[r].status # "converted"
    BY <1>2 DEF ReadSubmit, ClaimInv, RowTypes, RequestRow
  <2>2. Suspend(p, "submit", r, 1, request[r].qty) BY <1>2 DEF ReadSubmit
  <2>. QED BY <2>1, <2>2, ReadingKeeps
<1>3. ASSUME NEW r \in Requests, ReadWithdrawal(p, r) PROVE ClaimInv'
  BY <1>0, <1>3, ReadingKeeps DEF ReadWithdrawal
<1>4. ASSUME NEW r \in Requests, ReadForOrder(p, r) PROVE ClaimInv'
  <2>1. request[r].qty \in 0..MaxLines BY DEF ClaimInv, RowTypes, RequestRow
  <2>2. Suspend(p, "createOrder", r, 0, request[r].qty) BY <1>4 DEF ReadForOrder
  <2>. QED BY <2>1, <2>2, ReadingKeeps
<1>5. ASSUME NEW r \in Requests, NEW role, NEW op \in {"approve", "reject"},
             ReadDecision(p, r, role, op)
      PROVE  ClaimInv'
  <2>1. request[r].status # "converted" /\ \E i : Suspend(p, op, r, i, 0)
    BY <1>5 DEF ReadDecision
  <2>. QED BY <1>0, <2>1, ReadingKeeps
<1>6. ASSUME NEW o \in Orders, NEW op \in {"send", "confirm", "close"}, ReadOrder(p, op, o)
      PROVE  ClaimInv'
  BY <1>0, <1>6, ReadingKeeps DEF ReadOrder
<1>7. ASSUME NEW o \in Orders, ReadDispatch(p, o) \/ ReadCancelOrder(p, o) PROVE ClaimInv'
  BY <1>0, <1>7, ReadingKeeps DEF ReadDispatch, ReadCancelOrder
<1>8. ASSUME NEW d \in Deliveries, ReadVoid(p, d) PROVE ClaimInv'
  <2>1. delivery[d].status # "none" /\ Suspend(p, "void", d, 0, 0)
    BY <1>8 DEF ReadVoid, InFlight
  <2>. QED BY <1>0, <2>1, ReadingKeeps
<1>9. ASSUME NEW d \in Deliveries, NEW op \in {"transit", "arrive"}, ReadLeg(p, op, d)
      PROVE  ClaimInv'
  <2>1. delivery[d].status \in InFlight /\ Suspend(p, op, d, 0, 0)
    BY <1>9 DEF ReadLeg, InFlight, EnRoute
  <2>. QED BY <1>0, <2>1, ReadingKeeps
<1>10. ASSUME NEW d \in Deliveries, NEW q \in 0..MaxLines, ReadReceipt(p, d, q)
       PROVE  ClaimInv'
  <2>1. /\ delivery[d].status # "none" /\ q <= order[delivery[d].order].qty
        /\ Suspend(p, "receive", d, 0, q)
    BY <1>10 DEF ReadReceipt, ReceiveClaim, Receivable
  <2>. QED BY <2>1, ReadingKeeps
<1>. QED BY <1>1, <1>2, <1>3, <1>4, <1>5, <1>6, <1>7, <1>8, <1>9, <1>10

-----------------------------------------------------------------------------
(* Writing a request.                                                      *)

\* An answer, or a step that goes on, without a status being written.
LEMMA NothingWritten ==
  ASSUME ClaimInv, NEW p \in Procs, CallShape', Apart', CallOK(p)',
         \A q \in Procs \ {p} : call'[q] = call[q],
         request' \in [Requests -> RequestRow], order' = order, delivery' = delivery,
         \A r \in Requests : request'[r].status = request[r].status
  PROVE  ClaimInv'
<1>1. ASSUME NEW q \in Procs \ {p} PROVE CallOK(q)' BY CallStays DEF ClaimInv, CallsOK
<1>2. RowTypes' /\ OrdersOK' /\ DeliveriesOK' BY RowsStay
<1>. QED BY <1>1, <1>2 DEF ClaimInv, CallsOK

\* The status of a request no order stands on is written, not "converted".
LEMMA StatusWritten ==
  ASSUME ClaimInv, CallShape', Apart', order' = order, delivery' = delivery,
         NEW r \in Requests, request[r].status # "converted",
         request' \in [Requests -> RequestRow], request'[r].status # "converted",
         \A x \in Requests \ {r} : request'[x] = request[x],
         \A q \in Procs : call'[q] \in {call[q], Idle}
  PROVE  ClaimInv'
<1>1. ASSUME NEW q \in Procs PROVE CallOK(q)'
  <2>1. CASE call'[q] = Idle BY <2>1, IdleIsOK
  <2>2. CASE call'[q] = call[q]
    <3>1. CallOK(q) BY DEF ClaimInv, CallsOK
    <3>. QED BY <2>2, <3>1 DEF CallOK, OnRequests
  <2>. QED BY <2>1, <2>2
<1>2. \A o \in Orders : order[o].status # "none" => order[o].of \in Requests \ {r}
  <2>. SUFFICES ASSUME NEW o \in Orders, order[o].status # "none"
                PROVE  order[o].of \in Requests \ {r}
    OBVIOUS
  <2>1. order[o].of \in Requests \cup {NoTarget} BY DEF ClaimInv, RowTypes, OrderRow
  <2>. QED BY <2>1 DEF ClaimInv, OrdersOK
<1>3. OrdersOK' BY <1>2 DEF ClaimInv, OrdersOK
<1>4. DeliveriesOK' BY DEF ClaimInv, DeliveriesOK
<1>5. RowTypes' BY DEF ClaimInv, RowTypes
<1>. QED BY <1>1, <1>3, <1>4, <1>5 DEF ClaimInv, CallsOK

LEMMA RequestStepsKeep ==
  ASSUME ClaimInv, NEW p \in Procs,
         \/ EditClear(p) \/ EditLines(p) \/ FileRung(p) \/ FileStatus(p)
         \/ DecideRung(p) \/ Tally(p) \/ Settle(p)
         \/ CancelRequest(p) \/ CancelRequestRefused(p)
         \/ CreateOrderRefused(p) \/ DispatchRefused(p) \/ CancelOrderRefused(p)
         \/ VoidRefused(p) \/ ReceiveRefused(p)
  PROVE  ClaimInv'
<1>. DEFINE r == call[p].on
<1>0. /\ CallShape /\ Apart /\ CallOK(p) /\ request \in [Requests -> RequestRow]
  BY DEF ClaimInv, CallsOK, RowTypes
<1>1. CASE EditClear(p) \/ EditLines(p)
  <2>1. r \in Requests BY <1>0, <1>1 DEF EditClear, EditLines, At, CallOK, OnRequests
  <2>2. \E n \in 0..MaxLines : request' = [request EXCEPT ![r].qty = n]
    <3>1. CASE EditClear(p)
      <4>1. 0 \in 0..MaxLines BY ProcurementAssumption
      <4>2. request' = [request EXCEPT ![r].qty = 0] BY <3>1 DEF EditClear
      <4>. QED BY <4>1, <4>2, Zenon
    <3>2. CASE EditLines(p)
      <4>1. request[r].qty + call[p].qty \in 0..MaxLines
        BY <1>0, <2>1, <3>2, ProcurementAssumption DEF EditLines, CallShape, RequestRow
      <4>. QED BY <3>2, <4>1 DEF EditLines
    <3>. QED BY <1>1, <3>1, <3>2
  <2>3. PICK n \in 0..MaxLines : request' = [request EXCEPT ![r].qty = n] BY <2>2
  <2>4. /\ request' \in [Requests -> RequestRow]
        /\ \A x \in Requests : request'[x].status = request[x].status
    BY <1>0, <2>1, <2>3 DEF RequestRow
  <2>5. order' = order /\ delivery' = delivery BY <1>1 DEF EditClear, EditLines
  <2>6. CASE EditClear(p)
    <3>1. Goto(p, "lines", 0) BY <2>6 DEF EditClear
    <3>2. /\ CallShape' /\ Apart' /\ call'[p].op = "edit" /\ call'[p].on = r
          /\ call'[p].step = "lines" /\ \A q \in Procs \ {p} : call'[q] = call[q]
      BY <1>0, <2>6, <3>1, GotoEffect DEF EditClear, At
    <3>3. CallOK(p)' BY <2>1, <3>2 DEF CallOK, OnRequests, Ops
    <3>. QED BY <2>4, <2>5, <3>2, <3>3, NothingWritten
  <2>7. CASE EditLines(p)
    <3>1. Answer(p) BY <2>7 DEF EditLines
    <3>. QED BY <1>0, <2>4, <2>5, <3>1, AnswerEffect, IdleIsOK, NothingWritten
  <2>. QED BY <1>1, <2>6, <2>7
<1>2. CASE FileRung(p) \/ DecideRung(p) \/ Tally(p)
  <2>1. request' = request /\ order' = order /\ delivery' = delivery
    BY <1>2 DEF FileRung, DecideRung, Tally
  <2>2. (\E step, row : /\ Goto(p, step, row)
                        /\ \/ step = "read"
                           \/ call[p].op \in {"approve", "reject"})
          \/ Answer(p)
    BY <1>0, <1>2 DEF FileRung, DecideRung, Tally, CallOK
  <2>3. CASE Answer(p)
    BY <1>0, <2>1, <2>3, AnswerEffect, IdleIsOK, NothingWritten
  <2>4. ASSUME NEW step, NEW row, Goto(p, step, row),
               step = "read" \/ call[p].op \in {"approve", "reject"}
        PROVE  ClaimInv'
    <3>1. /\ CallShape' /\ Apart' /\ call'[p].op = call[p].op /\ call'[p].on = r
          /\ call'[p].step = step /\ call'[p].qty = call[p].qty
          /\ \A q \in Procs \ {p} : call'[q] = call[q]
      BY <1>0, <2>4, GotoEffect
    <3>2. CallOK(p)' BY <1>0, <2>1, <2>4, <3>1 DEF CallOK
    <3>. QED BY <1>0, <2>1, <3>1, <3>2, NothingWritten
  <2>. QED BY <2>2, <2>3, <2>4
<1>3. CASE FileStatus(p) \/ Settle(p)
  <2>1. /\ call[p].op \in {"submit", "approve", "reject"} /\ r \in Requests
        /\ request[r].status # "converted"
    BY <1>0, <1>3 DEF FileStatus, Settle, At, CallOK, OnRequests
  <2>2. \E s \in RequestStatus \ {"converted"} : SetRequest(r, s)
    BY <1>3 DEF FileStatus, Settle, RequestStatus
  <2>3. PICK s \in RequestStatus \ {"converted"} : SetRequest(r, s) BY <2>2
  <2>4. /\ request' \in [Requests -> RequestRow] /\ request'[r].status = s
        /\ \A x \in Requests \ {r} : request'[x] = request[x]
    BY <1>0, <2>1, <2>3, RequestEffect
  <2>5. Answer(p) /\ order' = order /\ delivery' = delivery BY <1>3 DEF FileStatus, Settle
  <2>6. CallShape' /\ Apart' /\ \A q \in Procs : call'[q] \in {call[q], Idle}
    BY <1>0, <2>5, AnswerEffect
  <2>. HIDE DEF r
  <2>. QED BY <2>1, <2>3, <2>4, <2>5, <2>6, StatusWritten
<1>4. CASE CancelRequest(p)
  <2>1. r \in Requests /\ request[r].status # "converted" /\ SetRequest(r, "cancelled")
    BY <1>0, <1>4 DEF CancelRequest, At, CallOK, OnRequests, Withdrawable
  <2>2. "cancelled" \in RequestStatus BY DEF RequestStatus
  <2>4. /\ request' \in [Requests -> RequestRow] /\ request'[r].status = "cancelled"
        /\ \A x \in Requests \ {r} : request'[x] = request[x]
    BY <1>0, <2>1, <2>2, RequestEffect
  <2>5. Answer(p) /\ order' = order /\ delivery' = delivery BY <1>4 DEF CancelRequest
  <2>6. CallShape' /\ Apart' /\ \A q \in Procs : call'[q] \in {call[q], Idle}
    BY <1>0, <2>5, AnswerEffect
  <2>. HIDE DEF r
  <2>. QED BY <2>1, <2>4, <2>5, <2>6, StatusWritten
<1>5. CASE \/ CancelRequestRefused(p) \/ CreateOrderRefused(p) \/ DispatchRefused(p)
           \/ CancelOrderRefused(p) \/ VoidRefused(p) \/ ReceiveRefused(p)
  <2>1. Answer(p) /\ request' = request /\ order' = order /\ delivery' = delivery
    BY <1>5 DEF CancelRequestRefused, CreateOrderRefused, DispatchRefused,
                CancelOrderRefused, VoidRefused, ReceiveRefused, Refuse
  <2>. QED BY <1>0, <2>1, AnswerEffect, IdleIsOK, NothingWritten
<1>. QED BY <1>1, <1>2, <1>3, <1>4, <1>5

-----------------------------------------------------------------------------
(* Writing orders and deliveries.                                          *)

\* What a delivery and an order stand on exists.
LEMMA RowsPoint ==
  ASSUME ClaimInv
  PROVE  /\ \A d \in Deliveries : delivery[d].status # "none" => delivery[d].order \in Orders
         /\ \A o \in Orders : order[o].status # "none" => order[o].of \in Requests
BY DEF ClaimInv, RowTypes, DeliveryRow, OrderRow, DeliveriesOK, OrdersOK

\* A step that answers one call: the others rely on what they relied on.
LEMMA Answering ==
  ASSUME ClaimInv, NEW p \in Procs, Answer(p), RowTypes', OrdersOK', DeliveriesOK',
         \A q \in Procs \ {p} : call'[q] = call[q] => CallOK(q)'
  PROVE  ClaimInv'
<1>1. /\ CallShape' /\ Apart' /\ call'[p] = Idle
      /\ \A q \in Procs \ {p} : call'[q] = call[q]
  BY AnswerEffect DEF ClaimInv
<1>2. CallOK(p)' BY <1>1, IdleIsOK
<1>. QED BY <1>1, <1>2 DEF ClaimInv, CallsOK

\* sendOrder, confirmOrder and closeOrder, although written by id.
LEMMA WriteOrderKeeps ==
  ASSUME ClaimInv, NEW p \in Procs, WriteOrder(p)
  PROVE  ClaimInv'
<1>. DEFINE o == call[p].on
            s == After(call[p].op)
<1>1. CallOK(p) /\ call[p].op \in {"send", "confirm", "close"} /\ o \in Orders
  BY DEF ClaimInv, CallsOK, WriteOrder, CallOK
<1>2. \/ order[o].status \in {"approved", "sent", "confirmed"} /\ s \in {"sent", "confirmed"}
          /\ call[p].op # "close"
      \/ order[o].status \in {"delivered", "closed"} /\ s = "closed" /\ call[p].op = "close"
  BY <1>1 DEF CallOK, After
<1>3. /\ order' = [order EXCEPT ![o].status = s] /\ Answer(p)
      /\ request' = request /\ delivery' = delivery
  BY DEF WriteOrder
<1>. HIDE DEF s
<1>4. s \in OrderStatus BY <1>2 DEF OrderStatus
<1>5. /\ order' \in [Orders -> OrderRow] /\ order'[o].status = s
      /\ \A x \in Orders :
           /\ order'[x].of = order[x].of /\ order'[x].qty = order[x].qty
           /\ order'[x].stocked = order[x].stocked
           /\ x # o => order'[x] = order[x]
  BY <1>1, <1>3, <1>4, OrderEffect DEF ClaimInv, RowTypes
<1>. HIDE DEF o
<1>6. RowTypes' BY <1>3, <1>5 DEF ClaimInv, RowTypes
<1>7. OrdersOK'
  <2>1. \A x \in Orders : order[x].stocked \in Nat BY DEF ClaimInv, RowTypes, OrderRow
  <2>. QED BY <1>1, <1>2, <1>3, <1>5, <2>1 DEF ClaimInv, OrdersOK
<1>8. DeliveriesOK'
  BY <1>1, <1>2, <1>3, <1>5, RowsPoint DEF ClaimInv, DeliveriesOK, InFlight
<1>9. ASSUME NEW q \in Procs \ {p}, call'[q] = call[q] PROVE CallOK(q)'
  <2>1. CallOK(q) /\ call[q].op \notin Claims
    BY <1>1 DEF ClaimInv, CallsOK, Apart, Claims
  <2>. QED BY <1>2, <1>3, <1>5, <1>9, <2>1 DEF CallOK, Claims, OnRequests
<1>. QED BY <1>3, <1>6, <1>7, <1>8, <1>9, Answering

\* createOrder: the order and the claim on its request.
LEMMA CreateOrderKeeps ==
  ASSUME ClaimInv, NEW p \in Procs, NEW o \in Orders, CreateOrder(p, o)
  PROVE  ClaimInv'
<1>. DEFINE r == call[p].on
            new == [status |-> "approved", of |-> r, qty |-> call[p].qty, stocked |-> 0]
<1>1. /\ call[p].op = "createOrder" /\ r \in Requests /\ call[p].qty \in 0..MaxLines
      /\ request[r].status = "approved" /\ order[o].status = "none"
  BY DEF ClaimInv, CallsOK, CallShape, CreateOrder, At, CallOK, OnRequests, Convertible
<1>2. /\ order' = [order EXCEPT ![o] = new] /\ SetRequest(r, "converted") /\ Answer(p)
      /\ delivery' = delivery
  BY DEF CreateOrder
<1>3. new \in OrderRow BY <1>1 DEF OrderRow, OrderStatus
<1>4. /\ new.status = "approved" /\ new.of = r /\ new.stocked = 0
      /\ new.stocked <= new.qty
  BY <1>1
<1>. HIDE DEF new, r
<1>5. /\ order' \in [Orders -> OrderRow] /\ order'[o] = new
      /\ \A x \in Orders \ {o} : order'[x] = order[x]
  BY <1>2, <1>3 DEF ClaimInv, RowTypes
<1>6. /\ request' \in [Requests -> RequestRow] /\ request'[r].status = "converted"
      /\ \A x \in Requests \ {r} : request'[x] = request[x]
  <2>1. "converted" \in RequestStatus BY DEF RequestStatus
  <2>. QED BY <1>1, <1>2, <2>1, RequestEffect DEF ClaimInv, RowTypes
<1>7. RowTypes' BY <1>2, <1>5, <1>6 DEF ClaimInv, RowTypes
<1>8. r # NoTarget BY <1>1, ProcurementAssumption
<1>9. \A x \in Orders \ {o} : order[x].of # r BY <1>1, <1>8 DEF ClaimInv, OrdersOK
<1>10. OrdersOK'
  BY <1>1, <1>4, <1>5, <1>6, <1>8, <1>9, RowsPoint DEF ClaimInv, OrdersOK
<1>11. \A d \in Deliveries : delivery[d].status # "none" => delivery[d].order \in Orders \ {o}
  BY <1>1, RowsPoint DEF ClaimInv, DeliveriesOK
<1>12. DeliveriesOK' BY <1>2, <1>5, <1>11 DEF ClaimInv, DeliveriesOK, InFlight
<1>13. ASSUME NEW q \in Procs \ {p}, call'[q] = call[q] PROVE CallOK(q)'
  <2>1. CallOK(q) /\ call[q].op \in Claims \cup {"idle"}
    BY <1>1 DEF ClaimInv, CallsOK, Apart, Claims
  <2>. QED BY <1>2, <1>5, <1>11, <1>13, <2>1 DEF CallOK, Claims, OnRequests
<1>. QED BY <1>2, <1>7, <1>10, <1>12, <1>13, Answering

\* dispatchOrder: the order is claimed, a delivery is created.
LEMMA DispatchKeeps ==
  ASSUME ClaimInv, NEW p \in Procs, NEW d \in Deliveries, Dispatch(p, d)
  PROVE  ClaimInv'
<1>. DEFINE o == call[p].on
            new == [status |-> "dispatched", order |-> o]
<1>1. /\ call[p].op = "dispatch" /\ o \in Orders
      /\ order[o].status \in {"sent", "confirmed"} /\ delivery[d].status = "none"
  BY DEF ClaimInv, CallsOK, Dispatch, At, CallOK, DispatchClaim, Dispatchable
<1>2. /\ order' = [order EXCEPT ![o].status = "delivering"] /\ Answer(p)
      /\ delivery' = [delivery EXCEPT ![d] = new] /\ request' = request
  BY DEF Dispatch
<1>3. new \in DeliveryRow /\ new.status = "dispatched" /\ new.order = o
  BY <1>1 DEF DeliveryRow, DeliveryStatus
<1>. HIDE DEF new, o
<1>4. /\ order' \in [Orders -> OrderRow] /\ order'[o].status = "delivering"
      /\ \A x \in Orders :
           /\ order'[x].of = order[x].of /\ order'[x].qty = order[x].qty
           /\ order'[x].stocked = order[x].stocked
           /\ x # o => order'[x] = order[x]
  <2>1. "delivering" \in OrderStatus BY DEF OrderStatus
  <2>. QED BY <1>1, <1>2, <2>1, OrderEffect DEF ClaimInv, RowTypes
<1>5. /\ delivery' \in [Deliveries -> DeliveryRow] /\ delivery'[d] = new
      /\ \A e \in Deliveries \ {d} : delivery'[e] = delivery[e]
  BY <1>2, <1>3 DEF ClaimInv, RowTypes
<1>6. RowTypes' BY <1>2, <1>4, <1>5 DEF ClaimInv, RowTypes
<1>7. OrdersOK'
  <2>1. \A x \in Orders : order[x].stocked \in Nat BY DEF ClaimInv, RowTypes, OrderRow
  <2>. QED BY <1>1, <1>2, <1>4, <2>1 DEF ClaimInv, OrdersOK
<1>8. o # NoTarget BY <1>1, ProcurementAssumption
<1>9. \A e \in Deliveries : delivery[e].order = o => delivery[e].status \in {"none", "cancelled"}
  <2>1. \A e \in Deliveries : delivery[e].status \in DeliveryStatus
    BY DEF ClaimInv, RowTypes, DeliveryRow
  <2>. QED BY <1>1, <2>1 DEF ClaimInv, DeliveriesOK, DeliveryStatus, InFlight
<1>10. DeliveriesOK'
  BY <1>1, <1>3, <1>4, <1>5, <1>8, <1>9, RowsPoint DEF ClaimInv, DeliveriesOK, InFlight
<1>11. ASSUME NEW q \in Procs \ {p}, call'[q] = call[q] PROVE CallOK(q)'
  <2>1. CallOK(q) /\ call[q].op \in Claims \cup {"idle"}
    BY <1>1 DEF ClaimInv, CallsOK, Apart, Claims
  <2>. QED BY <1>1, <1>2, <1>4, <1>5, <1>11, <2>1, RowsPoint DEF CallOK, Claims, OnRequests
<1>. QED BY <1>2, <1>6, <1>7, <1>10, <1>11, Answering

\* cancelOrder: the deliveries that could be received die with the order.
LEMMA CancelOrderKeeps ==
  ASSUME ClaimInv, NEW p \in Procs, CancelOrder(p)
  PROVE  ClaimInv'
<1>. DEFINE o == call[p].on
<1>1. /\ call[p].op = "cancelOrder" /\ o \in Orders
      /\ order[o].status \in {"sent", "confirmed", "delivering"}
  BY DEF ClaimInv, CallsOK, CancelOrder, At, CallOK, Cancellable
<1>2. /\ order' = [order EXCEPT ![o].status = "cancelled"] /\ Answer(p)
      /\ request' = request
      /\ delivery' = [e \in Deliveries |->
           IF delivery[e].order = o /\ delivery[e].status \in InFlight
             THEN [delivery[e] EXCEPT !.status = "cancelled"] ELSE delivery[e]]
  BY DEF CancelOrder
<1>. HIDE DEF o
<1>3. /\ order' \in [Orders -> OrderRow] /\ order'[o].status = "cancelled"
      /\ \A x \in Orders :
           /\ order'[x].of = order[x].of /\ order'[x].qty = order[x].qty
           /\ order'[x].stocked = order[x].stocked
           /\ x # o => order'[x] = order[x]
  <2>1. "cancelled" \in OrderStatus BY DEF OrderStatus
  <2>. QED BY <1>1, <1>2, <2>1, OrderEffect DEF ClaimInv, RowTypes
<1>4. /\ delivery' \in [Deliveries -> DeliveryRow]
      /\ \A e \in Deliveries :
           /\ delivery'[e].order = delivery[e].order
           /\ delivery'[e].status =
                IF delivery[e].order = o /\ delivery[e].status \in InFlight
                  THEN "cancelled" ELSE delivery[e].status
  <2>1. delivery \in [Deliveries -> DeliveryRow] BY DEF ClaimInv, RowTypes
  <2>. QED BY <1>2, <2>1 DEF DeliveryRow, DeliveryStatus
<1>5. RowTypes' BY <1>2, <1>3, <1>4 DEF ClaimInv, RowTypes
<1>6. OrdersOK'
  <2>1. \A x \in Orders : order[x].stocked \in Nat BY DEF ClaimInv, RowTypes, OrderRow
  <2>. QED BY <1>1, <1>2, <1>3, <2>1 DEF ClaimInv, OrdersOK
<1>7. DeliveriesOK'
  BY <1>1, <1>3, <1>4, RowsPoint DEF ClaimInv, DeliveriesOK, InFlight
<1>8. ASSUME NEW q \in Procs \ {p}, call'[q] = call[q] PROVE CallOK(q)'
  <2>1. CallOK(q) /\ call[q].op \in Claims \cup {"idle"}
    BY <1>1 DEF ClaimInv, CallsOK, Apart, Claims
  <2>2. \A e \in Deliveries : delivery[e].status # "none" => delivery'[e].status # "none"
    BY <1>4
  <2>. QED BY <1>2, <1>3, <1>4, <1>8, <2>1, <2>2, RowsPoint DEF CallOK, Claims, OnRequests
<1>. QED BY <1>2, <1>5, <1>6, <1>7, <1>8, Answering

\* voidDelivery: the order waits for another dispatch.
LEMMA VoidKeeps ==
  ASSUME ClaimInv, NEW p \in Procs, VoidDelivery(p)
  PROVE  ClaimInv'
<1>. DEFINE d == call[p].on
            o == delivery[d].order
<1>1. /\ call[p].op = "void" /\ d \in Deliveries /\ delivery[d].status \in InFlight
      /\ order[o].status = "delivering"
  BY DEF ClaimInv, CallsOK, VoidDelivery, At, CallOK, Voidable
<1>2. o \in Orders BY <1>1, RowsPoint DEF InFlight
<1>3. /\ order' = [order EXCEPT ![o].status = "confirmed"] /\ Answer(p)
      /\ delivery' = [delivery EXCEPT ![d].status = "cancelled"] /\ request' = request
  BY DEF VoidDelivery
<1>4. delivery[d].order = o OBVIOUS
<1>. HIDE DEF o, d
<1>5. /\ order' \in [Orders -> OrderRow] /\ order'[o].status = "confirmed"
      /\ \A x \in Orders :
           /\ order'[x].of = order[x].of /\ order'[x].qty = order[x].qty
           /\ order'[x].stocked = order[x].stocked
           /\ x # o => order'[x] = order[x]
  <2>1. "confirmed" \in OrderStatus BY DEF OrderStatus
  <2>. QED BY <1>2, <1>3, <2>1, OrderEffect DEF ClaimInv, RowTypes
<1>6. /\ delivery' \in [Deliveries -> DeliveryRow] /\ delivery'[d].status = "cancelled"
      /\ \A x \in Deliveries :
           /\ delivery'[x].order = delivery[x].order
           /\ x # d => delivery'[x] = delivery[x]
  <2>1. "cancelled" \in DeliveryStatus BY DEF DeliveryStatus
  <2>. QED BY <1>1, <1>3, <2>1, DeliveryEffect DEF ClaimInv, RowTypes
<1>7. RowTypes' BY <1>3, <1>5, <1>6 DEF ClaimInv, RowTypes
<1>8. OrdersOK'
  <2>1. \A x \in Orders : order[x].stocked \in Nat BY DEF ClaimInv, RowTypes, OrderRow
  <2>. QED BY <1>1, <1>2, <1>3, <1>5, <2>1 DEF ClaimInv, OrdersOK
<1>9. \A e \in Deliveries \ {d} : delivery[e].order = o => delivery[e].status \in {"none", "cancelled"}
  BY <1>1, <1>4 DEF ClaimInv, DeliveriesOK, InFlight
<1>10. DeliveriesOK'
  BY <1>1, <1>2, <1>4, <1>5, <1>6, <1>9, RowsPoint DEF ClaimInv, DeliveriesOK, InFlight
<1>11. ASSUME NEW q \in Procs \ {p}, call'[q] = call[q] PROVE CallOK(q)'
  <2>1. CallOK(q) /\ call[q].op \in Claims \cup {"idle"}
    BY <1>1 DEF ClaimInv, CallsOK, Apart, Claims
  <2>2. \A e \in Deliveries : delivery[e].status # "none" => delivery'[e].status # "none"
    BY <1>6
  <2>. QED BY <1>3, <1>5, <1>6, <1>11, <2>1, <2>2, RowsPoint DEF CallOK, Claims, OnRequests
<1>. QED BY <1>3, <1>7, <1>8, <1>10, <1>11, Answering

\* The driver's legs, although written by id.
LEMMA WriteLegKeeps ==
  ASSUME ClaimInv, NEW p \in Procs, WriteLeg(p)
  PROVE  ClaimInv'
<1>. DEFINE d == call[p].on
            s == IF call[p].op = "transit" THEN "in_transit" ELSE "arrived"
<1>1. /\ call[p].op \in {"transit", "arrive"} /\ d \in Deliveries
      /\ delivery[d].status \in InFlight /\ s \in {"in_transit", "arrived"}
  BY DEF ClaimInv, CallsOK, WriteLeg, CallOK
<1>2. /\ delivery' = [delivery EXCEPT ![d].status = s] /\ Answer(p)
      /\ request' = request /\ order' = order
  BY DEF WriteLeg
<1>. HIDE DEF s, d
<1>3. /\ delivery' \in [Deliveries -> DeliveryRow] /\ delivery'[d].status = s
      /\ \A x \in Deliveries :
           /\ delivery'[x].order = delivery[x].order
           /\ x # d => delivery'[x] = delivery[x]
  <2>1. s \in DeliveryStatus BY <1>1 DEF DeliveryStatus
  <2>. QED BY <1>1, <1>2, <2>1, DeliveryEffect DEF ClaimInv, RowTypes
<1>4. RowTypes' BY <1>2, <1>3 DEF ClaimInv, RowTypes
<1>5. OrdersOK' BY <1>2 DEF ClaimInv, OrdersOK
<1>6. DeliveriesOK' BY <1>1, <1>2, <1>3 DEF ClaimInv, DeliveriesOK, InFlight
<1>7. ASSUME NEW q \in Procs \ {p}, call'[q] = call[q] PROVE CallOK(q)'
  <2>1. CallOK(q) /\ call[q].op \notin Claims
    BY <1>1 DEF ClaimInv, CallsOK, Apart, Claims
  <2>2. s \in InFlight BY <1>1 DEF InFlight
  <2>. QED BY <1>1, <1>2, <1>3, <1>7, <2>1, <2>2 DEF CallOK, Claims, OnRequests
<1>. QED BY <1>2, <1>4, <1>5, <1>6, <1>7, Answering

\* receiveDelivery: what arrived is stocked, once.
LEMMA ReceiveKeeps ==
  ASSUME ClaimInv, NEW p \in Procs, ReceiveDelivery(p)
  PROVE  ClaimInv'
<1>. DEFINE d == call[p].on
            o == delivery[d].order
            n == call[p].qty
            s == IF n < order[o].qty THEN "discrepancy" ELSE "received"
<1>1. /\ call[p].op = "receive" /\ d \in Deliveries
      /\ delivery[d].status \in {"dispatched", "arrived"} /\ n <= order[o].qty
      /\ n \in 0..MaxLines
  BY DEF ClaimInv, CallsOK, CallShape, ReceiveDelivery, At, CallOK, ReceiveClaim, Receivable
<1>2. s \in {"received", "discrepancy"} OBVIOUS
<1>3. /\ order' = [order EXCEPT ![o] = [status |-> "delivered", of |-> @.of, qty |-> @.qty,
                                      stocked |-> @.stocked + n]]
      /\ Answer(p)
      /\ delivery' = [delivery EXCEPT ![d].status = s] /\ request' = request
  BY DEF ReceiveDelivery
<1>4. delivery[d].order = o OBVIOUS
<1>. HIDE DEF o, d, n, s
<1>5. o \in Orders /\ order[o].status = "delivering"
  BY <1>1, <1>4, RowsPoint DEF ClaimInv, DeliveriesOK, InFlight
<1>6. order[o].stocked = 0 /\ order[o].qty \in 0..MaxLines /\ \A x \in Orders : order[x].stocked \in Nat
  BY <1>5 DEF ClaimInv, OrdersOK, RowTypes, OrderRow
<1>7. /\ order' \in [Orders -> OrderRow] /\ order'[o].status = "delivered"
      /\ order'[o].stocked = n
      /\ \A x \in Orders :
           /\ order'[x].of = order[x].of /\ order'[x].qty = order[x].qty
           /\ x # o => order'[x] = order[x]
  <2>1. order \in [Orders -> OrderRow] /\ n \in Nat BY <1>1, ProcurementAssumption DEF ClaimInv, RowTypes
  <2>. QED BY <1>3, <1>5, <1>6, <2>1 DEF OrderRow, OrderStatus
<1>8. /\ delivery' \in [Deliveries -> DeliveryRow] /\ delivery'[d].status = s
      /\ \A x \in Deliveries :
           /\ delivery'[x].order = delivery[x].order
           /\ x # d => delivery'[x] = delivery[x]
  <2>1. s \in DeliveryStatus BY <1>2 DEF DeliveryStatus
  <2>. QED BY <1>1, <1>3, <2>1, DeliveryEffect DEF ClaimInv, RowTypes
<1>9. RowTypes' BY <1>3, <1>7, <1>8 DEF ClaimInv, RowTypes
<1>10. OrdersOK' BY <1>1, <1>3, <1>5, <1>6, <1>7 DEF ClaimInv, OrdersOK
<1>11. \A e \in Deliveries \ {d} : delivery[e].order = o => delivery[e].status \in {"none", "cancelled"}
  BY <1>1, <1>4 DEF ClaimInv, DeliveriesOK, InFlight
<1>12. DeliveriesOK'
  BY <1>1, <1>2, <1>4, <1>5, <1>7, <1>8, <1>11, RowsPoint DEF ClaimInv, DeliveriesOK, InFlight
<1>13. ASSUME NEW q \in Procs \ {p}, call'[q] = call[q] PROVE CallOK(q)'
  <2>1. CallOK(q) /\ call[q].op \in Claims \cup {"idle"}
    BY <1>1 DEF ClaimInv, CallsOK, Apart, Claims
  <2>2. \A e \in Deliveries : delivery[e].status # "none" => delivery'[e].status # "none"
    BY <1>2, <1>8
  <2>. QED BY <1>3, <1>7, <1>8, <1>13, <2>1, <2>2, RowsPoint DEF CallOK, Claims, OnRequests
<1>. QED BY <1>3, <1>9, <1>10, <1>12, <1>13, Answering

-----------------------------------------------------------------------------
(* What the claims guarantee.                                              *)

LEMMA InitClaims == Init => ClaimInv
<1>. SUFFICES ASSUME Init PROVE ClaimInv
  OBVIOUS
<1>0. 0 \in 0..MaxLines BY ProcurementAssumption
<1>1. RowTypes
  BY <1>0, ProcurementAssumption DEF Init, RowTypes, RequestRow, OrderRow, DeliveryRow,
     RequestStatus, OrderStatus, DeliveryStatus
<1>2. CallShape BY <1>0 DEF Init, CallShape, Idle
<1>3. Idle.op = "idle" /\ Idle.step = "read" BY DEF Idle
<1>4. CallsOK BY <1>3 DEF Init, CallsOK, CallOK, OnRequests
<1>5. Apart BY <1>3 DEF Init, Apart, Claims
<1>6. OrdersOK BY DEF Init, OrdersOK
<1>7. DeliveriesOK BY DEF Init, DeliveriesOK, InFlight
<1>. QED BY <1>1, <1>2, <1>4, <1>5, <1>6, <1>7 DEF ClaimInv

LEMMA StepClaims ==
  ASSUME ClaimsApart, ClaimInv, [Next]_vars
  PROVE  ClaimInv'
<1>1. ASSUME NEW r \in Requests, NEW q \in 1..MaxLines, CreateRequest(r, q) PROVE ClaimInv'
  <2>1. /\ request[r].status = "none"
        /\ request' = [request EXCEPT ![r].status = "draft", ![r].qty = q]
        /\ order' = order /\ delivery' = delivery /\ call' = call
    BY <1>1 DEF CreateRequest
  <2>2. q \in 0..MaxLines /\ request \in [Requests -> RequestRow]
    BY ProcurementAssumption DEF ClaimInv, RowTypes
  <2>3. /\ request' \in [Requests -> RequestRow] /\ request'[r].status = "draft"
        /\ \A x \in Requests \ {r} : request'[x] = request[x]
    BY <2>1, <2>2 DEF RequestRow, RequestStatus
  <2>4. CallShape' /\ Apart' BY <2>1 DEF ClaimInv, CallShape, Apart
  <2>. QED BY <2>1, <2>3, <2>4, StatusWritten
<1>2. ASSUME NEW p \in Procs, RequestStep(p) PROVE ClaimInv'
  BY <1>2, ReadsKeep, RequestStepsKeep DEF RequestStep
<1>3. ASSUME NEW p \in Procs, OrderStep(p) PROVE ClaimInv'
  BY <1>3, ReadsKeep, RequestStepsKeep, CreateOrderKeeps, WriteOrderKeeps, CancelOrderKeeps
     DEF OrderStep
<1>4. ASSUME NEW p \in Procs, DeliveryStep(p) PROVE ClaimInv'
  BY <1>4, ReadsKeep, RequestStepsKeep, DispatchKeeps, VoidKeeps, WriteLegKeeps, ReceiveKeeps
     DEF DeliveryStep
<1>5. ASSUME Crash PROVE ClaimInv'
  <2>1. /\ call' = [p \in Procs |-> Idle] /\ request' = request /\ order' = order
        /\ delivery' = delivery
    BY <1>5 DEF Crash
  <2>2. CallsOK' BY <2>1, IdleIsOK DEF CallsOK
  <2>3. 0 \in 0..MaxLines BY ProcurementAssumption
  <2>4. CallShape' BY <2>1, <2>3 DEF CallShape, Idle
  <2>5. Idle.op = "idle" BY DEF Idle
  <2>6. Apart' BY <2>1, <2>5 DEF Apart, Claims
  <2>7. RowTypes' /\ OrdersOK' /\ DeliveriesOK' BY <2>1, RowsStay DEF ClaimInv, RowTypes
  <2>. QED BY <2>2, <2>4, <2>6, <2>7 DEF ClaimInv
<1>6. ASSUME UNCHANGED vars PROVE ClaimInv'
  <2>1. request' = request /\ order' = order /\ delivery' = delivery /\ call' = call
    BY <1>6 DEF vars
  <2>. QED BY <2>1 DEF ClaimInv, RowTypes, CallShape, CallsOK, CallOK, Apart, OrdersOK,
                      DeliveriesOK
<1>. QED BY <1>1, <1>2, <1>3, <1>4, <1>5, <1>6 DEF Next

\* However claims interleave, a purchase order stands on a request that was
\* converted into it and into no other order (createOrder, cancelRequest).
THEOREM OrdersAlwaysCommitted ==
  ASSUME ClaimsApart PROVE Spec => []OrdersAreCommitted
<1>1. ClaimInv => OrdersAreCommitted BY DEF ClaimInv, OrdersOK, OrdersAreCommitted
<1>2. ClaimInv /\ [Next]_vars => ClaimInv' BY StepClaims
<1>. QED BY <1>1, <1>2, InitClaims, PTL DEF Spec

\* However claims interleave, a cancelled order was never stocked and leaves
\* nothing to receive (cancelOrder, dispatchOrder, receiveDelivery).
THEOREM CancelledAreNeverStocked ==
  ASSUME ClaimsApart PROVE Spec => []CancelledNeverStocked
<1>1. ClaimInv => CancelledNeverStocked
  <2>. SUFFICES ASSUME ClaimInv, NEW o \in Orders, order[o].status = "cancelled"
                PROVE  /\ order[o].stocked = 0
                       /\ \A d \in Deliveries : delivery[d].order = o
                            => delivery[d].status \notin InFlight
    BY DEF CancelledNeverStocked
  <2>1. order[o].stocked \in Nat BY DEF ClaimInv, RowTypes, OrderRow
  <2>. QED BY <2>1 DEF ClaimInv, OrdersOK, DeliveriesOK
<1>2. ClaimInv /\ [Next]_vars => ClaimInv' BY StepClaims
<1>. QED BY <1>1, <1>2, InitClaims, PTL DEF Spec

\* However claims interleave, no more is stocked for an order than it ordered
\* (receiveDelivery, voidDelivery).
THEOREM StockedAtMostOnce ==
  ASSUME ClaimsApart PROVE Spec => []StockedOnce
<1>1. ClaimInv => StockedOnce BY DEF ClaimInv, OrdersOK, StockedOnce
<1>2. ClaimInv /\ [Next]_vars => ClaimInv' BY StepClaims
<1>. QED BY <1>1, <1>2, InitClaims, PTL DEF Spec

-----------------------------------------------------------------------------
(* The book of orders.                                                     *)

\* Nothing the book shows has moved.
BookStill == Entries' = Entries /\ Converted' = Converted

\* A step that writes no order, and takes no request nor gives one back.
LEMMA OrdersUntouched ==
  ASSUME order' = order,
         \A r \in Requests : request'[r].status = "converted" <=> request[r].status = "converted"
  PROVE  BookStill
BY DEF BookStill, Entries, Converted

\* An order's status is written, and its stage stays.
LEMMA StageStays ==
  ASSUME NEW o \in Orders, Stage(order'[o].status) = Stage(order[o].status),
         request' = request,
         \A x \in Orders : /\ order'[x].of = order[x].of /\ order'[x].qty = order[x].qty
                           /\ order'[x].stocked = order[x].stocked
                           /\ x # o => order'[x] = order[x]
  PROVE  BookStill
<1>1. \A x \in Orders : EntryOf(order'[x]) = EntryOf(order[x]) BY DEF EntryOf
<1>. QED BY <1>1 DEF BookStill, Entries, Converted

\* What the book shows of an order.
LEMMA EntryFields ==
  ASSUME NEW o \in Orders
  PROVE  /\ Entries[o].stage = Stage(order[o].status) /\ Entries[o].of = order[o].of
         /\ Entries[o].qty = order[o].qty /\ Entries[o].stocked = order[o].stocked
         /\ Entries'[o] = EntryOf(order'[o])
BY DEF Entries, EntryOf

LEMMA EntryChanges ==
  ASSUME NEW o \in Orders, NEW e, EntryOf(order'[o]) = e,
         \A x \in Orders : x # o => order'[x] = order[x]
  PROVE  Entries' = [Entries EXCEPT ![o] = e]
BY DEF Entries

\* The requests' own operations leave the book alone: none of them takes a
\* request back that became an order.
LEMMA RequestsLeaveBook ==
  ASSUME ClaimInv, NEW p \in Procs,
         \/ EditClear(p) \/ EditLines(p) \/ FileRung(p) \/ FileStatus(p)
         \/ DecideRung(p) \/ Tally(p) \/ Settle(p) \/ CancelRequest(p)
  PROVE  BookStill
<1>. DEFINE r == call[p].on
<1>0. CallOK(p) /\ request \in [Requests -> RequestRow] BY DEF ClaimInv, CallsOK, RowTypes
<1>1. CASE FileRung(p) \/ DecideRung(p) \/ Tally(p)
  <2>1. order' = order /\ request' = request BY <1>1 DEF FileRung, DecideRung, Tally
  <2>. QED BY <2>1, OrdersUntouched
<1>2. CASE EditClear(p) \/ EditLines(p)
  <2>1. order' = order BY <1>2 DEF EditClear, EditLines
  <2>2. \A x \in Requests : request'[x].status = request[x].status
    BY <1>0, <1>2 DEF EditClear, EditLines, RequestRow
  <2>. QED BY <2>1, <2>2, OrdersUntouched
<1>3. ASSUME NEW s, s # "converted", SetRequest(r, s), request[r].status # "converted",
             order' = order
      PROVE  BookStill
  <2>1. \A x \in Requests \ {r} : request'[x] = request[x]
    BY <1>0, <1>3 DEF SetRequest
  <2>2. r \in Requests => request'[r].status = s BY <1>0, <1>3 DEF SetRequest, RequestRow
  <2>. QED BY <1>3, <2>1, <2>2, OrdersUntouched
<1>4. CASE FileStatus(p)
  <2>1. request[r].status # "converted" /\ order' = order
    BY <1>0, <1>4 DEF FileStatus, At, CallOK
  <2>2. SetRequest(r, "approved") \/ SetRequest(r, "submitted") BY <1>4 DEF FileStatus
  <2>. QED BY <1>3, <2>1, <2>2
<1>5. CASE Settle(p)
  <2>1. request[r].status # "converted" /\ order' = order
    BY <1>0, <1>5 DEF Settle, CallOK
  <2>2. SetRequest(r, "approved") \/ SetRequest(r, "rejected") BY <1>5 DEF Settle
  <2>. QED BY <1>3, <2>1, <2>2
<1>6. CASE CancelRequest(p)
  <2>1. request[r].status # "converted" /\ order' = order /\ SetRequest(r, "cancelled")
    BY <1>6 DEF CancelRequest, Withdrawable
  <2>. QED BY <1>3, <2>1
<1>. QED BY <1>1, <1>2, <1>4, <1>5, <1>6

\* sendOrder, confirmOrder and closeOrder move an order within its stage,
\* and so do a dispatch and a void.
LEMMA StatusWithinStage ==
  ASSUME ClaimInv, NEW p \in Procs,
         WriteOrder(p) \/ VoidDelivery(p) \/ \E d \in Deliveries : Dispatch(p, d)
  PROVE  BookStill
<1>0. CallOK(p) /\ order \in [Orders -> OrderRow] BY DEF ClaimInv, CallsOK, RowTypes
<1>1. ASSUME NEW o \in Orders, NEW s \in OrderStatus,
             order' = [order EXCEPT ![o].status = s], Stage(s) = Stage(order[o].status),
             request' = request
      PROVE  BookStill
  BY <1>0, <1>1, OrderEffect, StageStays
<1>2. CASE WriteOrder(p)
  <2>. DEFINE o == call[p].on
              s == After(call[p].op)
  <2>1. /\ o \in Orders /\ request' = request
        /\ order' = [order EXCEPT ![o].status = s]
        /\ \/ order[o].status \in {"approved", "sent", "confirmed"} /\ s \in {"sent", "confirmed"}
           \/ order[o].status \in {"delivered", "closed"} /\ s = "closed"
    BY <1>0, <1>2 DEF WriteOrder, CallOK, After
  <2>2. s \in OrderStatus /\ Stage(s) = Stage(order[o].status)
    BY <2>1 DEF OrderStatus, Stage
  <2>. QED BY <1>1, <2>1, <2>2
<1>3. CASE VoidDelivery(p)
  <2>. DEFINE d == call[p].on
              o == delivery[d].order
  <2>1. /\ d \in Deliveries /\ delivery[d].status \in InFlight /\ request' = request
        /\ order[o].status = "delivering"
        /\ order' = [order EXCEPT ![o].status = "confirmed"]
    BY <1>0, <1>3 DEF VoidDelivery, At, CallOK, Voidable
  <2>2. o \in Orders BY <2>1, RowsPoint DEF InFlight
  <2>3. "confirmed" \in OrderStatus /\ Stage("confirmed") = Stage(order[o].status)
    BY <2>1 DEF OrderStatus, Stage
  <2>. QED BY <1>1, <2>1, <2>2, <2>3
<1>4. ASSUME NEW d \in Deliveries, Dispatch(p, d) PROVE BookStill
  <2>. DEFINE o == call[p].on
  <2>1. /\ o \in Orders /\ request' = request
        /\ order[o].status \in {"sent", "confirmed"}
        /\ order' = [order EXCEPT ![o].status = "delivering"]
    BY <1>0, <1>4 DEF Dispatch, At, CallOK, DispatchClaim, Dispatchable
  <2>2. "delivering" \in OrderStatus /\ Stage("delivering") = Stage(order[o].status)
    BY <2>1 DEF OrderStatus, Stage
  <2>. QED BY <1>1, <2>1, <2>2
<1>. QED BY <1>2, <1>3, <1>4

\* createOrder places an order on a request that has none.
LEMMA CreatePlaces ==
  ASSUME ClaimInv, NEW p \in Procs, NEW o \in Orders, CreateOrder(p, o)
  PROVE  Book!Place(o, call[p].on) /\ call[p].on \in Requests
<1>. DEFINE r == call[p].on
            q == call[p].qty
            new == [status |-> "approved", of |-> r, qty |-> q, stocked |-> 0]
<1>1. /\ r \in Requests /\ q \in 0..MaxLines
      /\ request[r].status = "approved" /\ order[o].status = "none"
      /\ order' = [order EXCEPT ![o] = new] /\ SetRequest(r, "converted")
  BY DEF ClaimInv, CallsOK, CallShape, CreateOrder, At, CallOK, OnRequests, Convertible
<1>2. EntryOf(new) = [stage |-> "open", of |-> r, qty |-> q, stocked |-> 0]
  BY DEF EntryOf, Stage
<1>. HIDE DEF new, r, q
<1>3. order'[o] = new /\ \A x \in Orders \ {o} : order'[x] = order[x]
  BY <1>1 DEF ClaimInv, RowTypes
<1>4. Entries' = [Entries EXCEPT ![o] = [stage |-> "open", of |-> r, qty |-> q, stocked |-> 0]]
  BY <1>2, <1>3 DEF Entries
<1>5. "converted" \in RequestStatus BY DEF RequestStatus
<1>6. request'[r].status = "converted" /\ \A x \in Requests \ {r} : request'[x] = request[x]
  BY <1>1, <1>5, RequestEffect DEF ClaimInv, RowTypes
<1>7. r \notin Converted /\ Converted' = Converted \cup {r}
  BY <1>1, <1>6 DEF Converted
<1>8. Entries[o].stage = "none" BY <1>1, EntryFields DEF Stage
<1>. QED BY <1>1, <1>4, <1>7, <1>8 DEF Book!Place, r

\* receiveDelivery stocks an open order, within what it ordered.
LEMMA ReceiptStocks ==
  ASSUME ClaimInv, NEW p \in Procs, ReceiveDelivery(p)
  PROVE  \E o \in Orders : Book!Stock(o)
<1>. DEFINE d == call[p].on
            o == delivery[d].order
            n == call[p].qty
<1>1. /\ d \in Deliveries /\ delivery[d].status \in {"dispatched", "arrived"}
      /\ n <= order[o].qty /\ n \in 0..MaxLines /\ request' = request
      /\ order' = [order EXCEPT ![o] = [status |-> "delivered", of |-> @.of, qty |-> @.qty,
                                        stocked |-> @.stocked + n]]
  BY DEF ClaimInv, CallsOK, CallShape, ReceiveDelivery, At, CallOK, ReceiveClaim, Receivable
<1>2. o \in Orders /\ order[o].status = "delivering"
  BY <1>1, RowsPoint DEF ClaimInv, DeliveriesOK, InFlight
<1>. HIDE DEF o, n
<1>3. order[o].stocked = 0 /\ n \in Nat
  <2>1. order[o].stocked \in Nat BY <1>2 DEF ClaimInv, RowTypes, OrderRow
  <2>. QED BY <1>1, <1>2, <2>1, ProcurementAssumption DEF ClaimInv, OrdersOK
<1>4. /\ order'[o] = [status |-> "delivered", of |-> order[o].of, qty |-> order[o].qty, stocked |-> n]
      /\ \A x \in Orders \ {o} : order'[x] = order[x]
  BY <1>1, <1>2, <1>3 DEF ClaimInv, RowTypes
<1>. DEFINE new == [stage |-> "stocked", of |-> order[o].of, qty |-> order[o].qty,
                    stocked |-> n]
<1>5. EntryOf(order'[o]) = new BY <1>4 DEF EntryOf, Stage
<1>6. Entries' = [Entries EXCEPT ![o] = new] BY <1>2, <1>4, <1>5, EntryChanges
<1>7. Entries' = [Entries EXCEPT ![o] =
         [stage |-> "stocked", of |-> @.of, qty |-> @.qty, stocked |-> n]]
  <2>1. Entries[o].of = order[o].of /\ Entries[o].qty = order[o].qty BY <1>2, EntryFields
  <2>. QED BY <1>6, <2>1
<1>8. Entries[o].stage = "open" /\ Entries[o].qty = order[o].qty
  BY <1>2, EntryFields DEF Stage
<1>9. Converted' = Converted BY <1>1 DEF Converted
<1>10. Book!Stock(o) BY <1>1, <1>7, <1>8, <1>9 DEF Book!Stock, n, o
<1>. QED BY <1>2, <1>10

\* cancelOrder cancels an open order.
LEMMA CancelCancels ==
  ASSUME ClaimInv, NEW p \in Procs, CancelOrder(p)
  PROVE  \E o \in Orders : Book!Cancel(o)
<1>. DEFINE o == call[p].on
<1>1. /\ o \in Orders /\ order[o].status \in {"sent", "confirmed", "delivering"}
      /\ order' = [order EXCEPT ![o].status = "cancelled"] /\ request' = request
  BY DEF ClaimInv, CallsOK, CancelOrder, At, CallOK, Cancellable
<1>. HIDE DEF o
<1>2. /\ order'[o].status = "cancelled"
      /\ \A x \in Orders :
           /\ order'[x].of = order[x].of /\ order'[x].qty = order[x].qty
           /\ order'[x].stocked = order[x].stocked
           /\ x # o => order'[x] = order[x]
  <2>1. "cancelled" \in OrderStatus BY DEF OrderStatus
  <2>. QED BY <1>1, <2>1, OrderEffect DEF ClaimInv, RowTypes
<1>3. EntryOf(order'[o]) = [EntryOf(order[o]) EXCEPT !.stage = "cancelled"]
  BY <1>1, <1>2 DEF EntryOf, Stage
<1>4. Entries' = [Entries EXCEPT ![o] = [EntryOf(order[o]) EXCEPT !.stage = "cancelled"]]
  BY <1>1, <1>2, <1>3, EntryChanges
<1>5. Entries' = [Entries EXCEPT ![o].stage = "cancelled"] BY <1>1, <1>4 DEF Entries
<1>6. Entries[o].stage = "open" BY <1>1, EntryFields DEF Stage
<1>7. Converted' = Converted BY <1>1 DEF Converted
<1>8. Book!Cancel(o) BY <1>5, <1>6, <1>7 DEF Book!Cancel
<1>. QED BY <1>1, <1>8

\* Reading a row, being refused and dying leave every row as it is.
LEMMA RowsUntouched ==
  ASSUME NEW p \in Procs,
         \/ \E r \in Requests : \/ \E q \in 1..MaxLines : ReadEdit(p, r, q)
                                \/ ReadSubmit(p, r) \/ ReadWithdrawal(p, r)
                                \/ ReadForOrder(p, r)
                                \/ \E role \in Roles, op \in {"approve", "reject"} :
                                     ReadDecision(p, r, role, op)
         \/ \E o \in Orders : \/ \E op \in {"send", "confirm", "close"} : ReadOrder(p, op, o)
                              \/ ReadDispatch(p, o) \/ ReadCancelOrder(p, o)
         \/ \E d \in Deliveries : \/ ReadVoid(p, d)
                                  \/ \E op \in {"transit", "arrive"} : ReadLeg(p, op, d)
                                  \/ \E q \in 0..MaxLines : ReadReceipt(p, d, q)
         \/ CancelRequestRefused(p) \/ CreateOrderRefused(p) \/ DispatchRefused(p)
         \/ CancelOrderRefused(p) \/ VoidRefused(p) \/ ReceiveRefused(p) \/ WriteLeg(p)
  PROVE  BookStill
<1>1. order' = order /\ request' = request
  BY DEF ReadEdit, ReadSubmit, ReadWithdrawal, ReadForOrder, ReadDecision, ReadOrder,
     ReadDispatch, ReadCancelOrder, ReadVoid, ReadLeg, ReadReceipt, CancelRequestRefused,
     CreateOrderRefused, DispatchRefused, CancelOrderRefused, VoidRefused, ReceiveRefused,
     WriteLeg, Suspend, Refuse
<1>. QED BY <1>1, OrdersUntouched

LEMMA BookStep ==
  ASSUME ClaimInv, [Next]_vars
  PROVE  Book!Next \/ BookStill
<1>1. ASSUME NEW r \in Requests, NEW q \in 1..MaxLines, CreateRequest(r, q) PROVE BookStill
  <2>1. request \in [Requests -> RequestRow] BY DEF ClaimInv, RowTypes
  <2>2. order' = order /\ request[r].status = "none" BY <1>1 DEF CreateRequest
  <2>3. \A x \in Requests : request'[x].status = "converted" <=> request[x].status = "converted"
    BY <1>1, <2>1, <2>2 DEF CreateRequest, RequestRow
  <2>. QED BY <2>2, <2>3, OrdersUntouched
<1>2. ASSUME NEW p \in Procs, RequestStep(p) PROVE BookStill
  BY <1>2, RowsUntouched, RequestsLeaveBook DEF RequestStep
<1>3. ASSUME NEW p \in Procs, OrderStep(p) PROVE Book!Next \/ BookStill
  <2>1. ASSUME NEW o \in Orders, CreateOrder(p, o) PROVE Book!Next
    BY <2>1, CreatePlaces DEF Book!Next
  <2>2. ASSUME CancelOrder(p) PROVE Book!Next BY <2>2, CancelCancels DEF Book!Next
  <2>. QED BY <1>3, <2>1, <2>2, RowsUntouched, StatusWithinStage DEF OrderStep
<1>4. ASSUME NEW p \in Procs, DeliveryStep(p) PROVE Book!Next \/ BookStill
  <2>1. ASSUME ReceiveDelivery(p) PROVE Book!Next BY <2>1, ReceiptStocks DEF Book!Next
  <2>. QED BY <1>4, <2>1, RowsUntouched, StatusWithinStage DEF DeliveryStep
<1>5. ASSUME Crash \/ UNCHANGED vars PROVE BookStill
  <2>1. order' = order /\ request' = request BY <1>5 DEF Crash, vars
  <2>. QED BY <2>1, OrdersUntouched
<1>. QED BY <1>1, <1>2, <1>3, <1>4, <1>5 DEF Next

\* Procurement implements OrderBook: however claims interleave, a request
\* becomes one order for good, and an order is stocked once, within what it
\* ordered, or cancelled for good (createOrder, receiveDelivery, cancelOrder).
THEOREM OrdersKeepTheirPromise ==
  ASSUME ClaimsApart PROVE Spec => OrderPromise
<1>1. Init => Book!Init
  <2>. SUFFICES ASSUME Init PROVE Book!Init
    OBVIOUS
  <2>1. \A o \in Orders : EntryOf(order[o]) =
          [stage |-> "none", of |-> NoTarget, qty |-> 0, stocked |-> 0]
    BY DEF Init, EntryOf, Stage
  <2>2. Converted = {} BY DEF Init, Converted
  <2>. QED BY <2>1, <2>2 DEF Book!Init, Book!Unplaced, Entries
<1>2. ClaimInv /\ [Next]_vars => [Book!Next]_(Book!vars)
  BY BookStep DEF BookStill, Book!vars
<1>3. ClaimInv /\ [Next]_vars => ClaimInv' BY StepClaims
<1>. QED BY <1>1, <1>2, <1>3, InitClaims, PTL DEF Spec, OrderPromise, Book!Spec

-----------------------------------------------------------------------------
(* Types, whatever runs beside whatever.                                   *)

\* What an operation in flight was started on.
CallTyped(c) ==
  /\ c.op \in Ops \cup {"idle"}
  /\ c.on \in Requests \cup Orders \cup Deliveries \cup {NoTarget}
  /\ c.op \in OnRequests => c.on \in Requests
  /\ c.op = "dispatch" => c.on \in Orders
  /\ c.op = "submit" => c.row \in Nat \ {0}

\* Two operations in flight are in one group of Overlap.
Together ==
  \A p, q \in Procs : p # q => Compatible(call[p].op, call[q].op)
                               \/ call[p].op = "idle"

TypeInv ==
  /\ RowTypes
  /\ rungs \in [Requests -> Seq(Rung)]
  /\ crashes \in 0..MaxCrashes
  /\ CallShape
  /\ \A p \in Procs : CallTyped(call[p])
  /\ Together

\* An operation answers.
LEMMA AnswerTyped ==
  ASSUME TypeInv, NEW p \in Procs, Answer(p)
  PROVE  /\ CallShape' /\ Together' /\ \A q \in Procs : CallTyped(call[q])'
         /\ call'[p] = Idle /\ \A q \in Procs \ {p} : call'[q] = call[q]
<1>1. call'[p] = Idle /\ \A q \in Procs \ {p} : call'[q] = call[q]
  BY DEF Answer, CallShape, TypeInv
<1>2. CallShape'
  <2>1. 0 \in 0..MaxLines BY ProcurementAssumption
  <2>. QED BY <1>1, <2>1 DEF Answer, CallShape, Idle, TypeInv
<1>3. Idle.op = "idle" /\ Idle.on = NoTarget BY DEF Idle
<1>4. Together' BY <1>1, <1>3 DEF Together, TypeInv, Compatible
<1>5. CallTyped(Idle) BY <1>3 DEF CallTyped, OnRequests
<1>6. \A q \in Procs : CallTyped(call'[q]) BY <1>1, <1>5 DEF TypeInv
<1>7. \A q \in Procs : CallTyped(call[q])' BY <1>6 DEF CallTyped
<1>. QED BY <1>1, <1>2, <1>4, <1>7

\* An operation goes on.
LEMMA GotoTyped ==
  ASSUME TypeInv, NEW p \in Procs, NEW step, NEW row, Goto(p, step, row),
         call[p].op = "submit" => row \in Nat \ {0}
  PROVE  /\ CallShape' /\ Together' /\ \A q \in Procs : CallTyped(call[q])'
         /\ call'[p] = [op |-> call[p].op, on |-> call[p].on, step |-> step,
                        row |-> row, qty |-> call[p].qty]
         /\ \A q \in Procs \ {p} : call'[q] = call[q]
<1>1. \A q \in Procs \ {p} : call'[q] = call[q] BY DEF Goto, CallShape, TypeInv
<1>2. call'[p] = [op |-> call[p].op, on |-> call[p].on, step |-> step,
                  row |-> row, qty |-> call[p].qty]
  BY DEF Goto, CallShape, TypeInv
<1>3. CallShape' BY <1>1, <1>2 DEF Goto, CallShape, TypeInv
<1>4. \A q \in Procs : call'[q].op = call[q].op BY <1>1, <1>2
<1>5. Together' BY <1>4 DEF Together, TypeInv, Compatible
<1>6. CallTyped(call[p])' BY <1>2 DEF CallTyped, TypeInv
<1>7. ASSUME NEW q \in Procs \ {p} PROVE CallTyped(call[q])'
  BY <1>1 DEF CallTyped, TypeInv
<1>. QED BY <1>1, <1>2, <1>3, <1>5, <1>6, <1>7

\* An operation starts.
LEMMA SuspendTyped ==
  ASSUME TypeInv, NEW p \in Procs, NEW op, NEW on, NEW row,
         NEW qty \in 0..MaxLines, Suspend(p, op, on, row, qty),
         CallTyped([op |-> op, on |-> on, step |-> "read", row |-> row, qty |-> qty])
  PROVE  /\ CallShape' /\ Together' /\ \A q \in Procs : CallTyped(call[q])'
         /\ call'[p] = [op |-> op, on |-> on, step |-> "read", row |-> row, qty |-> qty]
         /\ \A q \in Procs \ {p} : call'[q] = call[q]
         /\ call[p] = Idle
         /\ request' = request /\ order' = order /\ delivery' = delivery
         /\ rungs' = rungs /\ crashes' = crashes
<1>1. /\ call'[p] = [op |-> op, on |-> on, step |-> "read", row |-> row, qty |-> qty]
      /\ \A q \in Procs \ {p} : call'[q] = call[q]
  BY DEF Suspend, CallShape, TypeInv
<1>2. CallShape' BY <1>1 DEF Suspend, CallShape, TypeInv
<1>3. \A q \in Procs : Compatible(op, call[q].op) BY DEF Suspend
<1>4. \A a, b : Compatible(a, b) => Compatible(b, a) \/ b = "idle" BY DEF Compatible
<1>5. Together' BY <1>1, <1>3, <1>4 DEF Together, TypeInv, Compatible
<1>6. \A q \in Procs : CallTyped(call'[q]) BY <1>1 DEF TypeInv
<1>7. \A q \in Procs : CallTyped(call[q])' BY <1>6 DEF CallTyped
<1>. QED BY <1>1, <1>2, <1>5, <1>7 DEF Suspend

\* The reads: an operation starts on a row it may be about.
LEMMA ReadsTyped ==
  ASSUME TypeInv, NEW p \in Procs, NEW op \in Ops, NEW on, NEW row \in Nat,
         NEW qty \in 0..MaxLines, Suspend(p, op, on, row, qty),
         \/ op \in OnRequests /\ on \in Requests /\ (op = "submit" => row # 0)
         \/ op \in {"send", "confirm", "close", "dispatch", "cancelOrder"} /\ on \in Orders
         \/ op \in {"void", "transit", "arrive", "receive"} /\ on \in Deliveries
  PROVE  TypeInv'
<1>1. CallTyped([op |-> op, on |-> on, step |-> "read", row |-> row, qty |-> qty])
  BY DEF CallTyped, OnRequests
<1>2. /\ CallShape' /\ Together' /\ \A q \in Procs : CallTyped(call[q])'
      /\ request' = request /\ order' = order /\ delivery' = delivery
      /\ rungs' = rungs /\ crashes' = crashes
  BY <1>1, SuspendTyped
<1>3. RowTypes' BY <1>2 DEF TypeInv, RowTypes
<1>. QED BY <1>2, <1>3 DEF TypeInv

\* One rung's decision is written.
LEMMA RungsTyped ==
  ASSUME rungs \in [Requests -> Seq(Rung)], NEW r, NEW i,
         NEW d \in {"pending", "approved", "rejected", "withdrawn"},
         rungs' = [rungs EXCEPT ![r][i].decision = d]
  PROVE  rungs' \in [Requests -> Seq(Rung)]
<1>1. ASSUME NEW s \in Seq(Rung) PROVE [s EXCEPT ![i].decision = d] \in Seq(Rung)
  <2>1. DOMAIN s = 1..Len(s) /\ Len(s) \in Nat OBVIOUS
  <2>2. \A j \in DOMAIN s : s[j] \in Rung OBVIOUS
  <2>3. \A x \in Rung : [x EXCEPT !.decision = d] \in Rung BY DEF Rung
  <2>4. \A j \in DOMAIN s : [s EXCEPT ![i].decision = d][j] \in Rung BY <2>2, <2>3
  <2>6. [s EXCEPT ![i].decision = d] \in [1..Len(s) -> Rung] BY <2>1, <2>4
  <2>. QED BY <2>1, <2>6, SeqDef
<1>2. \A x \in Requests : rungs'[x] \in Seq(Rung) BY <1>1
<1>. QED BY <1>2

\* Whoever must sign, it is a role.
LEMMA ChainTyped ==
  ASSUME NEW r \in Requests, NEW q \in 0..MaxLines
  PROVE  /\ Chain(r, q) \in Seq(Roles) /\ Len(Chain(r, q)) \in Nat \ {0}
         /\ DOMAIN Chain(r, q) = 1..Len(Chain(r, q))
         /\ request[r].by = "client" => \A i \in DOMAIN Chain(r, q) : Chain(r, q)[i] # "client"
<1>. DEFINE roles == IF Bands[q] = <<>> THEN <<"client">> ELSE Bands[q]
<1>1. roles \in Seq(Roles) /\ Len(roles) \in Nat \ {0} /\ DOMAIN roles = 1..Len(roles)
  <2>1. Bands[q] \in Seq(Roles) BY ProcurementAssumption
  <2>2. Bands[q] # <<>> => Len(Bands[q]) \in Nat \ {0} BY <2>1, EmptySeq
  <2>3. <<"client">> \in Seq(Roles) /\ Len(<<"client">>) = 1 BY DEF Roles
  <2>4. roles \in Seq(Roles) /\ Len(roles) \in Nat \ {0} BY <2>1, <2>2, <2>3
  <2>5. \A s \in Seq(Roles) : DOMAIN s = 1..Len(s) OBVIOUS
  <2>. HIDE DEF roles
  <2>. QED BY <2>4, <2>5
<1>2. Len(roles) \in Nat \ {0} /\ DOMAIN roles = 1..Len(roles) BY <1>1
<1>3. \A i \in DOMAIN roles : roles[i] \in Roles BY <1>1
<1>4. Chain(r, q) = [i \in DOMAIN roles |->
                       IF roles[i] = "client" /\ request[r].by = "client"
                         THEN "contractor" ELSE roles[i]]
  BY DEF Chain
<1>. HIDE DEF roles
<1>5. Chain(r, q) \in [1..Len(roles) -> Roles] BY <1>2, <1>3, <1>4 DEF Roles
<1>6. Chain(r, q) \in Seq(Roles) /\ Len(Chain(r, q)) = Len(roles) BY <1>2, <1>5, SeqDef
<1>. QED BY <1>2, <1>4, <1>5, <1>6

\* The requests and their rungs are written.
LEMMA RequestStepTyped ==
  ASSUME TypeInv, NEW p \in Procs,
         \/ EditClear(p) \/ EditLines(p) \/ FileRung(p) \/ FileStatus(p)
         \/ DecideRung(p) \/ Tally(p) \/ Settle(p) \/ CancelRequest(p)
  PROVE  TypeInv'
<1>. DEFINE c == call[p]
            r == call[p].on
<1>0. /\ CallTyped(c) /\ c.qty \in 0..MaxLines /\ request \in [Requests -> RequestRow]
      /\ rungs \in [Requests -> Seq(Rung)]
  BY DEF TypeInv, CallShape, RowTypes
<1>1. order' = order /\ delivery' = delivery /\ crashes' = crashes
  BY DEF EditClear, EditLines, FileRung, FileStatus, DecideRung, Tally, Settle, CancelRequest
<1>2. request' \in [Requests -> RequestRow]
  <2>1. CASE EditClear(p)
    <3>1. 0 \in 0..MaxLines BY ProcurementAssumption
    <3>. QED BY <1>0, <2>1, <3>1 DEF EditClear, RequestRow
  <2>2. CASE EditLines(p)
    <3>1. r \in Requests BY <1>0, <2>2 DEF EditLines, At, CallTyped, OnRequests
    <3>2. request[r].qty + c.qty \in 0..MaxLines
      BY <1>0, <2>2, <3>1, ProcurementAssumption DEF EditLines, RequestRow
    <3>. QED BY <1>0, <2>2, <3>1, <3>2 DEF EditLines, RequestRow
  <2>3. CASE FileStatus(p) \/ Settle(p) \/ CancelRequest(p)
    <3>1. \E s \in RequestStatus : SetRequest(r, s)
      BY <2>3 DEF FileStatus, Settle, CancelRequest, RequestStatus
    <3>2. PICK s \in RequestStatus : SetRequest(r, s) BY <3>1
    <3>. QED BY <1>0, <3>2 DEF SetRequest, RequestRow
  <2>4. CASE FileRung(p) \/ DecideRung(p) \/ Tally(p)
    BY <1>0, <2>4 DEF FileRung, DecideRung, Tally
  <2>. QED BY <2>1, <2>2, <2>3, <2>4
<1>3. rungs' \in [Requests -> Seq(Rung)]
  <2>1. CASE FileRung(p)
    <3>1. r \in Requests /\ c.row \in Nat \ {0} /\ c.row <= Len(Chain(r, c.qty))
      BY <1>0, <2>1 DEF FileRung, At, CallTyped, OnRequests
    <3>2. Chain(r, c.qty)[c.row] \in Roles BY <1>0, <3>1, ChainTyped, ElementOfSeq
    <3>. DEFINE new == [role |-> Chain(r, c.qty)[c.row],
                        decision |-> IF SoleSigner(r, c.qty) THEN "approved" ELSE "pending"]
    <3>3. new \in Rung BY <3>2 DEF Rung
    <3>4. rungs' = [rungs EXCEPT ![r] = Append(rungs[r], new)] BY <1>0, <2>1, <3>1 DEF FileRung
    <3>. HIDE DEF new
    <3>5. Append(rungs[r], new) \in Seq(Rung) BY <1>0, <3>1, <3>3
    <3>. QED BY <1>0, <3>4, <3>5
  <2>2. CASE DecideRung(p)
    <3>1. \E d \in {"approved", "rejected"} : rungs' = [rungs EXCEPT ![r][c.row].decision = d]
      BY <2>2 DEF DecideRung
    <3>2. PICK d \in {"approved", "rejected"} : rungs' = [rungs EXCEPT ![r][c.row].decision = d]
      BY <3>1
    <3>. QED BY <1>0, <3>2, RungsTyped
  <2>3. CASE CancelRequest(p)
    <3>. DEFINE cut(s) == [i \in DOMAIN s |->
                  IF s[i].decision = "pending" THEN [s[i] EXCEPT !.decision = "withdrawn"]
                                               ELSE s[i]]
    <3>1. ASSUME NEW s \in Seq(Rung) PROVE cut(s) \in Seq(Rung)
      <4>1. DOMAIN s = 1..Len(s) /\ Len(s) \in Nat OBVIOUS
      <4>2. \A i \in DOMAIN s : s[i] \in Rung OBVIOUS
      <4>3. \A x \in Rung : [x EXCEPT !.decision = "withdrawn"] \in Rung BY DEF Rung
      <4>4. cut(s) \in [1..Len(s) -> Rung] BY <4>1, <4>2, <4>3
      <4>. QED BY <4>1, <4>4, SeqDef
    <3>2. rungs' = [rungs EXCEPT ![r] = cut(rungs[r])]
      BY <1>0, <2>3 DEF CancelRequest, At, CallTyped, OnRequests
    <3>. HIDE DEF cut
    <3>. QED BY <1>0, <3>1, <3>2
  <2>4. CASE ~(FileRung(p) \/ DecideRung(p) \/ CancelRequest(p))
    BY <1>0, <2>4 DEF EditClear, EditLines, FileStatus, Tally, Settle
  <2>. QED BY <2>1, <2>2, <2>3, <2>4
<1>4. (\E step, row : Goto(p, step, row) /\ (c.op = "submit" => row \in Nat \ {0})) \/ Answer(p)
  <2>1. CASE EditClear(p) BY <2>1 DEF EditClear, At
  <2>2. CASE FileRung(p)
    <3>1. c.row + 1 \in Nat \ {0} /\ Goto(p, "read", c.row + 1)
      BY <1>0, <2>2 DEF FileRung, At, CallTyped
    <3>. QED BY <3>1
  <2>3. CASE DecideRung(p) BY <2>3 DEF DecideRung
  <2>4. CASE EditLines(p) \/ FileStatus(p) \/ Settle(p) \/ CancelRequest(p)
    BY <2>4 DEF EditLines, FileStatus, Settle, CancelRequest
  <2>5. CASE Tally(p)
    <3>1. (\E step : Goto(p, step, c.row)) \/ Answer(p) BY <2>5 DEF Tally
    <3>. QED BY <1>0, <3>1 DEF CallTyped
  <2>. QED BY <2>1, <2>2, <2>3, <2>4, <2>5
<1>5. CallShape' /\ Together' /\ \A q \in Procs : CallTyped(call[q])'
  BY <1>4, AnswerTyped, GotoTyped
<1>. QED BY <1>1, <1>2, <1>3, <1>5 DEF TypeInv, RowTypes

\* The orders and the deliveries are written.
LEMMA OrderStepTyped ==
  ASSUME TypeInv, NEW p \in Procs,
         \/ \E o \in Orders : CreateOrder(p, o)
         \/ \E d \in Deliveries : Dispatch(p, d)
         \/ WriteOrder(p) \/ CancelOrder(p) \/ VoidDelivery(p) \/ WriteLeg(p)
         \/ ReceiveDelivery(p)
         \/ CancelRequestRefused(p) \/ CreateOrderRefused(p) \/ DispatchRefused(p)
         \/ CancelOrderRefused(p) \/ VoidRefused(p) \/ ReceiveRefused(p)
  PROVE  TypeInv'
<1>. DEFINE c == call[p]
<1>0. /\ CallTyped(c) /\ c.qty \in 0..MaxLines /\ RowTypes
  BY DEF TypeInv, CallShape
<1>1. Answer(p) /\ rungs' = rungs /\ crashes' = crashes
  BY DEF CreateOrder, Dispatch, WriteOrder, CancelOrder, VoidDelivery, WriteLeg, ReceiveDelivery,
         CancelRequestRefused, CreateOrderRefused, DispatchRefused, CancelOrderRefused,
         VoidRefused, ReceiveRefused, Refuse
<1>2. RowTypes'
  <2>1. ASSUME NEW o \in Orders, CreateOrder(p, o) PROVE RowTypes'
    <3>1. c.on \in Requests BY <1>0, <2>1 DEF CreateOrder, At, CallTyped, OnRequests
    <3>2. SetRequest(c.on, "converted") /\ delivery' = delivery BY <2>1 DEF CreateOrder
    <3>3. request' \in [Requests -> RequestRow]
      BY <1>0, <3>2 DEF SetRequest, RowTypes, RequestRow, RequestStatus
    <3>4. order' \in [Orders -> OrderRow]
      BY <1>0, <2>1, <3>1 DEF CreateOrder, RowTypes, OrderRow, OrderStatus
    <3>. QED BY <1>0, <3>2, <3>3, <3>4 DEF RowTypes
  <2>2. ASSUME NEW d \in Deliveries, Dispatch(p, d) PROVE RowTypes'
    <3>1. c.on \in Orders BY <1>0, <2>2 DEF Dispatch, At, CallTyped
    <3>2. order' = [order EXCEPT ![c.on].status = "delivering"] /\ request' = request
          /\ delivery' = [delivery EXCEPT ![d] = [status |-> "dispatched", order |-> c.on]]
      BY <2>2 DEF Dispatch
    <3>3. order' \in [Orders -> OrderRow] BY <1>0, <3>2 DEF RowTypes, OrderRow, OrderStatus
    <3>4. delivery' \in [Deliveries -> DeliveryRow]
      BY <1>0, <3>1, <3>2 DEF RowTypes, DeliveryRow, DeliveryStatus
    <3>. QED BY <1>0, <3>2, <3>3, <3>4 DEF RowTypes
  <2>3. CASE WriteOrder(p) \/ CancelOrder(p) \/ VoidDelivery(p) \/ WriteLeg(p)
    <3>1. request' = request BY <2>3 DEF WriteOrder, CancelOrder, VoidDelivery, WriteLeg
    <3>2. order' = order \/ \E o, s : s \in OrderStatus /\ order' = [order EXCEPT ![o].status = s]
      BY <2>3 DEF WriteOrder, CancelOrder, VoidDelivery, WriteLeg, After, OrderStatus
    <3>3. order' \in [Orders -> OrderRow] BY <1>0, <3>2 DEF RowTypes, OrderRow
    <3>4. delivery' \in [Deliveries -> DeliveryRow]
      BY <1>0, <2>3 DEF WriteOrder, CancelOrder, VoidDelivery, WriteLeg, RowTypes, DeliveryRow,
                        DeliveryStatus
    <3>. QED BY <1>0, <3>1, <3>3, <3>4 DEF RowTypes
  <2>4. CASE ReceiveDelivery(p)
    <3>. DEFINE o == delivery[c.on].order
    <3>1. /\ request' = request
          /\ order' = [order EXCEPT ![o] = [status |-> "delivered", of |-> @.of, qty |-> @.qty,
                                            stocked |-> @.stocked + c.qty]]
          /\ \E s \in {"discrepancy", "received"} :
               delivery' = [delivery EXCEPT ![c.on].status = s]
      BY <2>4 DEF ReceiveDelivery
    <3>2. c.qty \in Nat BY <1>0, ProcurementAssumption
    <3>. HIDE DEF o, c
    <3>3. order' \in [Orders -> OrderRow]
      <4>1. order \in [Orders -> OrderRow] BY <1>0 DEF RowTypes
      <4>2. ASSUME NEW x \in OrderRow
            PROVE  [status |-> "delivered", of |-> x.of, qty |-> x.qty,
                    stocked |-> x.stocked + c.qty] \in OrderRow
        BY <3>2 DEF OrderRow, OrderStatus
      <4>. QED BY <3>1, <4>1, <4>2
    <3>4. delivery' \in [Deliveries -> DeliveryRow]
      BY <1>0, <3>1 DEF RowTypes, DeliveryRow, DeliveryStatus
    <3>. QED BY <1>0, <3>1, <3>3, <3>4 DEF RowTypes
  <2>5. CASE \/ CancelRequestRefused(p) \/ CreateOrderRefused(p) \/ DispatchRefused(p)
             \/ CancelOrderRefused(p) \/ VoidRefused(p) \/ ReceiveRefused(p)
    BY <1>0, <2>5 DEF CancelRequestRefused, CreateOrderRefused, DispatchRefused,
                      CancelOrderRefused, VoidRefused, ReceiveRefused, Refuse, RowTypes
  <2>. QED BY <2>1, <2>2, <2>3, <2>4, <2>5
<1>3. CallShape' /\ Together' /\ \A q \in Procs : CallTyped(call[q])' BY <1>1, AnswerTyped
<1>. QED BY <1>1, <1>2, <1>3 DEF TypeInv

LEMMA InitTypes == Init => TypeInv
<1>. SUFFICES ASSUME Init PROVE TypeInv
  OBVIOUS
<1>0. 0 \in 0..MaxLines /\ 0 \in 0..MaxCrashes BY ProcurementAssumption
<1>1. RowTypes
  BY <1>0, ProcurementAssumption DEF Init, RowTypes, RequestRow, OrderRow, DeliveryRow,
     RequestStatus, OrderStatus, DeliveryStatus
<1>2. CallShape BY <1>0 DEF Init, CallShape, Idle
<1>3. Idle.op = "idle" /\ Idle.on = NoTarget BY DEF Idle
<1>4. \A p \in Procs : CallTyped(call[p]) BY <1>3 DEF Init, CallTyped, OnRequests
<1>5. Together BY <1>3 DEF Init, Together
<1>. QED BY <1>0, <1>1, <1>2, <1>4, <1>5 DEF Init, TypeInv

\* The reads, as they are in the next-state relation.
LEMMA StartTyped ==
  ASSUME TypeInv, NEW p \in Procs,
         \/ \E r \in Requests : \/ \E q \in 1..MaxLines : ReadEdit(p, r, q)
                                \/ ReadSubmit(p, r) \/ ReadWithdrawal(p, r)
                                \/ ReadForOrder(p, r)
                                \/ \E role \in Roles, op \in {"approve", "reject"} :
                                     ReadDecision(p, r, role, op)
         \/ \E o \in Orders : \/ \E op \in {"send", "confirm", "close"} : ReadOrder(p, op, o)
                              \/ ReadDispatch(p, o) \/ ReadCancelOrder(p, o)
         \/ \E d \in Deliveries : \/ ReadVoid(p, d)
                                  \/ \E op \in {"transit", "arrive"} : ReadLeg(p, op, d)
                                  \/ \E q \in 0..MaxLines : ReadReceipt(p, d, q)
  PROVE  TypeInv'
<1>0. /\ 0 \in 0..MaxLines /\ 1..MaxLines \subseteq 0..MaxLines
      /\ \A r \in Requests : request[r].qty \in 0..MaxLines /\ DOMAIN rungs[r] \subseteq Nat
  BY ProcurementAssumption DEF TypeInv, RowTypes, RequestRow
<1>1. ASSUME NEW r \in Requests, NEW q \in 1..MaxLines, ReadEdit(p, r, q) PROVE TypeInv'
  BY <1>0, <1>1, ReadsTyped DEF ReadEdit, Ops, OnRequests
<1>2. ASSUME NEW r \in Requests, ReadSubmit(p, r) PROVE TypeInv'
  BY <1>0, <1>2, ReadsTyped DEF ReadSubmit, Ops, OnRequests
<1>3. ASSUME NEW r \in Requests, ReadWithdrawal(p, r) PROVE TypeInv'
  BY <1>0, <1>3, ReadsTyped DEF ReadWithdrawal, Ops, OnRequests
<1>4. ASSUME NEW r \in Requests, ReadForOrder(p, r) PROVE TypeInv'
  BY <1>0, <1>4, ReadsTyped DEF ReadForOrder, Ops, OnRequests
<1>5. ASSUME NEW r \in Requests, NEW role, NEW op \in {"approve", "reject"},
             ReadDecision(p, r, role, op)
      PROVE  TypeInv'
  <2>1. \E i \in Nat : Suspend(p, op, r, i, 0)
    BY <1>0, <1>5 DEF ReadDecision, PendingRungs
  <2>. QED BY <1>0, <2>1, ReadsTyped DEF Ops, OnRequests
<1>6. ASSUME NEW o \in Orders, NEW op \in {"send", "confirm", "close"}, ReadOrder(p, op, o)
      PROVE  TypeInv'
  BY <1>0, <1>6, ReadsTyped DEF ReadOrder, Ops
<1>7. ASSUME NEW o \in Orders, ReadDispatch(p, o) \/ ReadCancelOrder(p, o) PROVE TypeInv'
  BY <1>0, <1>7, ReadsTyped DEF ReadDispatch, ReadCancelOrder, Ops
<1>8. ASSUME NEW d \in Deliveries, ReadVoid(p, d) PROVE TypeInv'
  BY <1>0, <1>8, ReadsTyped DEF ReadVoid, Ops
<1>9. ASSUME NEW d \in Deliveries, NEW op \in {"transit", "arrive"}, ReadLeg(p, op, d)
      PROVE  TypeInv'
  BY <1>0, <1>9, ReadsTyped DEF ReadLeg, Ops
<1>10. ASSUME NEW d \in Deliveries, NEW q \in 0..MaxLines, ReadReceipt(p, d, q)
       PROVE  TypeInv'
  BY <1>0, <1>10, ReadsTyped DEF ReadReceipt, Ops
<1>. QED BY <1>1, <1>2, <1>3, <1>4, <1>5, <1>6, <1>7, <1>8, <1>9, <1>10

LEMMA StepTypes ==
  ASSUME TypeInv, [Next]_vars
  PROVE  TypeInv'
<1>1. ASSUME NEW r \in Requests, NEW q \in 1..MaxLines, CreateRequest(r, q) PROVE TypeInv'
  <2>1. /\ request' = [request EXCEPT ![r].status = "draft", ![r].qty = q]
        /\ order' = order /\ delivery' = delivery /\ call' = call /\ rungs' = rungs
        /\ crashes' = crashes
    BY <1>1 DEF CreateRequest
  <2>2. q \in 0..MaxLines /\ request \in [Requests -> RequestRow]
    BY ProcurementAssumption DEF TypeInv, RowTypes
  <2>3. request' \in [Requests -> RequestRow] BY <2>1, <2>2 DEF RequestRow, RequestStatus
  <2>. QED BY <2>1, <2>3 DEF TypeInv, RowTypes, CallShape, CallTyped, Together
<1>2. ASSUME NEW p \in Procs, RequestStep(p) PROVE TypeInv'
  BY <1>2, StartTyped, RequestStepTyped, OrderStepTyped DEF RequestStep
<1>3. ASSUME NEW p \in Procs, OrderStep(p) PROVE TypeInv'
  BY <1>3, StartTyped, OrderStepTyped DEF OrderStep
<1>4. ASSUME NEW p \in Procs, DeliveryStep(p) PROVE TypeInv'
  BY <1>4, StartTyped, OrderStepTyped DEF DeliveryStep
<1>5. ASSUME Crash PROVE TypeInv'
  <2>1. /\ call' = [p \in Procs |-> Idle] /\ request' = request /\ order' = order
        /\ delivery' = delivery /\ rungs' = rungs /\ crashes' \in 0..MaxCrashes
    BY <1>5, ProcurementAssumption DEF Crash, TypeInv
  <2>2. 0 \in 0..MaxLines BY ProcurementAssumption
  <2>3. CallShape' BY <2>1, <2>2 DEF CallShape, Idle
  <2>4. Idle.op = "idle" /\ Idle.on = NoTarget BY DEF Idle
  <2>5. \A p \in Procs : CallTyped(call[p])' BY <2>1, <2>4 DEF CallTyped, OnRequests
  <2>6. Together' BY <2>1, <2>4 DEF Together
  <2>. QED BY <2>1, <2>3, <2>5, <2>6 DEF TypeInv, RowTypes
<1>6. ASSUME UNCHANGED vars PROVE TypeInv'
  BY <1>6 DEF vars, TypeInv, RowTypes, CallShape, CallTyped, Together
<1>. QED BY <1>1, <1>2, <1>3, <1>4, <1>5, <1>6 DEF Next

\* Whatever runs beside whatever, every row and every operation in flight
\* keeps its type.
THEOREM ProcurementTypes == Spec => []TypeOK
<1>1. TypeInv => TypeOK
  BY DEF TypeInv, TypeOK, RowTypes, CallShape, CallTyped
<1>2. TypeInv /\ [Next]_vars => TypeInv' BY StepTypes
<1>. QED BY <1>1, <1>2, InitTypes, PTL DEF Spec

-----------------------------------------------------------------------------
(* Signatures.  An edit, a submission, an approval or a rejection runs     *)
(* beside no other kind of operation on requests (beside its own kind, and *)
(* beside whatever happens to orders and deliveries, it may).              *)

OneKind == {"edit", "submit", "approve", "reject"}

RequestsSerial ==
  \A group \in Overlap : \A op \in group \cap OneKind : group \cap OnRequests = {op}

HasRung(rs, role) == \E j \in DOMAIN rs : rs[j].role = role
Waiting(rs) == \E j \in DOMAIN rs : rs[j].decision = "pending"
ChainSigned(rs, role) == \E j \in DOMAIN rs : rs[j] = [role |-> role, decision |-> "approved"]

\* A request's rungs, at each of its statuses.
RequestSigned(r) ==
  LET rs == rungs[r]  chain == Chain(r, request[r].qty) IN
  /\ request[r].by = "client" => \A j \in DOMAIN rs : rs[j].role # "client"
  /\ request[r].status # "cancelled" => \A j \in DOMAIN rs : rs[j].decision # "withdrawn"
  /\ request[r].status \in {"submitted", "approved", "rejected", "converted"} =>
       \A i \in DOMAIN chain : HasRung(rs, chain[i])
  /\ request[r].status \in {"approved", "converted"} =>
       \A i \in DOMAIN chain : ChainSigned(rs, chain[i])

\* A call that counts a request's decisions, or is about to write the result.
Settling == {"tally", "rejected", "approved"}

\* What an operation on a request can rely on although it has let others run.
CallSigned(p) ==
  LET c == call[p]  rs == rungs[c.on]  chain == Chain(c.on, c.qty)
      status == request[c.on].status IN
  /\ c.op = "edit" => status = "draft"
  /\ c.op = "submit" =>
       /\ status \in {"draft", "submitted", "approved"} /\ request[c.on].qty = c.qty
       /\ \A i \in DOMAIN chain : i < c.row =>
            HasRung(rs, chain[i]) /\ (SoleSigner(c.on, c.qty) => ChainSigned(rs, chain[i]))
       /\ c.row > 1 /\ ~SoleSigner(c.on, c.qty) => Waiting(rs)
  /\ c.op = "approve" =>
       status \in {"submitted", "approved", "rejected"} /\ c.row \in DOMAIN rs
  /\ c.op = "reject" =>
       /\ status \in {"submitted", "rejected"} /\ c.row \in DOMAIN rs
       /\ c.step = "tally" => AnyRejected(c.on)
  /\ c.step \in Settling => c.op \in {"approve", "reject"}
  /\ c.step = "approved" => c.op = "approve" /\ AllApproved(c.on)

Decidable(r) ==
  request[r].status = "submitted" /\ crashes = 0 =>
    Waiting(rungs[r]) \/ \E p \in Procs : call[p].on = r /\ call[p].step \in Settling

SignInv ==
  /\ \A r \in Requests : RequestSigned(r) /\ Decidable(r)
  /\ \A p \in Procs : CallSigned(p)

\* Beside an operation of one kind, there is only its own kind.
LEMMA Alone ==
  ASSUME RequestsSerial, TypeInv, NEW p \in Procs, NEW q \in Procs \ {p},
         call[p].op \in OneKind, call[q].op \in OnRequests
  PROVE  call[q].op = call[p].op
<1>1. call[p].op # "idle" /\ call[q].op # "idle" BY DEF OneKind, OnRequests
<1>2. \E group \in Overlap : {call[p].op, call[q].op} \subseteq group
  BY <1>1 DEF TypeInv, Together, Compatible
<1>. QED BY <1>2 DEF RequestsSerial

\* Who must sign depends on who asks, and that does not change.
LEMMA ChainStays ==
  ASSUME NEW r, request'[r].by = request[r].by
  PROVE  /\ \A q : Chain(r, q)' = Chain(r, q)
         /\ \A q : SoleSigner(r, q)' = SoleSigner(r, q)
BY DEF Chain, SoleSigner

\* What an operation relies on is about its own request.
LEMMA CallSignedStays ==
  ASSUME NEW p \in Procs, CallSigned(p), call'[p] = call[p],
         call[p].op \in OnRequests => /\ request'[call[p].on] = request[call[p].on]
                                      /\ rungs'[call[p].on] = rungs[call[p].on]
  PROVE  CallSigned(p)'
<1>. DEFINE on == call[p].on
<1>1. CASE call[p].op \in OnRequests
  <2>1. request'[on] = request[on] /\ rungs'[on] = rungs[on] /\ call'[p] = call[p]
    BY <1>1
  <2>2. ASSUME NEW r, r = on
        PROVE  /\ \A q : Chain(r, q)' = Chain(r, q)
               /\ \A q : SoleSigner(r, q)' = SoleSigner(r, q)
    BY <2>1, <2>2, ChainStays
  <2>. QED BY <2>1, <2>2 DEF CallSigned, HasRung, ChainSigned, Waiting, AnyRejected, AllApproved
<1>2. CASE call[p].op \notin OnRequests
  BY <1>2 DEF CallSigned, OnRequests
<1>. QED BY <1>1, <1>2

\* An operation that is not under way relies on nothing.
LEMMA IdleSigned ==
  ASSUME NEW p \in Procs, call'[p] = Idle
  PROVE  CallSigned(p)'
<1>1. Idle.op = "idle" /\ Idle.step = "read" BY DEF Idle
<1>. QED BY <1>1 DEF CallSigned, Settling

\* A step that touches one request, and whoever is about it.
LEMMA Touching ==
  ASSUME TypeInv, SignInv, NEW r, crashes' = crashes,
         \A x \in Requests \ {r} : request'[x] = request[x] /\ rungs'[x] = rungs[x],
         r \in Requests => RequestSigned(r)' /\ Decidable(r)',
         \A q \in Procs : \/ CallSigned(q)'
                          \/ call'[q] = call[q] /\ ~(call[q].op \in OnRequests /\ call[q].on = r),
         \A q \in Procs : \/ call'[q] = call[q]
                          \/ call[q].step \in Settling => call[q].on = r
  PROVE  SignInv'
<1>1. ASSUME NEW q \in Procs PROVE CallSigned(q)'
  <2>1. CASE call'[q] = call[q] /\ ~(call[q].op \in OnRequests /\ call[q].on = r)
    <3>1. call[q].op \in OnRequests => call[q].on \in Requests \ {r}
      BY <2>1 DEF TypeInv, CallTyped
    <3>. QED BY <2>1, <3>1, CallSignedStays DEF SignInv
  <2>. QED BY <2>1
<1>2. ASSUME NEW x \in Requests PROVE RequestSigned(x)' /\ Decidable(x)'
  <2>1. CASE x # r
    <3>1. request'[x] = request[x] /\ rungs'[x] = rungs[x] BY <2>1
    <3>2. \A q : Chain(x, q)' = Chain(x, q) BY <3>1, ChainStays
    <3>3. RequestSigned(x)' BY <3>1, <3>2 DEF SignInv, RequestSigned, HasRung, ChainSigned
    <3>4. Decidable(x)'
      <4>1. \A q \in Procs : call[q].on = x /\ call[q].step \in Settling => call'[q] = call[q]
        BY <2>1
      <4>. QED BY <3>1, <4>1 DEF SignInv, Decidable, Waiting
    <3>. QED BY <3>3, <3>4
  <2>. QED BY <2>1
<1>. QED BY <1>1, <1>2 DEF SignInv

\* The others that are about the same request do the same kind of thing.
LEMMA SameKind ==
  ASSUME RequestsSerial, TypeInv, NEW p \in Procs, call[p].op \in OneKind,
         NEW q \in Procs \ {p}
  PROVE  call[q].op \notin OnRequests \/ call[q].op = call[p].op
BY Alone

\* updateRequest clears the lines and writes them again.
LEMMA EditSigned ==
  ASSUME RequestsSerial, TypeInv, TypeInv', SignInv, NEW p \in Procs,
         EditClear(p) \/ EditLines(p)
  PROVE  SignInv'
<1>. DEFINE on == call[p].on
<1>0. on \in Requests /\ call[p].op = "edit" /\ request[on].status = "draft"
  BY DEF EditClear, EditLines, At, TypeInv, CallTyped, OnRequests, SignInv, CallSigned
<1>1. PICK r \in Requests : r = on BY <1>0
<1>2. request \in [Requests -> RequestRow] BY DEF TypeInv, RowTypes
<1>3. /\ rungs' = rungs /\ crashes' = crashes
      /\ \A x \in Requests \ {r} : request'[x] = request[x]
      /\ request'[r].status = "draft" /\ request'[r].by = request[r].by
  BY <1>0, <1>1, <1>2 DEF EditClear, EditLines, RequestRow
<1>4. /\ call'[p] = Idle \/ (call'[p].op = "edit" /\ call'[p].on = r /\ call'[p].step = "lines")
      /\ \A q \in Procs \ {p} : call'[q] = call[q]
  <2>1. CASE EditClear(p)
    <3>1. Goto(p, "lines", 0) /\ call[p].op = "edit" BY <2>1 DEF EditClear, At
    <3>2. /\ call'[p] = [op |-> call[p].op, on |-> call[p].on, step |-> "lines",
                         row |-> 0, qty |-> call[p].qty]
          /\ \A q \in Procs \ {p} : call'[q] = call[q]
      BY <3>1, GotoTyped
    <3>. QED BY <1>1, <3>1, <3>2
  <2>2. CASE EditLines(p) BY <2>2, AnswerTyped DEF EditLines
  <2>. QED BY <2>1, <2>2
<1>. HIDE DEF on
<1>5. CallSigned(p)'
  <2>1. CASE call'[p] = Idle BY <2>1, IdleSigned
  <2>2. CASE call'[p].op = "edit" /\ call'[p].on = r /\ call'[p].step = "lines"
    BY <1>3, <2>2 DEF CallSigned, Settling
  <2>. QED BY <1>4, <2>1, <2>2
<1>6. ASSUME NEW q \in Procs \ {p}
      PROVE  CallSigned(q)' \/ ~(call[q].op \in OnRequests /\ call[q].on = r)
  <2>1. CASE call[q].op = "edit" /\ call[q].on = r
    <3>1. call[q].step \notin Settling BY <2>1 DEF SignInv, CallSigned
    <3>. QED BY <1>3, <1>4, <2>1, <3>1 DEF CallSigned, Settling
  <2>. QED BY <1>0, <2>1, SameKind DEF OneKind
<1>7. RequestSigned(r)' BY <1>0, <1>1, <1>3 DEF SignInv, RequestSigned
<1>8. Decidable(r)' BY <1>3 DEF Decidable
<1>9. call[p].step \notin Settling BY <1>0 DEF SignInv, CallSigned
<1>. QED BY <1>3, <1>4, <1>5, <1>6, <1>7, <1>8, <1>9, Touching

\* What adding a rung leaves of the others.
LEMMA RungAdded ==
  ASSUME NEW rs \in Seq(Rung), NEW x \in Rung
  PROVE  LET new == Append(rs, x) IN
         /\ \A j \in DOMAIN rs : j \in DOMAIN new /\ new[j] = rs[j]
         /\ Len(rs) + 1 \in DOMAIN new /\ new[Len(rs) + 1] = x
         /\ \A j \in DOMAIN new : new[j] = x \/ \E k \in DOMAIN rs : new[j] = rs[k]
         /\ \A role : HasRung(rs, role) => HasRung(new, role)
         /\ \A role : ChainSigned(rs, role) => ChainSigned(new, role)
         /\ Waiting(rs) => Waiting(new)
<1>. DEFINE new == Append(rs, x)
<1>1. /\ \A j \in DOMAIN rs : j \in DOMAIN new /\ new[j] = rs[j]
      /\ Len(rs) + 1 \in DOMAIN new /\ new[Len(rs) + 1] = x
      /\ \A j \in DOMAIN new : new[j] = x \/ \E k \in DOMAIN rs : new[j] = rs[k]
  OBVIOUS
<1>. HIDE DEF new
<1>2. \A role : HasRung(rs, role) => HasRung(new, role) BY <1>1 DEF HasRung
<1>3. \A role : ChainSigned(rs, role) => ChainSigned(new, role) BY <1>1 DEF ChainSigned
<1>4. Waiting(rs) => Waiting(new) BY <1>1 DEF Waiting
<1>. QED BY <1>1, <1>2, <1>3, <1>4 DEF new

\* submitRequest files one rung more.
LEMMA FileRungSigned ==
  ASSUME RequestsSerial, TypeInv, TypeInv', SignInv, NEW p \in Procs, FileRung(p)
  PROVE  SignInv'
<1>. DEFINE c == call[p]
<1>0. /\ c.on \in Requests /\ c.op = "submit" /\ c.step = "read" /\ c.row \in Nat \ {0}
      /\ c.qty \in 0..MaxLines /\ c.row <= Len(Chain(c.on, c.qty)) /\ CallSigned(p)
  BY DEF FileRung, At, TypeInv, CallShape, CallTyped, OnRequests, SignInv
<1>1. PICK r \in Requests : r = c.on BY <1>0
<1>2. PICK n \in Nat \ {0} : n = c.row BY <1>0
<1>3. PICK m \in 0..MaxLines : m = c.qty BY <1>0
<1>. DEFINE chain == Chain(r, m)
            sole == SoleSigner(r, m)
            x == [role |-> chain[n], decision |-> IF sole THEN "approved" ELSE "pending"]
            rs == rungs[r]
            new == Append(rs, x)
<1>4. rungs' = [rungs EXCEPT ![r] = new] /\ request' = request /\ crashes' = crashes
  BY <1>1, <1>2, <1>3 DEF FileRung
<1>5. /\ chain \in Seq(Roles) /\ n \in DOMAIN chain /\ DOMAIN chain = 1..Len(chain)
      /\ Len(chain) \in Nat
      /\ request[r].by = "client" => \A i \in DOMAIN chain : chain[i] # "client"
  BY <1>0, <1>1, <1>2, <1>3, ChainTyped
<1>6. x \in Rung /\ rs \in Seq(Rung)
  <2>1. chain[n] \in Roles BY <1>5
  <2>2. rungs \in [Requests -> Seq(Rung)] BY DEF TypeInv
  <2>. QED BY <2>1, <2>2 DEF Rung
<1>7. x.role = chain[n] /\ x.decision = IF sole THEN "approved" ELSE "pending" OBVIOUS
<1>8. x.decision = "approved" => x = [role |-> x.role, decision |-> "approved"] OBVIOUS
<1>9. /\ call'[p].op = "submit" /\ call'[p].on = r /\ call'[p].step = "read"
      /\ call'[p].row = n + 1 /\ call'[p].qty = m
      /\ \A q \in Procs \ {p} : call'[q] = call[q]
  <2>1. Goto(p, "read", n + 1) /\ n + 1 \in Nat \ {0} BY <1>2 DEF FileRung
  <2>2. /\ call'[p] = [op |-> call[p].op, on |-> call[p].on, step |-> "read",
                       row |-> n + 1, qty |-> call[p].qty]
        /\ \A q \in Procs \ {p} : call'[q] = call[q]
    BY <2>1, GotoTyped
  <2>. QED BY <1>0, <1>1, <1>3, <2>2
<1>10. rungs'[r] = new /\ \A y \in Requests \ {r} : rungs'[y] = rungs[y]
  BY <1>4 DEF TypeInv
<1>11. CallSigned(p) /\ RequestSigned(r) /\ Decidable(r) BY <1>0 DEF SignInv
<1>12. /\ request[r].status \in {"draft", "submitted", "approved"} /\ request[r].qty = m
       /\ \A i \in DOMAIN chain : i < n =>
            HasRung(rs, chain[i]) /\ (sole => ChainSigned(rs, chain[i]))
  BY <1>0, <1>1, <1>2, <1>3, <1>11 DEF CallSigned
<1>13. \A a, b : Chain(a, b)' = Chain(a, b) /\ SoleSigner(a, b)' = SoleSigner(a, b)
  BY <1>4, ChainStays
<1>. HIDE DEF c, chain, sole, x, rs, new
<1>14. /\ \A j \in DOMAIN rs : j \in DOMAIN new /\ new[j] = rs[j]
       /\ Len(rs) + 1 \in DOMAIN new /\ new[Len(rs) + 1] = x
       /\ \A j \in DOMAIN new : new[j] = x \/ \E k \in DOMAIN rs : new[j] = rs[k]
       /\ \A role : HasRung(rs, role) => HasRung(new, role)
       /\ \A role : ChainSigned(rs, role) => ChainSigned(new, role)
       /\ Waiting(rs) => Waiting(new)
  BY <1>6, RungAdded DEF new
<1>15. HasRung(new, chain[n]) /\ (sole => ChainSigned(new, chain[n])) /\ (~sole => Waiting(new))
  BY <1>7, <1>8, <1>14 DEF HasRung, ChainSigned, Waiting
<1>16. RequestSigned(r)'
  <2>1. /\ request[r].by = "client" => \A j \in DOMAIN rs : rs[j].role # "client"
        /\ \A j \in DOMAIN rs : rs[j].decision # "withdrawn"
        /\ request[r].status \in {"submitted", "approved"} =>
             \A i \in DOMAIN chain : HasRung(rs, chain[i])
        /\ request[r].status = "approved" => \A i \in DOMAIN chain : ChainSigned(rs, chain[i])
    BY <1>11, <1>12 DEF RequestSigned, chain, rs
  <2>2. x.decision # "withdrawn" BY <1>7
  <2>3. /\ request[r].by = "client" => \A j \in DOMAIN new : new[j].role # "client"
        /\ \A j \in DOMAIN new : new[j].decision # "withdrawn"
    BY <1>5, <1>7, <1>14, <2>1, <2>2
  <2>4. Chain(r, request[r].qty)' = chain BY <1>4, <1>12, <1>13 DEF chain
  <2>. QED BY <1>4, <1>10, <1>12, <1>14, <2>1, <2>3, <2>4 DEF RequestSigned
<1>17. CallSigned(p)'
  <2>1. \A i \in DOMAIN chain : i < n + 1 =>
          HasRung(new, chain[i]) /\ (sole => ChainSigned(new, chain[i]))
    <3>. SUFFICES ASSUME NEW i \in DOMAIN chain, i < n + 1
                  PROVE  HasRung(new, chain[i]) /\ (sole => ChainSigned(new, chain[i]))
      OBVIOUS
    <3>1. CASE i < n BY <1>12, <1>14, <3>1
    <3>2. CASE i = n BY <1>15, <3>2
    <3>. QED BY <1>5, <3>1, <3>2
  <2>2. Chain(r, m)' = chain /\ SoleSigner(r, m)' = sole BY <1>13 DEF chain, sole
  <2>. QED BY <1>4, <1>9, <1>10, <1>12, <1>15, <2>1, <2>2 DEF CallSigned, Settling
<1>18. ASSUME NEW q \in Procs \ {p}
       PROVE  CallSigned(q)' \/ ~(call[q].op \in OnRequests /\ call[q].on = r)
  <2>1. CASE call[q].op = "submit" /\ call[q].on = r
    <3>1. CallSigned(q) /\ call'[q] = call[q] BY <1>9 DEF SignInv
    <3>2. call[q].step \notin Settling BY <2>1, <3>1 DEF CallSigned
    <3>3. PICK e : e = call[q].qty OBVIOUS
    <3>4. Chain(r, e)' = Chain(r, e) /\ SoleSigner(r, e)' = SoleSigner(r, e) BY <1>13
    <3>. QED BY <1>4, <1>10, <1>14, <2>1, <3>1, <3>2, <3>3, <3>4 DEF CallSigned, Settling, rs
  <2>. QED BY <1>0, <2>1, SameKind DEF OneKind, c
<1>19. Decidable(r)'
  <2>1. call[p].step \notin Settling BY <1>0 DEF c, Settling
  <2>. QED BY <1>4, <1>9, <1>10, <1>11, <1>14, <2>1 DEF Decidable, rs
<1>20. call[p].step \notin Settling BY <1>0 DEF c, Settling
<1>. QED BY <1>4, <1>9, <1>10, <1>16, <1>17, <1>18, <1>19, <1>20, Touching

\* submitRequest writes the status, the last rung filed.
LEMMA FileStatusSigned ==
  ASSUME RequestsSerial, TypeInv, TypeInv', SignInv, NEW p \in Procs, FileStatus(p)
  PROVE  SignInv'
<1>. DEFINE c == call[p]
<1>0. /\ c.on \in Requests /\ c.op = "submit" /\ c.step = "read" /\ c.row \in Nat \ {0}
      /\ c.qty \in 0..MaxLines /\ c.row > Len(Chain(c.on, c.qty))
  BY DEF FileStatus, At, TypeInv, CallShape, CallTyped, OnRequests
<1>1. PICK r \in Requests : r = c.on BY <1>0
<1>2. PICK n \in Nat \ {0} : n = c.row BY <1>0
<1>3. PICK m \in 0..MaxLines : m = c.qty BY <1>0
<1>. DEFINE chain == Chain(r, m)
            sole == SoleSigner(r, m)
            s == IF sole THEN "approved" ELSE "submitted"
<1>4. /\ rungs' = rungs /\ crashes' = crashes /\ Answer(p) /\ SetRequest(r, s)
  BY <1>1, <1>2, <1>3 DEF FileStatus
<1>5. /\ DOMAIN chain = 1..Len(chain) /\ Len(chain) \in Nat \ {0} BY <1>3, ChainTyped
<1>6. CallSigned(p) /\ RequestSigned(r) BY DEF SignInv
<1>7. /\ request[r].status \in {"draft", "submitted", "approved"} /\ request[r].qty = m
      /\ \A i \in DOMAIN chain : i < n =>
           HasRung(rungs[r], chain[i]) /\ (sole => ChainSigned(rungs[r], chain[i]))
      /\ n > 1 /\ ~sole => Waiting(rungs[r])
  BY <1>0, <1>1, <1>2, <1>3, <1>6 DEF CallSigned
<1>8. n > Len(chain) BY <1>0, <1>1, <1>2, <1>3
<1>. HIDE DEF c, chain, sole
<1>9. s \in RequestStatus /\ s \in {"submitted", "approved"} BY DEF RequestStatus
<1>10. /\ request'[r].status = s /\ request'[r].qty = m /\ request'[r].by = request[r].by
       /\ \A x \in Requests \ {r} : request'[x] = request[x]
  BY <1>4, <1>7 DEF SetRequest, TypeInv, RowTypes, RequestRow
<1>11. \A b : Chain(r, b)' = Chain(r, b) /\ SoleSigner(r, b)' = SoleSigner(r, b)
  BY <1>10, ChainStays
<1>12. \A i \in DOMAIN chain :
         HasRung(rungs[r], chain[i]) /\ (sole => ChainSigned(rungs[r], chain[i]))
  <2>1. \A i \in DOMAIN chain : i < n BY <1>5, <1>8
  <2>. QED BY <1>7, <2>1
<1>13. ~sole => Waiting(rungs[r])
  <2>1. n > 1 BY <1>5, <1>8
  <2>. QED BY <1>7, <2>1
<1>14. RequestSigned(r)'
  <2>1. Chain(r, request[r].qty)' = chain BY <1>10, <1>11 DEF chain
  <2>2. /\ request[r].by = "client" => \A j \in DOMAIN rungs[r] : rungs[r][j].role # "client"
        /\ \A j \in DOMAIN rungs[r] : rungs[r][j].decision # "withdrawn"
    BY <1>6, <1>7 DEF RequestSigned
  <2>3. s = "approved" => sole OBVIOUS
  <2>. HIDE DEF s
  <2>. QED BY <1>4, <1>9, <1>10, <1>12, <2>1, <2>2, <2>3 DEF RequestSigned
<1>15. call'[p] = Idle /\ \A q \in Procs \ {p} : call'[q] = call[q] BY <1>4, AnswerTyped
<1>16. ASSUME NEW q \in Procs \ {p}
       PROVE  CallSigned(q)' \/ ~(call[q].op \in OnRequests /\ call[q].on = r)
  <2>1. CASE call[q].op = "submit" /\ call[q].on = r
    <3>1. CallSigned(q) /\ call'[q] = call[q] BY <1>15 DEF SignInv
    <3>2. call[q].step \notin Settling BY <2>1, <3>1 DEF CallSigned
    <3>3. PICK e : e = call[q].qty OBVIOUS
    <3>4. Chain(r, e)' = Chain(r, e) /\ SoleSigner(r, e)' = SoleSigner(r, e) BY <1>11
    <3>5. request[r].qty = e BY <2>1, <3>1, <3>3 DEF CallSigned
    <3>. HIDE DEF s
    <3>. QED BY <1>4, <1>7, <1>9, <1>10, <2>1, <3>1, <3>2, <3>3, <3>4, <3>5
             DEF CallSigned, Settling
  <2>. QED BY <1>0, <2>1, SameKind DEF OneKind, c
<1>17. CallSigned(p)' BY <1>15, IdleSigned
<1>18. Decidable(r)'
  <2>1. s = "submitted" => ~sole OBVIOUS
  <2>. HIDE DEF s
  <2>. QED BY <1>4, <1>10, <1>13, <2>1 DEF Decidable
<1>19. call[p].step \notin Settling BY <1>0 DEF c, Settling
<1>. QED BY <1>4, <1>10, <1>14, <1>15, <1>16, <1>17, <1>18, <1>19, Touching

\* What a decision leaves of the rungs.
LEMMA RungDecided ==
  ASSUME NEW rs \in Seq(Rung), NEW i \in DOMAIN rs, NEW d
  PROVE  LET new == [rs EXCEPT ![i].decision = d] IN
         /\ DOMAIN new = DOMAIN rs
         /\ \A j \in DOMAIN rs : new[j].role = rs[j].role
         /\ \A j \in DOMAIN rs \ {i} : new[j] = rs[j]
         /\ new[i] = [role |-> rs[i].role, decision |-> d]
<1>1. rs[i] \in Rung OBVIOUS
<1>2. [rs[i] EXCEPT !.decision = d] = [role |-> rs[i].role, decision |-> d]
  BY <1>1 DEF Rung
<1>. QED BY <1>2

\* decideApproval signs or refuses a rung.
LEMMA DecideRungSigned ==
  ASSUME RequestsSerial, TypeInv, TypeInv', SignInv, NEW p \in Procs, DecideRung(p)
  PROVE  SignInv'
<1>. DEFINE c == call[p]
<1>0. c.on \in Requests /\ c.op \in {"approve", "reject"} /\ c.step = "read"
  BY DEF DecideRung, TypeInv, CallTyped, OnRequests
<1>1. PICK r \in Requests : r = c.on BY <1>0
<1>2. CallSigned(p) /\ RequestSigned(r) BY DEF SignInv
<1>3. /\ request[r].status \in {"submitted", "approved", "rejected"} /\ c.row \in DOMAIN rungs[r]
      /\ c.op = "reject" => request[r].status # "approved"
  BY <1>0, <1>1, <1>2 DEF CallSigned
<1>4. PICK n \in DOMAIN rungs[r] : n = c.row BY <1>3
<1>. DEFINE d == IF c.op = "approve" THEN "approved" ELSE "rejected"
            rs == rungs[r]
            new == [rs EXCEPT ![n].decision = d]
<1>5. /\ rungs' = [rungs EXCEPT ![r] = new] /\ request' = request /\ crashes' = crashes
      /\ Goto(p, "tally", n)
  BY <1>1, <1>4 DEF DecideRung
<1>6. rungs'[r] = new /\ \A y \in Requests \ {r} : rungs'[y] = rungs[y]
  BY <1>5 DEF TypeInv
<1>7. rs \in Seq(Rung) BY DEF TypeInv
<1>8. /\ DOMAIN new = DOMAIN rs
      /\ \A j \in DOMAIN rs : new[j].role = rs[j].role
      /\ \A j \in DOMAIN rs \ {n} : new[j] = rs[j]
      /\ new[n] = [role |-> rs[n].role, decision |-> d]
  BY <1>7, RungDecided
<1>9. call'[p] = [op |-> c.op, on |-> c.on, step |-> "tally", row |-> n, qty |-> c.qty]
      /\ \A q \in Procs \ {p} : call'[q] = call[q]
  <2>1. c.op # "submit" BY <1>0
  <2>. QED BY <1>5, <2>1, GotoTyped
<1>10. \A b : Chain(r, b)' = Chain(r, b) /\ SoleSigner(r, b)' = SoleSigner(r, b)
  BY <1>5, ChainStays
<1>11. d = "approved" \/ (d = "rejected" /\ c.op = "reject") BY <1>0
<1>12. c.op = "reject" => d = "rejected" OBVIOUS
<1>13. c.op = "approve" => d = "approved" OBVIOUS
<1>. HIDE DEF new, d
<1>14. \A role : HasRung(rs, role) => HasRung(new, role) BY <1>8 DEF HasRung
<1>15. d = "approved" => \A role : ChainSigned(rs, role) => ChainSigned(new, role)
  <2>. SUFFICES ASSUME d = "approved", NEW role, ChainSigned(rs, role) PROVE ChainSigned(new, role)
    OBVIOUS
  <2>1. PICK j \in DOMAIN rs : rs[j] = [role |-> role, decision |-> "approved"] BY DEF ChainSigned
  <2>2. new[j] = rs[j] BY <1>8, <2>1
  <2>. QED BY <1>8, <2>1, <2>2 DEF ChainSigned
<1>16. RequestSigned(r)'
  <2>1. /\ request[r].by = "client" => \A j \in DOMAIN new : new[j].role # "client"
        /\ \A j \in DOMAIN new : new[j].decision # "withdrawn"
    BY <1>2, <1>3, <1>8, <1>11 DEF RequestSigned
  <2>2. PICK e : e = request[r].qty OBVIOUS
  <2>3. /\ \A i \in DOMAIN Chain(r, e) : HasRung(new, Chain(r, e)[i])
        /\ request[r].status = "approved" => \A i \in DOMAIN Chain(r, e) : ChainSigned(new, Chain(r, e)[i])
    BY <1>2, <1>3, <1>11, <1>14, <1>15, <2>2 DEF RequestSigned
  <2>4. Chain(r, e)' = Chain(r, e) BY <1>10
  <2>. QED BY <1>3, <1>5, <1>6, <2>1, <2>2, <2>3, <2>4 DEF RequestSigned
<1>17. c.op = "reject" => AnyRejected(r)'
  <2>1. new[n].decision = d /\ n \in DOMAIN new BY <1>8
  <2>. QED BY <1>6, <1>12, <2>1 DEF AnyRejected
<1>18. c.op = "approve" /\ AllApproved(r) => AllApproved(r)'
  BY <1>6, <1>8, <1>13 DEF AllApproved
<1>19. CallSigned(p)'
  <2>1. /\ call'[p].op = c.op /\ call'[p].on = r /\ call'[p].step = "tally"
        /\ call'[p].row = n
    BY <1>1, <1>9
  <2>. QED BY <1>0, <1>1, <1>3, <1>5, <1>6, <1>8, <1>17, <2>1 DEF CallSigned, Settling
<1>20. ASSUME NEW q \in Procs \ {p}
       PROVE  CallSigned(q)' \/ ~(call[q].op \in OnRequests /\ call[q].on = r)
  <2>1. CASE call[q].op = c.op /\ call[q].on = r
    <3>1. CallSigned(q) /\ call'[q] = call[q] BY <1>9 DEF SignInv
    <3>. QED BY <1>0, <1>5, <1>6, <1>8, <1>17, <1>18, <2>1, <3>1 DEF CallSigned
  <2>. QED BY <1>0, <2>1, SameKind DEF OneKind
<1>21. Decidable(r)' BY <1>1, <1>9 DEF Decidable, Settling
<1>22. call[p].step \notin Settling BY <1>0 DEF Settling
<1>. QED BY <1>5, <1>6, <1>9, <1>16, <1>19, <1>20, <1>21, <1>22, Touching

\* decideApproval counts the decisions.
LEMMA TallySigned ==
  ASSUME RequestsSerial, TypeInv, TypeInv', SignInv, NEW p \in Procs, Tally(p)
  PROVE  SignInv'
<1>. DEFINE c == call[p]
<1>0. c.on \in Requests /\ c.op \in {"approve", "reject"} /\ c.step = "tally" /\ CallSigned(p)
  BY DEF Tally, TypeInv, CallTyped, OnRequests, SignInv, CallSigned, Settling
<1>1. PICK r \in Requests : r = c.on BY <1>0
<1>2. request' = request /\ rungs' = rungs /\ crashes' = crashes BY DEF Tally
<1>3. RequestSigned(r) /\ Decidable(r) BY DEF SignInv
<1>4. RequestSigned(r)'
  <2>1. \A b : Chain(r, b)' = Chain(r, b) BY <1>2, ChainStays
  <2>. QED BY <1>2, <1>3, <2>1 DEF RequestSigned
<1>5. \/ AnyRejected(r) /\ Goto(p, "rejected", c.row)
      \/ ~AnyRejected(r) /\ AllApproved(r) /\ Goto(p, "approved", c.row)
      \/ ~AnyRejected(r) /\ ~AllApproved(r) /\ Answer(p)
  BY <1>1 DEF Tally
<1>6. ASSUME NEW step \in {"rejected", "approved"}, Goto(p, step, c.row),
             step = "approved" => ~AnyRejected(r) /\ AllApproved(r)
      PROVE  SignInv'
  <2>1. /\ call'[p] = [op |-> c.op, on |-> c.on, step |-> step, row |-> c.row, qty |-> c.qty]
        /\ \A q \in Procs \ {p} : call'[q] = call[q]
    <3>1. c.op # "submit" BY <1>0
    <3>. QED BY <1>6, <3>1, GotoTyped
  <2>2. CallSigned(p)'
    <3>1. /\ call'[p].op = c.op /\ call'[p].on = r /\ call'[p].step = step
          /\ call'[p].row = c.row
      BY <1>1, <2>1
    <3>2. step = "approved" => c.op = "approve" BY <1>0, <1>1, <1>6 DEF CallSigned
    <3>. QED BY <1>0, <1>1, <1>2, <1>6, <3>1, <3>2 DEF CallSigned, AllApproved
  <2>3. Decidable(r)' BY <1>1, <2>1 DEF Decidable, Settling
  <2>4. ASSUME NEW q \in Procs \ {p}
        PROVE  CallSigned(q)' \/ ~(call[q].op \in OnRequests /\ call[q].on = r)
    BY <1>2, <2>1, CallSignedStays DEF SignInv
  <2>. QED BY <1>1, <1>2, <1>4, <2>1, <2>2, <2>3, <2>4, Touching
<1>7. ASSUME ~AnyRejected(r), ~AllApproved(r), Answer(p) PROVE SignInv'
  <2>1. call'[p] = Idle /\ \A q \in Procs \ {p} : call'[q] = call[q] BY <1>7, AnswerTyped
  <2>2. CallSigned(p)' BY <2>1, IdleSigned
  <2>3. Decidable(r)'
    <3>. SUFFICES ASSUME request[r].status = "submitted" PROVE Waiting(rungs[r])
      BY <1>2 DEF Decidable
    <3>1. \A j \in DOMAIN rungs[r] : rungs[r][j] \in Rung BY DEF TypeInv
    <3>2. \A j \in DOMAIN rungs[r] : rungs[r][j].decision # "withdrawn"
      BY <1>3 DEF RequestSigned
    <3>. QED BY <1>7, <3>1, <3>2 DEF AnyRejected, AllApproved, Waiting, Rung
  <2>4. ASSUME NEW q \in Procs \ {p}
        PROVE  CallSigned(q)' \/ ~(call[q].op \in OnRequests /\ call[q].on = r)
    BY <1>2, <2>1, CallSignedStays DEF SignInv
  <2>. QED BY <1>1, <1>2, <1>4, <2>1, <2>2, <2>3, <2>4, Touching
<1>. QED BY <1>5, <1>6, <1>7

\* decideApproval writes what it counted.
LEMMA SettleSigned ==
  ASSUME RequestsSerial, TypeInv, TypeInv', SignInv, NEW p \in Procs, Settle(p)
  PROVE  SignInv'
<1>. DEFINE c == call[p]
<1>0. /\ c.on \in Requests /\ c.op \in {"approve", "reject"} /\ CallSigned(p)
      /\ c.step \in {"rejected", "approved"}
  BY DEF Settle, TypeInv, CallTyped, OnRequests, SignInv, CallSigned, Settling
<1>1. PICK r \in Requests : r = c.on BY <1>0
<1>2. PICK s \in {"rejected", "approved"} : s = c.step BY <1>0
<1>3. rungs' = rungs /\ crashes' = crashes /\ SetRequest(r, s) /\ Answer(p)
  BY <1>1, <1>2 DEF Settle
<1>4. /\ request'[r].status = s /\ request'[r].qty = request[r].qty
      /\ request'[r].by = request[r].by
      /\ \A x \in Requests \ {r} : request'[x] = request[x]
  BY <1>3 DEF SetRequest, TypeInv, RowTypes, RequestRow
<1>5. call'[p] = Idle /\ \A q \in Procs \ {p} : call'[q] = call[q] BY <1>3, AnswerTyped
<1>6. /\ request[r].status \in {"submitted", "approved", "rejected"}
      /\ s = "approved" => c.op = "approve" /\ AllApproved(r)
  BY <1>0, <1>1, <1>2 DEF CallSigned
<1>7. RequestSigned(r)'
  <2>1. PICK e : e = request[r].qty OBVIOUS
  <2>2. Chain(r, e)' = Chain(r, e) BY <1>4, ChainStays
  <2>3. RequestSigned(r) BY DEF SignInv
  <2>4. \A i \in DOMAIN Chain(r, e) : HasRung(rungs[r], Chain(r, e)[i])
    BY <1>6, <2>1, <2>3 DEF RequestSigned
  <2>5. s = "approved" => \A i \in DOMAIN Chain(r, e) : ChainSigned(rungs[r], Chain(r, e)[i])
    <3>. SUFFICES ASSUME s = "approved", NEW i \in DOMAIN Chain(r, e)
                  PROVE  ChainSigned(rungs[r], Chain(r, e)[i])
      OBVIOUS
    <3>1. PICK j \in DOMAIN rungs[r] : rungs[r][j].role = Chain(r, e)[i] BY <2>4 DEF HasRung
    <3>2. rungs[r][j].decision = "approved" BY <1>6 DEF AllApproved
    <3>3. rungs[r][j] \in Rung BY DEF TypeInv
    <3>4. rungs[r][j] = [role |-> Chain(r, e)[i], decision |-> "approved"]
      BY <3>1, <3>2, <3>3 DEF Rung
    <3>. QED BY <3>4 DEF ChainSigned
  <2>6. /\ request[r].by = "client" => \A j \in DOMAIN rungs[r] : rungs[r][j].role # "client"
        /\ \A j \in DOMAIN rungs[r] : rungs[r][j].decision # "withdrawn"
    BY <1>6, <2>3 DEF RequestSigned
  <2>. QED BY <1>3, <1>4, <2>1, <2>2, <2>4, <2>5, <2>6 DEF RequestSigned
<1>8. ASSUME NEW q \in Procs \ {p}
      PROVE  CallSigned(q)' \/ ~(call[q].op \in OnRequests /\ call[q].on = r)
  <2>1. CASE call[q].op = c.op /\ call[q].on = r
    <3>1. CallSigned(q) /\ call'[q] = call[q] BY <1>5 DEF SignInv
    <3>2. c.op = "reject" => s = "rejected" BY <1>6
    <3>. QED BY <1>0, <1>3, <1>4, <2>1, <3>1, <3>2
             DEF CallSigned, AnyRejected, AllApproved
  <2>. QED BY <1>0, <2>1, SameKind DEF OneKind
<1>9. CallSigned(p)' BY <1>5, IdleSigned
<1>10. Decidable(r)' BY <1>4 DEF Decidable
<1>. QED BY <1>1, <1>3, <1>4, <1>5, <1>7, <1>8, <1>9, <1>10, Touching

\* cancelRequest and createOrder: claims, on a request nobody is at work on.
LEMMA ClaimSigned ==
  ASSUME RequestsSerial, TypeInv, TypeInv', SignInv, NEW p \in Procs,
         CancelRequest(p) \/ \E o \in Orders : CreateOrder(p, o)
  PROVE  SignInv'
<1>. DEFINE c == call[p]
<1>0. /\ c.on \in Requests /\ c.op \in {"cancelRequest", "createOrder"} /\ c.step = "read"
  BY DEF CancelRequest, CreateOrder, At, TypeInv, CallTyped, OnRequests
<1>1. PICK r \in Requests : r = c.on BY <1>0
<1>2. Answer(p) /\ crashes' = crashes BY DEF CancelRequest, CreateOrder
<1>3. call'[p] = Idle /\ \A q \in Procs \ {p} : call'[q] = call[q] BY <1>2, AnswerTyped
<1>4. ASSUME NEW q \in Procs \ {p}
      PROVE  CallSigned(q)' \/ ~(call[q].op \in OnRequests /\ call[q].on = r)
  <2>1. CASE call[q].op \in OneKind
    <3>1. c.op = call[q].op BY <1>0, <2>1, Alone DEF OnRequests
    <3>. QED BY <1>0, <2>1, <3>1 DEF OneKind
  <2>2. CASE call[q].op \notin OneKind
    <3>1. CallSigned(q) /\ call'[q] = call[q] BY <1>3 DEF SignInv
    <3>. QED BY <2>2, <3>1 DEF CallSigned, OneKind, Settling
  <2>. QED BY <2>1, <2>2
<1>5. CallSigned(p)' BY <1>3, IdleSigned
<1>6. RequestSigned(r) BY DEF SignInv
<1>7. PICK e : e = request[r].qty OBVIOUS
<1>8. CASE CancelRequest(p)
  <2>1. SetRequest(r, "cancelled") BY <1>1, <1>8 DEF CancelRequest
  <2>2. /\ request'[r].status = "cancelled" /\ request'[r].by = request[r].by
        /\ \A x \in Requests \ {r} : request'[x] = request[x]
    BY <2>1 DEF SetRequest, TypeInv, RowTypes, RequestRow
  <2>3. \A x \in Requests \ {r} : rungs'[x] = rungs[x]
    BY <1>1, <1>8 DEF CancelRequest, TypeInv
  <2>4. DOMAIN rungs'[r] = DOMAIN rungs[r] /\ \A j \in DOMAIN rungs[r] : rungs'[r][j].role = rungs[r][j].role
    <3>. DEFINE s == rungs[r]
    <3>1. rungs'[r] = [j \in DOMAIN s |->
                  IF s[j].decision = "pending" THEN [s[j] EXCEPT !.decision = "withdrawn"]
                                               ELSE s[j]]
      BY <1>1, <1>8 DEF CancelRequest, TypeInv
    <3>2. \A j \in DOMAIN s : s[j] \in Rung BY DEF TypeInv
    <3>3. \A x \in Rung : [x EXCEPT !.decision = "withdrawn"].role = x.role BY DEF Rung
    <3>. HIDE DEF s
    <3>. QED BY <3>1, <3>2, <3>3 DEF s
  <2>5. RequestSigned(r)' BY <1>6, <2>2, <2>4 DEF RequestSigned
  <2>6. Decidable(r)' BY <2>2 DEF Decidable
  <2>. QED BY <1>1, <1>2, <1>3, <1>4, <1>5, <2>2, <2>3, <2>5, <2>6, Touching
<1>9. CASE \E o \in Orders : CreateOrder(p, o)
  <2>1. SetRequest(r, "converted") /\ request[r].status = "approved" /\ rungs' = rungs
    BY <1>1, <1>9 DEF CreateOrder, Convertible
  <2>2. /\ request'[r].status = "converted" /\ request'[r].by = request[r].by
        /\ request'[r].qty = e
        /\ \A x \in Requests \ {r} : request'[x] = request[x]
    BY <1>7, <2>1 DEF SetRequest, TypeInv, RowTypes, RequestRow
  <2>3. Chain(r, e)' = Chain(r, e) BY <2>2, ChainStays
  <2>4. RequestSigned(r)' BY <1>6, <1>7, <2>1, <2>2, <2>3 DEF RequestSigned
  <2>5. Decidable(r)' BY <2>2 DEF Decidable
  <2>. QED BY <1>1, <1>2, <1>3, <1>4, <1>5, <2>1, <2>2, <2>4, <2>5, Touching
<1>. QED BY <1>8, <1>9

\* createRequest: a row nobody has read yet.
LEMMA CreateRequestSigned ==
  ASSUME TypeInv, TypeInv', SignInv, NEW r \in Requests, NEW q \in 1..MaxLines,
         CreateRequest(r, q)
  PROVE  SignInv'
<1>1. /\ request[r].status = "none" /\ rungs' = rungs /\ call' = call /\ crashes' = crashes
      /\ request' = [request EXCEPT ![r].status = "draft", ![r].qty = q]
  BY DEF CreateRequest
<1>2. /\ request'[r].status = "draft" /\ request'[r].by = request[r].by
      /\ \A x \in Requests \ {r} : request'[x] = request[x]
  BY <1>1 DEF TypeInv, RowTypes, RequestRow
<1>3. RequestSigned(r)' BY <1>1, <1>2 DEF SignInv, RequestSigned
<1>4. Decidable(r)' BY <1>2 DEF Decidable
<1>5. ASSUME NEW p \in Procs
      PROVE  CallSigned(p)' \/ ~(call[p].op \in OnRequests /\ call[p].on = r)
  <2>1. CASE call[p].op \in OnRequests /\ call[p].on = r
    <3>1. CallSigned(p) BY DEF SignInv
    <3>2. call[p].op \in {"cancelRequest", "createOrder"}
      BY <1>1, <2>1, <3>1 DEF CallSigned, OnRequests
    <3>. QED BY <1>1, <3>1, <3>2 DEF CallSigned, Settling
  <2>. QED BY <2>1
<1>. QED BY <1>1, <1>2, <1>3, <1>4, <1>5, Touching

\* A step of one operation that leaves requests and rungs alone.
LEMMA Elsewhere ==
  ASSUME TypeInv, SignInv, NEW p \in Procs,
         request' = request, rungs' = rungs, crashes' = crashes,
         \A q \in Procs \ {p} : call'[q] = call[q],
         CallSigned(p)', call[p].step \notin Settling
  PROVE  SignInv'
<1>1. ASSUME NEW q \in Procs \ {p}
      PROVE  ~(call[q].op \in OnRequests /\ call[q].on = NoTarget)
  BY ProcurementAssumption DEF TypeInv, CallTyped
<1>2. NoTarget \notin Requests BY ProcurementAssumption
<1>. QED BY <1>1, <1>2, Touching

\* An operation on a request starts from what it reads.
LEMMA StartSigned ==
  ASSUME TypeInv, TypeInv', SignInv, NEW p \in Procs, NEW op, NEW on, NEW row,
         NEW qty \in 0..MaxLines, Suspend(p, op, on, row, qty),
         \/ op \notin OneKind
         \/ op = "edit" /\ request[on].status = "draft"
         \/ op = "submit" /\ row = 1 /\ request[on].status = "draft" /\ request[on].qty = qty
         \/ /\ op \in {"approve", "reject"} /\ request[on].status = "submitted"
            /\ row \in DOMAIN rungs[on]
  PROVE  SignInv'
<1>1. /\ call[p] = Idle /\ request' = request /\ rungs' = rungs /\ crashes' = crashes
      /\ call'[p] = [op |-> op, on |-> on, step |-> "read", row |-> row, qty |-> qty]
      /\ \A q \in Procs \ {p} : call'[q] = call[q]
  BY DEF Suspend, TypeInv, CallShape
<1>2. /\ call'[p].op = op /\ call'[p].on = on /\ call'[p].step = "read"
      /\ call'[p].row = row /\ call'[p].qty = qty
  BY <1>1
<1>3. CallSigned(p)'
  <2>1. op = "submit" => /\ \A i \in DOMAIN Chain(on, qty) : ~(i < row)
                         /\ ~(row > 1)
    <3>. SUFFICES ASSUME op = "submit" PROVE \A i \in DOMAIN Chain(on, qty) : ~(i < row)
      BY DEF OneKind
    <3>1. on \in Requests BY <1>2 DEF TypeInv, CallTyped, OnRequests
    <3>2. DOMAIN Chain(on, qty) \subseteq Nat \ {0} BY <3>1, ChainTyped
    <3>. QED BY <3>2 DEF OneKind
  <2>2. Chain(on, qty)' = Chain(on, qty) BY <1>1, ChainStays
  <2>. QED BY <1>1, <1>2, <2>1, <2>2 DEF CallSigned, Settling, OneKind
<1>4. call[p].step \notin Settling BY <1>1 DEF Idle, Settling
<1>. QED BY <1>1, <1>3, <1>4, Elsewhere

\* The reads, as they are in the next-state relation.
LEMMA ReadsSigned ==
  ASSUME TypeInv, TypeInv', SignInv, NEW p \in Procs,
         \/ \E r \in Requests : \/ \E q \in 1..MaxLines : ReadEdit(p, r, q)
                                \/ ReadSubmit(p, r) \/ ReadWithdrawal(p, r)
                                \/ ReadForOrder(p, r)
                                \/ \E role \in Roles, op \in {"approve", "reject"} :
                                     ReadDecision(p, r, role, op)
         \/ \E o \in Orders : \/ \E op \in {"send", "confirm", "close"} : ReadOrder(p, op, o)
                              \/ ReadDispatch(p, o) \/ ReadCancelOrder(p, o)
         \/ \E d \in Deliveries : \/ ReadVoid(p, d)
                                  \/ \E op \in {"transit", "arrive"} : ReadLeg(p, op, d)
                                  \/ \E q \in 0..MaxLines : ReadReceipt(p, d, q)
  PROVE  SignInv'
<1>0. /\ 0 \in 0..MaxLines /\ 1..MaxLines \subseteq 0..MaxLines
      /\ \A r \in Requests : request[r].qty \in 0..MaxLines
  BY ProcurementAssumption DEF TypeInv, RowTypes, RequestRow
<1>1. ASSUME NEW r \in Requests, NEW q \in 1..MaxLines, ReadEdit(p, r, q) PROVE SignInv'
  BY <1>0, <1>1, StartSigned DEF ReadEdit
<1>2. ASSUME NEW r \in Requests, ReadSubmit(p, r) PROVE SignInv'
  BY <1>0, <1>2, StartSigned DEF ReadSubmit
<1>3. ASSUME NEW r \in Requests, ReadWithdrawal(p, r) \/ ReadForOrder(p, r) PROVE SignInv'
  BY <1>0, <1>3, StartSigned DEF ReadWithdrawal, ReadForOrder, OneKind
<1>4. ASSUME NEW r \in Requests, NEW role, NEW op \in {"approve", "reject"},
             ReadDecision(p, r, role, op)
      PROVE  SignInv'
  <2>1. request[r].status = "submitted" /\ \E i \in DOMAIN rungs[r] : Suspend(p, op, r, i, 0)
    BY <1>4 DEF ReadDecision, PendingRungs
  <2>. QED BY <1>0, <2>1, StartSigned
<1>5. ASSUME NEW o \in Orders,
             \/ \E op \in {"send", "confirm", "close"} : ReadOrder(p, op, o)
             \/ ReadDispatch(p, o) \/ ReadCancelOrder(p, o)
      PROVE  SignInv'
  BY <1>0, <1>5, StartSigned DEF ReadOrder, ReadDispatch, ReadCancelOrder, OneKind
<1>6. ASSUME NEW d \in Deliveries,
             ReadVoid(p, d) \/ \E op \in {"transit", "arrive"} : ReadLeg(p, op, d)
      PROVE  SignInv'
  BY <1>0, <1>6, StartSigned DEF ReadVoid, ReadLeg, OneKind
<1>7. ASSUME NEW d \in Deliveries, NEW q \in 0..MaxLines, ReadReceipt(p, d, q)
      PROVE  SignInv'
  BY <1>7, StartSigned DEF ReadReceipt, OneKind
<1>. QED BY <1>1, <1>2, <1>3, <1>4, <1>5, <1>6, <1>7

\* What happens to orders and deliveries, and what is refused.
LEMMA OthersSigned ==
  ASSUME TypeInv, TypeInv', SignInv, NEW p \in Procs,
         \/ \E d \in Deliveries : Dispatch(p, d)
         \/ WriteOrder(p) \/ CancelOrder(p) \/ VoidDelivery(p) \/ WriteLeg(p)
         \/ ReceiveDelivery(p)
         \/ CancelRequestRefused(p) \/ CreateOrderRefused(p) \/ DispatchRefused(p)
         \/ CancelOrderRefused(p) \/ VoidRefused(p) \/ ReceiveRefused(p)
  PROVE  SignInv'
<1>1. Answer(p) /\ request' = request /\ rungs' = rungs /\ crashes' = crashes
  BY DEF Dispatch, WriteOrder, CancelOrder, VoidDelivery, WriteLeg, ReceiveDelivery,
         CancelRequestRefused, CreateOrderRefused, DispatchRefused, CancelOrderRefused,
         VoidRefused, ReceiveRefused, Refuse
<1>2. call[p].op \notin {"approve", "reject"}
  BY DEF Dispatch, WriteOrder, CancelOrder, VoidDelivery, WriteLeg, ReceiveDelivery,
         CancelRequestRefused, CreateOrderRefused, DispatchRefused, CancelOrderRefused,
         VoidRefused, ReceiveRefused, At
<1>3. call[p].step \notin Settling BY <1>2 DEF SignInv, CallSigned
<1>4. CallSigned(p)' /\ \A q \in Procs \ {p} : call'[q] = call[q]
  BY <1>1, AnswerTyped, IdleSigned
<1>. QED BY <1>1, <1>3, <1>4, Elsewhere

LEMMA InitSigned == Init => SignInv
<1>. SUFFICES ASSUME Init PROVE SignInv
  OBVIOUS
<1>1. Idle.op = "idle" /\ Idle.step = "read" BY DEF Idle
<1>2. \A p \in Procs : CallSigned(p) BY <1>1 DEF Init, CallSigned, Settling
<1>3. ASSUME NEW r \in Requests PROVE request[r].status = "none" /\ rungs[r] = <<>>
  BY DEF Init
<1>4. \A r \in Requests : RequestSigned(r) BY <1>3 DEF RequestSigned
<1>5. \A r \in Requests : Decidable(r) BY <1>3 DEF Decidable
<1>. QED BY <1>2, <1>4, <1>5 DEF SignInv

LEMMA StepSigned ==
  ASSUME RequestsSerial, TypeInv, TypeInv', SignInv, [Next]_vars
  PROVE  SignInv'
<1>1. ASSUME NEW r \in Requests, NEW q \in 1..MaxLines, CreateRequest(r, q) PROVE SignInv'
  BY <1>1, CreateRequestSigned
<1>2. ASSUME NEW p \in Procs, RequestStep(p) PROVE SignInv'
  BY <1>2, ReadsSigned, EditSigned, FileRungSigned, FileStatusSigned, DecideRungSigned,
     TallySigned, SettleSigned, ClaimSigned, OthersSigned DEF RequestStep
<1>3. ASSUME NEW p \in Procs, OrderStep(p) PROVE SignInv'
  BY <1>3, ReadsSigned, ClaimSigned, OthersSigned DEF OrderStep
<1>4. ASSUME NEW p \in Procs, DeliveryStep(p) PROVE SignInv'
  BY <1>4, ReadsSigned, OthersSigned DEF DeliveryStep
<1>5. ASSUME Crash PROVE SignInv'
  <2>1. /\ call' = [p \in Procs |-> Idle] /\ request' = request /\ rungs' = rungs
        /\ crashes' # 0
    BY <1>5, ProcurementAssumption DEF Crash, TypeInv
  <2>2. \A p \in Procs : CallSigned(p)' BY <2>1, IdleSigned
  <2>3. ASSUME NEW r \in Requests PROVE RequestSigned(r)' /\ Decidable(r)'
    <3>1. \A q : Chain(r, q)' = Chain(r, q) BY <2>1, ChainStays
    <3>2. RequestSigned(r) BY DEF SignInv
    <3>. QED BY <2>1, <3>1, <3>2 DEF RequestSigned, Decidable
  <2>. QED BY <2>2, <2>3 DEF SignInv
<1>6. ASSUME UNCHANGED vars PROVE SignInv'
  <2>1. request' = request /\ rungs' = rungs /\ crashes' = crashes /\ call' = call
    BY <1>6 DEF vars
  <2>2. \A p \in Procs : CallSigned(p)' BY <2>1, CallSignedStays DEF SignInv
  <2>3. ASSUME NEW r \in Requests PROVE RequestSigned(r)' /\ Decidable(r)'
    <3>1. \A q : Chain(r, q)' = Chain(r, q) BY <2>1, ChainStays
    <3>2. RequestSigned(r) /\ Decidable(r) BY DEF SignInv
    <3>. QED BY <2>1, <3>1, <3>2 DEF RequestSigned, Decidable
  <2>. QED BY <2>2, <2>3 DEF SignInv
<1>. QED BY <1>1, <1>2, <1>3, <1>4, <1>5, <1>6 DEF Next

\* As long as edits, submissions, approvals and rejections run beside their
\* own kind only, an approved or converted request was signed by every role
\* its lines ask for, and a client's by no client, crashes halfway included
\* (updateRequest, submitRequest, decideApproval, createOrder).
THEOREM ApprovedAreSigned ==
  ASSUME RequestsSerial PROVE Spec => []SignedOff
<1>1. SignInv => SignedOff
  BY DEF SignInv, SignedOff, RequestSigned, ChainSigned
<1>2. TypeInv /\ SignInv /\ [Next]_vars => (TypeInv /\ SignInv)' BY StepTypes, StepSigned
<1>. QED BY <1>1, <1>2, InitTypes, InitSigned, PTL DEF Spec

\* Under the same condition, and without a crash, a submitted request waits
\* for somebody who may decide it, or for a decision that is being counted.
THEOREM SubmittedStaysDecidable ==
  ASSUME RequestsSerial PROVE Spec => []SubmittedIsDecidable
<1>1. TypeInv /\ SignInv => SubmittedIsDecidable
  <2>. SUFFICES ASSUME TypeInv, SignInv, NEW r \in Requests, request[r].status = "submitted",
                       crashes = 0, Waiting(rungs[r])
                PROVE  \E role \in Roles : MayDecide(r, role) /\ PendingRungs(r, role) # {}
    BY DEF SubmittedIsDecidable, SignInv, Decidable, Settling
  <2>1. PICK j \in DOMAIN rungs[r] : rungs[r][j].decision = "pending" BY DEF Waiting
  <2>2. rungs[r][j] \in Rung BY DEF TypeInv
  <2>3. PICK role \in Roles : rungs[r][j].role = role BY <2>2 DEF Rung
  <2>4. rungs[r][j] = [role |-> role, decision |-> "pending"] BY <2>1, <2>2, <2>3 DEF Rung
  <2>5. j \in PendingRungs(r, role) BY <2>4 DEF PendingRungs
  <2>6. MayDecide(r, role) BY <2>3 DEF SignInv, RequestSigned, MayDecide
  <2>. QED BY <2>5, <2>6
<1>2. TypeInv /\ SignInv /\ [Next]_vars => (TypeInv /\ SignInv)' BY StepTypes, StepSigned
<1>. QED BY <1>1, <1>2, InitTypes, InitSigned, PTL DEF Spec
=============================================================================
