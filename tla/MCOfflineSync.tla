---------------------------- MODULE MCOfflineSync ----------------------------
(* Small instances of OfflineSync for TLC. *)
EXTENDS OfflineSync, TLC

CONSTANTS log, pay, pay2, done, done2, invoice, mpesa, cash, c1, c2

MCKind == [a \in Actions |->
  CASE a = log -> "append" [] a \in {pay, pay2} -> "money" [] OTHER -> "field"]
MCPayment == [a \in {pay, pay2} |-> invoice]
MCMethod  == [a \in {pay, pay2} |-> IF a = pay THEN mpesa ELSE cash]

Symmetry == Permutations(Calls)

\* Nothing tells the two payments apart but their names and their methods.
Swapped == pay :> pay2 @@ pay2 :> pay @@ mpesa :> cash @@ cash :> mpesa
Unswapped == [x \in DOMAIN Swapped |-> x]
PaymentSymmetry ==
  {f @@ g : f \in Permutations(Calls), g \in {Swapped, Unswapped}}

\* The state constraint of the run outbox: a behaviour works on the two
\* payments of one request, or on the task that others edit too.
OneJob ==
  \E work \in {{pay, pay2}, {done}} :
    /\ \A a \in Actions \ work : item[a].status = "new"
    /\ task.version > 1 => done \in work
=============================================================================
