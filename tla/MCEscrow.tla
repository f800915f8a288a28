------------------------------ MODULE MCEscrow ------------------------------
(* Small instances of Escrow for TLC. *)
EXTENDS SerialEscrow, TLC

CONSTANTS m1, p1, p2, r1, t1,
          MaxSerialTxns       \* bound: transactions of a serial behaviour

\* A milestone and a request that compete for one top-up of 2.
MCPrice == [x \in Milestones \cup Requests |-> IF x \in Milestones THEN 2 ELSE 1]

NoJournal ==
  \A i \in DOMAIN ledger' : ledger'[i].key = NoKey => ledger'[i].reverses # 0

\* Requests are served one at a time, and finance writes journals; or they
\* interleave, and finance writes none.
MCNext ==
  /\ SerialNext
  /\ serial => Len(ledger') <= MaxSerialTxns
  /\ ~serial => NoJournal

MCSpec == SerialInit /\ [][MCNext]_<<vars, serial>>

Symmetry == Permutations(Procs)
=============================================================================
