-------------------------- MODULE AppendOnlyLedger --------------------------
(***************************************************************************)
(* What the MjengoOS double-entry ledger promises to everything built on   *)
(* it, whatever the handlers above it do and however they interleave:      *)
(*                                                                         *)
(*   - history only grows: a recorded transaction is never edited;         *)
(*   - every transaction balances;                                         *)
(*   - an idempotency key records at most one transaction;                 *)
(*   - a correction is a new, mirrored transaction, and a transaction is   *)
(*     corrected at most once.                                             *)
(*                                                                         *)
(* The detailed specification that implements it is Escrow.                *)
(***************************************************************************)
EXTENDS Naturals, Sequences

CONSTANT NoKey        \* the transaction carries no idempotency key

VARIABLES
  book,               \* the recorded transactions, oldest first
  corrected           \* the positions of book that a later entry reverses

vars == <<book, corrected>>

Init == book = <<>> /\ corrected = {}

\* The debit leg and the credit leg move the same, positive, amount.
Balances(e) == e.debit > 0 /\ e.debit = e.credit

\* No recorded transaction carries the key of e.
KeyIsFresh(e) ==
  e.key = NoKey \/ \A i \in DOMAIN book : book[i].key # e.key

\* e undoes transaction i leg by leg.
Mirrors(e, i) ==
  /\ e.dr = book[i].cr /\ e.cr = book[i].dr
  /\ e.debit = book[i].credit /\ e.credit = book[i].debit

\* book grows by one entry at its end and keeps the others as they were.
GrowsByOne ==
  /\ Len(book') = Len(book) + 1
  /\ \A i \in DOMAIN book : book'[i] = book[i]

Record ==
  LET e == book'[Len(book) + 1] IN
  /\ GrowsByOne
  /\ Balances(e)
  /\ KeyIsFresh(e)
  /\ e.reverses = 0
  /\ UNCHANGED corrected

Correct ==
  LET e == book'[Len(book) + 1] IN
  /\ GrowsByOne
  /\ Balances(e)
  /\ KeyIsFresh(e)
  /\ e.reverses \in DOMAIN book \ corrected
  /\ Mirrors(e, e.reverses)
  /\ corrected' = corrected \cup {e.reverses}

Next == Record \/ Correct

Spec == Init /\ [][Next]_vars
=============================================================================
