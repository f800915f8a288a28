---------------------------- MODULE LedgerTables ----------------------------
(***************************************************************************)
(* The ledger tables statement by statement, under the triggers of         *)
(* migration 14 (src/prisma/migrations/14_ledger_invariants).  Any writer  *)
(* may send any statement: a statement a trigger or a constraint refuses   *)
(* does nothing.  Ledger takes what is shown here for granted.             *)
(*                                                                         *)
(* A rollback takes the tables back to a state they were in, so it is not  *)
(* an action.  The columns the update guard pins are one value, facts.     *)
(***************************************************************************)
EXTENDS Integers, FiniteSets, FiniteSetsExt

CONSTANTS
  TxnIds, LegIds,
  Facts,              \* what the pinned columns of a transaction may hold
  Amounts             \* amounts writers send, zero and less among them

ASSUME TablesAssumption == Amounts \subseteq Int

VARIABLES
  txnRow,             \* LedgerTransaction: no row, or status and facts
  legRow,             \* LedgerEntry: no row, or transaction, side and amount
  maintenance,        \* LedgerMaintenance.allow
  handled             \* written to under maintenance since they were posted

tablesVars == <<txnRow, legRow, maintenance, handled>>

TxnStatus == {"pending", "posted", "reversed"}
NoTxnRow  == [status |-> "absent"]
NoLegRow  == [side |-> "absent"]
TxnRow    == [status : TxnStatus, facts : Facts]
LegRow    == [side : {"debit", "credit"}, of : TxnIds, amount : Amounts]

TablesTypeOK ==
  /\ txnRow \in [TxnIds -> TxnRow \cup {NoTxnRow}]
  /\ legRow \in [LegIds -> LegRow \cup {NoLegRow}]
  /\ maintenance \in BOOLEAN
  /\ handled \in SUBSET TxnIds

TablesInit ==
  /\ txnRow = [t \in TxnIds |-> NoTxnRow]
  /\ legRow = [l \in LegIds |-> NoLegRow]
  /\ maintenance = FALSE
  /\ handled = {}

-----------------------------------------------------------------------------
Stored(t) == txnRow[t] # NoTxnRow

IsLegOf(l, t) == legRow[l] # NoLegRow /\ legRow[l].of = t

\* The legs of a transaction, each with its id.
LegsOf(t) == {<<l, legRow[l]>> : l \in {k \in LegIds : IsLegOf(k, t)}}

\* What a leg adds to debits - credits.
Signed(leg) == IF leg[2].side = "debit" THEN leg[2].amount ELSE -leg[2].amount

\* Sums to zero, and there are legs.
Balanced(legs) == legs # {} /\ MapThenSumSet(Signed, legs) = 0

\* A statement that writes to transaction t under maintenance leaves a mark.
Handle(t) == handled' = IF maintenance THEN handled \cup {t} ELSE handled

\* LedgerTransaction_insert_gate: born pending.
InsertTxn(t, row) ==
  /\ ~Stored(t)
  /\ maintenance \/ row.status = "pending"
  /\ txnRow' = [txnRow EXCEPT ![t] = row]
  /\ Handle(t)
  /\ UNCHANGED <<legRow, maintenance>>

\* fault: a leg may be added to whatever there is.
TakesLegsAlways(t) == Stored(t)

\* LedgerEntry_insert_gate; the foreign key asks for the row.
TakesLegs(t) == Stored(t) /\ (maintenance \/ txnRow[t].status = "pending")

\* The CHECK constraints hold under maintenance too.
InsertLeg(l, leg) ==
  /\ legRow[l] = NoLegRow
  /\ leg.amount > 0
  /\ TakesLegs(leg.of)
  /\ legRow' = [legRow EXCEPT ![l] = leg]
  /\ Handle(leg.of)
  /\ UNCHANGED <<txnRow, maintenance>>

\* LedgerEntry_update_guard, LedgerEntry_delete_guard: maintenance only.
UpdateLeg(l, leg) ==
  /\ maintenance
  /\ legRow[l] # NoLegRow /\ leg.amount > 0 /\ Stored(leg.of)
  /\ legRow' = [legRow EXCEPT ![l] = leg]
  /\ handled' = handled \cup {legRow[l].of, leg.of}
  /\ UNCHANGED <<txnRow, maintenance>>

DeleteLeg(l) ==
  /\ maintenance
  /\ legRow[l] # NoLegRow
  /\ legRow' = [legRow EXCEPT ![l] = NoLegRow]
  /\ handled' = handled \cup {legRow[l].of}
  /\ UNCHANGED <<txnRow, maintenance>>

\* LedgerTransaction_delete_guard; the legs go with the row.
DeleteTxn(t) ==
  /\ maintenance
  /\ Stored(t)
  /\ txnRow' = [txnRow EXCEPT ![t] = NoTxnRow]
  /\ legRow' = [l \in LegIds |-> IF IsLegOf(l, t) THEN NoLegRow ELSE legRow[l]]
  /\ handled' = handled \cup {t}
  /\ UNCHANGED maintenance

\* The status changes LedgerTransaction_update_guard lets through.
MayBecome(from, to) == <<from, to>> \in {<<"pending", "posted">>, <<"posted", "reversed">>}

ThroughGate(t, to) == txnRow[t].status = "pending" /\ to = "posted"

\* fault: the gate is down under maintenance.
PassesGateUnlessOff(t, to) ==
  ThroughGate(t, to) => maintenance \/ Balanced(LegsOf(t))

\* LedgerTransaction_posting_gate: maintenance does not lift it.
PassesGate(t, to) == ThroughGate(t, to) => Balanced(LegsOf(t))

UpdateTxn(t, row) ==
  /\ Stored(t)
  /\ \/ maintenance
     \/ row.facts = txnRow[t].facts /\ MayBecome(txnRow[t].status, row.status)
  /\ PassesGate(t, row.status)
  /\ txnRow' = [txnRow EXCEPT ![t] = row]
  /\ IF ThroughGate(t, row.status) THEN handled' = handled \ {t} ELSE Handle(t)
  /\ UNCHANGED <<legRow, maintenance>>

SwitchMaintenance ==
  /\ maintenance' = ~maintenance
  /\ UNCHANGED <<txnRow, legRow, handled>>

TablesNext ==
  \/ \E t \in TxnIds : DeleteTxn(t) \/ \E row \in TxnRow : InsertTxn(t, row) \/ UpdateTxn(t, row)
  \/ \E l \in LegIds : DeleteLeg(l) \/ \E leg \in LegRow : InsertLeg(l, leg) \/ UpdateLeg(l, leg)
  \/ SwitchMaintenance

TablesSpec == TablesInit /\ [][TablesNext]_tablesVars

-----------------------------------------------------------------------------
OnRecord(t) == Stored(t) /\ txnRow[t].status \in {"posted", "reversed"}

\* Whatever statements are sent and whenever maintenance goes on and off: a
\* transaction on record balances, unless it was written to under
\* maintenance after it passed the gate, or was born past it.
RecordsBalance == \A t \in TxnIds \ handled : OnRecord(t) => Balanced(LegsOf(t))

\* What an unmaintained step does to a transaction on record.
Fixed(t) ==
  OnRecord(t) /\ ~maintenance =>
    /\ OnRecord(t)'
    /\ LegsOf(t)' = LegsOf(t)
    /\ txnRow'[t].facts = txnRow[t].facts
    /\ txnRow[t].status = "reversed" => UNCHANGED txnRow[t]

\* History is immutable: outside maintenance a transaction on record keeps
\* its legs and its facts, and is at most marked reversed, once.
HistoryIsFixed == [][\A t \in TxnIds : Fixed(t)]_tablesVars
=============================================================================
