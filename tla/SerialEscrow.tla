---------------------------- MODULE SerialEscrow ----------------------------
(***************************************************************************)
(* Escrow when its requests are served one at a time, beside Escrow when   *)
(* they overlap: what its helpers promise of themselves, "keeps the stored *)
(* balance consistent" (src/backend/modules/wallet/service.ts:13), they    *)
(* promise of the first only.                                              *)
(***************************************************************************)
EXTENDS Escrow

\* Whether the requests of a behaviour are served one at a time.
VARIABLE serial

\* No request is suspended while another goes on.
OneAtATime ==
  \A p, q \in Procs : call[p].op # "idle" /\ call[q].op # "idle" => p = q

SerialInit == Init /\ serial \in BOOLEAN

SerialNext == Next /\ UNCHANGED serial /\ (serial => OneAtATime')

SerialSpec == SerialInit /\ [][SerialNext]_<<vars, serial>>

-----------------------------------------------------------------------------
\* Of requests served one at a time, cache and ledger agree: every helper
\* keeps the stored balance consistent (wallet/service.ts:13).
SerialProjectionInSync == serial => ProjectionInSync

\* Of requests served one at a time, released and paid are terminal.
SerialDecisionsAreFinal == [][serial => DecisionStays]_<<vars, serial>>
=============================================================================
