--------------------------- MODULE MCProcurement ---------------------------
(* Small instances of Procurement for TLC. *)
EXTENDS Procurement, TLC

CONSTANTS p1, p2, p3, r1, o1, o2, d1, d2, d3

\* The contractor signs small requests, the client larger ones too; nothing
\* has been configured for a request without lines.
MCBands == [q \in 0..MaxLines |->
  CASE q = 0 -> <<>> [] q = 1 -> <<"contractor">>
    [] OTHER -> <<"contractor", "client">>]

\* The claims run against each other, two legs against each other, and two
\* approvals, two edits or two submissions against themselves.
MCClaims == {Claims, {"approve"}, {"transit", "arrive"}, {"edit"}, {"submit"}}

\* Everything runs against everything.
MCAll == {Ops}

Symmetry == Permutations(Procs) \cup Permutations(Orders) \cup Permutations(Deliveries)
=============================================================================
