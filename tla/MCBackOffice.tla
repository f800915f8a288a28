---------------------------- MODULE MCBackOffice ----------------------------
(***************************************************************************)
(* The components that share no state with one another, checked in one     *)
(* run: a behaviour is a behaviour of one of them, the others stand still. *)
(***************************************************************************)
EXTENDS MCProcurement, SiteStore, Variations, RateLimiter, Lockout,
        LedgerTables, ThreeWay

VARIABLE focus

officeVars == <<vars, storeVars, variationVars, rateVars, lockoutVars,
                tablesVars, threeWayVars, focus>>

\* Savings that leave next to nothing of the budget, or less.
MCImpacts == {-60, -49, 20}

BackOfficeTypeOK ==
  /\ TypeOK /\ StoreTypeOK /\ VariationTypeOK /\ RateTypeOK
  /\ LockoutTypeOK /\ TablesTypeOK /\ ThreeWayTypeOK

\* Where a component stands that is not in focus: anywhere, so one place.
Still == ordered = <<>> /\ fee = 0 /\ billed = <<>> /\ arrived = <<>>

MCInit ==
  /\ Init /\ StoreInit /\ VariationInit /\ RateInit /\ LockoutInit /\ TablesInit
  /\ \/ focus = "match" /\ ThreeWayInit
     \/ /\ focus \in {"procurement", "store", "variations", "rate", "lockout", "tables"}
        /\ Still

\* A component that is not in focus stands still.
Stays(component, itsVars) == IF focus = component THEN TRUE ELSE UNCHANGED itsVars

MCNext ==
  /\ UNCHANGED focus
  /\ \/ focus = "procurement" /\ Next
     \/ focus = "store"       /\ StoreNext
     \/ focus = "variations"  /\ VariationNext
     \/ focus = "rate"        /\ RateNext
     \/ focus = "lockout"     /\ LockoutNext
     \/ focus = "tables"      /\ TablesNext
     \/ focus = "match"       /\ ThreeWayNext
  /\ Stays("procurement", vars)
  /\ Stays("store", storeVars)
  /\ Stays("variations", variationVars)
  /\ Stays("rate", rateVars)
  /\ Stays("lockout", lockoutVars)
  /\ Stays("tables", tablesVars)
  /\ Stays("match", threeWayVars)

MCSpec == MCInit /\ [][MCNext]_officeVars
=============================================================================
