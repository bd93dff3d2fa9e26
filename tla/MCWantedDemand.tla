--------------------------- MODULE MCWantedDemand ---------------------------
(***************************************************************************)
(* Instances of WantedDemand for TLC, all from empty tables.               *)
(***************************************************************************)
EXTENDS WantedDemand, TLC

CONSTANTS shoe, boot, w1, w2, w3, r1, r2, r3, r4, r5, r6

Demand(n, w) == [kind |-> "demand", name |-> n, row |-> w]
SaveAs(n, w) == [kind |-> "save", name |-> n, row |-> w]
Delete(w) == [kind |-> "delete", row |-> w]

MCRow == {w1, w2, w3}
MCName == {shoe, boot}

\* Customers ask for products that are renamed, saved and deleted meanwhile.
DemandTask == (r1 :> Demand(shoe, w1)) @@ (r2 :> Demand(shoe, w2))
           @@ (r3 :> Demand(boot, w3)) @@ (r4 :> Delete(w1))
           @@ (r5 :> SaveAs(boot, w1)) @@ (r6 :> SaveAs(NoName, w2))

\* A product is edited while a second customer asks for it.
StaleTask == (r1 :> Demand(shoe, w1)) @@ (r2 :> Demand(shoe, w2))
          @@ (r3 :> SaveAs(NoName, w1))
=============================================================================
