--------------------------- MODULE BoxConsumption ---------------------------
(***************************************************************************)
(* The downstream consumption ledger of completed packing boxes            *)
(* (PackingBoxConsumption, and the four functions of                       *)
(* backend/apps/packing/services.py that write it).                        *)
(*                                                                         *)
(* Consolidations and shipments claim a box by adding a row; a row is      *)
(* never deleted.  The four operators below are the calls those two        *)
(* services make inside their own transaction, for all the boxes of that   *)
(* transaction at once: the first refusal rolls back every box.            *)
(*                                                                         *)
(* active_guard is written together with the state at every place (TRUE    *)
(* with RESERVED and COMMITTED, NULL with RELEASED), so it is the state    *)
(* being different from RELEASED.                                          *)
(***************************************************************************)
EXTENDS Naturals, Sequences, FiniteSets

CONSTANTS
    Box,            \* boxes of completed loose-cargo packing batches
    Consolidation,  \* loose-cargo consolidations
    Shipment,       \* loose-cargo shipments
    MaxRows         \* bound on the ledger rows of a box when one is reserved

ASSUME ConsumptionAssumption ==
    /\ Consolidation \cap Shipment = {}
    /\ MaxRows \in Nat

VARIABLES
    ledger,         \* ledger[b]: the consumption rows of box b, oldest first
    shipped         \* shipped[b]: times b's items were added to shipped_quantity

consumptionVars == <<ledger, shipped>>

ConsumptionRow ==
    [consumer : Consolidation \cup Shipment, state : {"RESERVED", "COMMITTED", "RELEASED"}]

ConsumptionTypeOK ==
    /\ ledger \in [Box -> Seq(ConsumptionRow)]
    /\ shipped \in [Box -> Nat]

ConsumptionInit ==
    /\ ledger = [b \in Box |-> << >>]
    /\ shipped = [b \in Box |-> 0]

\* The numbers of the rows that hold box b: at most one, if all is well.
Active(b) == {i \in DOMAIN ledger[b] : ledger[b][i].state # "RELEASED"}

-----------------------------------------------------------------------------
(* In what follows row[b] is the number of the ledger row that the caller's *)
(* allocation of box b points to.                                           *)

\* Wrong: only a committed consumer keeps others out.
BoxIsFree_Reserved(b) == \A i \in Active(b) : ledger[b][i].state # "COMMITTED"

BoxIsFree(b) == Active(b) = {}

\* reserve_box_consumption
Reserve(B, consumer) ==
    /\ \A b \in B : BoxIsFree(b) /\ Len(ledger[b]) < MaxRows
    /\ ledger' = [b \in Box |->
          IF b \in B THEN Append(ledger[b], [consumer |-> consumer, state |-> "RESERVED"])
          ELSE ledger[b]]
    /\ UNCHANGED shipped

\* Wrong: a consolidation's receipt counts as shipped.
Ships_Always(b, i) == TRUE

\* Only a shipment's commit advances the shipped quantities.
Ships(b, i) == ledger[b][i].consumer \in Shipment

\* commit_box_consumption
Commit(B, row) ==
    /\ \A b \in B : ledger[b][row[b]].state = "RESERVED"
    /\ ledger' = [b \in Box |->
          IF b \in B THEN [ledger[b] EXCEPT ![row[b]].state = "COMMITTED"] ELSE ledger[b]]
    /\ shipped' = [b \in Box |->
          IF b \in B /\ Ships(b, row[b]) THEN shipped[b] + 1 ELSE shipped[b]]

\* release_box_consumption
Release(B, row) ==
    /\ \A b \in B : ledger[b][row[b]].state = "RESERVED"
    /\ ledger' = [b \in Box |->
          IF b \in B THEN [ledger[b] EXCEPT ![row[b]].state = "RELEASED"] ELSE ledger[b]]
    /\ UNCHANGED shipped

\* Wrong: the source row is left as it was.
Transferred_KeepsSource(b, i, shipment) ==
    Append(ledger[b], [consumer |-> shipment, state |-> "RESERVED"])

\* The ledger of box b once row i is handed to a shipment: the source row ends
\* first, then the shipment's row begins.
Transferred(b, i, shipment) ==
    Append([ledger[b] EXCEPT ![i].state = "RELEASED"],
           [consumer |-> shipment, state |-> "RESERVED"])

\* transfer_box_consumption
Transfer(B, row, shipment) ==
    /\ \A b \in B : /\ ledger[b][row[b]].consumer \in Consolidation
                    /\ ledger[b][row[b]].state \in {"RESERVED", "COMMITTED"}
    /\ ledger' = [b \in Box |->
          IF b \in B THEN Transferred(b, row[b], shipment) ELSE ledger[b]]
    /\ UNCHANGED shipped

=============================================================================
