----------------------------- MODULE BoxCustody -----------------------------
(***************************************************************************)
(* What the packing, consolidation and shipping services promise together  *)
(* about one packed box: it is in one place, held by one party, and moves  *)
(* along                                                                   *)
(*                                                                         *)
(*    supplier <-> expected -> at site -> loaded -> shipped                *)
(*             -> at port -> at warehouse -> cleared                       *)
(*                                                                         *)
(* going back only while nobody has received it.  A shipment's boxes leave *)
(* in parts, but from the port on they move together, and a shipment that  *)
(* has left takes no more.  How allocations, statuses and ledger rows      *)
(* bring this about is not said here.                                      *)
(***************************************************************************)
CONSTANTS Box, Consolidation, Shipment, None

VARIABLES place, holder

custodyVars == <<place, holder>>

Place == {"SUPPLIER", "EXPECTED", "AT_SITE", "LOADED", "SHIPPED",
          "AT_PORT", "AT_WAREHOUSE", "CLEARED"}

HeldBy(k) == {b \in Box : holder[b] = k}

Init ==
    /\ place = [b \in Box |-> "SUPPLIER"]
    /\ holder = [b \in Box |-> None]

\* The boxes B pass from one place to the next, and to the party k.
Move(B, from, to, k) ==
    /\ \A b \in B : place[b] = from
    /\ place' = [b \in Box |-> IF b \in B THEN to ELSE place[b]]
    /\ holder' = [b \in Box |-> IF b \in B THEN k ELSE holder[b]]

Claim(B, c) == Move(B, "SUPPLIER", "EXPECTED", c)

GiveBack(B, c) == B \subseteq HeldBy(c) /\ Move(B, "EXPECTED", "SUPPLIER", None)

Receive(b, c) == b \in HeldBy(c) /\ Move({b}, "EXPECTED", "AT_SITE", c)

Load(B, c, s) ==
    /\ B \subseteq HeldBy(c)
    /\ \A b \in HeldBy(s) : place[b] = "LOADED"
    /\ Move(B, "AT_SITE", "LOADED", s)

Ship(B, s) ==
    /\ B \subseteq HeldBy(s)
    /\ \A b \in HeldBy(s) : place[b] \in {"LOADED", "SHIPPED"}
    /\ Move(B, "LOADED", "SHIPPED", s)

Arrive(s) ==
    \/ Move(HeldBy(s), "SHIPPED", "AT_PORT", s)
    \/ Move(HeldBy(s), "AT_PORT", "AT_WAREHOUSE", s)
    \/ Move(HeldBy(s), "AT_WAREHOUSE", "CLEARED", s)

Next ==
    \/ \E c \in Consolidation, B \in SUBSET Box : Claim(B, c) \/ GiveBack(B, c)
    \/ \E c \in Consolidation, b \in Box : Receive(b, c)
    \/ \E c \in Consolidation, s \in Shipment, B \in SUBSET Box : Load(B, c, s)
    \/ \E s \in Shipment, B \in SUBSET Box : Ship(B, s)
    \/ \E s \in Shipment : Arrive(s)

Spec == Init /\ [][Next]_custodyVars

=============================================================================
