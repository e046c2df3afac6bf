------------------------ MODULE LooseCargoStageProofs ------------------------
(***************************************************************************)
(* What the statuses of consolidations and shipments say of their boxes,   *)
(* for every set of boxes, consolidations, shipments, sites and regions.   *)
(***************************************************************************)
EXTENDS LooseCargoProofs

StateIn(c, b) == conAlloc[c][b].state

\* Of consolidation c: boxes in other states are not there any more.
HoldsOnly(c, states) == \A b \in Box : StateIn(c, b) \in states \cup {"NONE", "RELEASED"}
HoldsSome(c, st) == \E b \in Box : StateIn(c, b) = st

StageInv(c) ==
    /\ conStatus[c] \in {"NONE", "CANCELLED"} => HoldsOnly(c, {})
    /\ conStatus[c] = "DRAFT" => HoldsOnly(c, {"ALLOCATED"})
    /\ conStatus[c] = "RELEASED" => HoldsOnly(c, {"ALLOCATED"}) /\ HoldsSome(c, "ALLOCATED")
    /\ conStatus[c] = "RECEIVING" => HoldsOnly(c, Waiting \cup {"RECEIVED"})
    /\ conStatus[c] = "READY" => HoldsOnly(c, {"RECEIVED", "TRANSFERRED"}) /\ HoldsSome(c, "RECEIVED")
    /\ conStatus[c] = "TRANSFERRED" => HoldsOnly(c, {"TRANSFERRED"}) /\ HoldsSome(c, "TRANSFERRED")

-----------------------------------------------------------------------------
(* What a step does to a consolidation. *)

KeepsRoute(c) == conSite'[c] = conSite[c] /\ conRegion'[c] = conRegion[c]

KeepsStates(c) == \A b \in Box : conAlloc'[c][b].state = conAlloc[c][b].state

KeepsConsolidation(c) == conStatus'[c] = conStatus[c] /\ KeepsRoute(c) /\ KeepsStates(c)

\* It is created, or its site and region are changed.
Planned(c) ==
    /\ conStatus[c] \in {"NONE", "DRAFT"} /\ conStatus'[c] = "DRAFT"
    /\ KeepsStates(c)

\* Boxes are added to the draft or removed from it.
Gathered(c) ==
    /\ conStatus[c] = "DRAFT" /\ conStatus'[c] = "DRAFT"
    /\ KeepsRoute(c)
    /\ \A b \in Box : \/ conAlloc'[c][b].state = conAlloc[c][b].state
                      \/ /\ conAlloc[c][b].state \in {"NONE", "RELEASED", "ALLOCATED"}
                         /\ conAlloc'[c][b].state \in {"ALLOCATED", "RELEASED"}

Sealed(c) ==
    /\ conStatus[c] = "DRAFT" /\ conStatus'[c] = "RELEASED"
    /\ KeepsRoute(c) /\ KeepsStates(c)
    /\ HoldsSome(c, "ALLOCATED")

\* A fact about a box is recorded.
Recorded(c) ==
    /\ Collecting(c) /\ conStatus'[c] = "RECEIVING"
    /\ KeepsRoute(c)
    /\ \A b \in Box : \/ conAlloc'[c][b].state = conAlloc[c][b].state
                      \/ /\ conAlloc[c][b].state \in Waiting
                         /\ conAlloc'[c][b].state \in Waiting \cup {"RECEIVED"}

\* A box is released after an exception.
Excused(c) ==
    /\ conStatus'[c] = conStatus[c]
    /\ KeepsRoute(c)
    /\ \E a \in Box : conAlloc[c][a].state = "EXCEPTION"
    /\ \A b \in Box : \/ conAlloc'[c][b].state = conAlloc[c][b].state
                      \/ conAlloc[c][b].state = "EXCEPTION" /\ conAlloc'[c][b].state = "RELEASED"

Finished(c) ==
    /\ Collecting(c) /\ conStatus'[c] = "READY"
    /\ KeepsRoute(c) /\ KeepsStates(c)
    /\ HoldsOnly(c, {"RECEIVED"}) /\ HoldsSome(c, "RECEIVED")

CalledOff(c) ==
    /\ conStatus[c] \in {"DRAFT", "RELEASED"} /\ conStatus'[c] = "CANCELLED"
    /\ KeepsRoute(c)
    /\ \A b \in Box : /\ conAlloc[c][b].state \in {"NONE", "ALLOCATED"}
                      /\ conAlloc'[c][b].state \in {"NONE", "RELEASED"}

\* A shipment takes the boxes B.
Taken(c, B) ==
    /\ conStatus[c] = "READY"
    /\ KeepsRoute(c)
    /\ B # {} /\ B \subseteq Box
    /\ \A b \in B : conAlloc[c][b].state = "RECEIVED" /\ conAlloc'[c][b].state = "TRANSFERRED"
    /\ \A b \in Box \ B : conAlloc'[c][b].state = conAlloc[c][b].state
    /\ \/ conStatus'[c] = "READY" /\ \E b \in Box \ B : conAlloc[c][b].state \notin {"NONE", "RELEASED", "TRANSFERRED"}
       \/ /\ conStatus'[c] = "TRANSFERRED"
          /\ \A b \in Box \ B : conAlloc[c][b].state \in {"NONE", "RELEASED", "TRANSFERRED"}

Moved(c) ==
    \/ Planned(c) \/ Gathered(c) \/ Sealed(c) \/ Recorded(c)
    \/ Excused(c) \/ Finished(c) \/ CalledOff(c)

LEMMA StateSet ==
    ASSUME NEW r \in ConAllocation, NEW st PROVE [r EXCEPT !.state = st].state = st
BY DEF ConAllocation

\* Marking boxes sets the states of those boxes of that consolidation only.
LEMMA MarkedStates ==
    ASSUME ConsolidationTypeOK, NEW c \in Consolidation, NEW B, NEW st,
           conAlloc' = Marked(c, B, st)
    PROVE  /\ \A k \in Consolidation : k # c => KeepsStates(k)
           /\ \A b \in Box : /\ b \in B => conAlloc'[c][b].state = st
                             /\ b \notin B => conAlloc'[c][b].state = conAlloc[c][b].state
<1>1. ASSUME NEW b \in Box
      PROVE  /\ \A k \in Consolidation \ {c} : conAlloc'[k][b] = conAlloc[k][b]
             /\ b \in B => conAlloc'[c][b].state = st
             /\ b \notin B => conAlloc'[c][b].state = conAlloc[c][b].state
  <2>1. conAlloc[c][b] \in ConAllocation
    BY DEF ConsolidationTypeOK
  <2>2. [conAlloc[c][b] EXCEPT !.state = st].state = st
    BY <2>1, StateSet
  <2>3. /\ \A k \in Consolidation \ {c} : conAlloc'[k][b] = conAlloc[k][b]
        /\ b \in B => conAlloc'[c][b] = [conAlloc[c][b] EXCEPT !.state = st]
        /\ b \notin B => conAlloc'[c][b] = conAlloc[c][b]
    BY MarkedAt
  <2> QED
    BY <2>2, <2>3
<1> QED
  BY <1>1 DEF KeepsStates

OthersStay(c) == \A k \in Consolidation : k # c => KeepsConsolidation(k)

LEMMA MarkedIn ==
    ASSUME ConsolidationTypeOK, NEW c \in Consolidation, NEW B, NEW st,
           conAlloc' = Marked(c, B, st), NEW b \in Box, b \in B
    PROVE  conAlloc'[c][b].state = st
BY MarkedStates

LEMMA MarkedOut ==
    ASSUME ConsolidationTypeOK, NEW c \in Consolidation, NEW B, NEW st,
           conAlloc' = Marked(c, B, st), NEW b \in Box, b \notin B
    PROVE  conAlloc'[c][b].state = conAlloc[c][b].state
BY MarkedStates

\* The same for one box a.
LEMMA MarkedOne ==
    ASSUME ConsolidationTypeOK, NEW c \in Consolidation, NEW a \in Box, NEW st,
           conAlloc' = Marked(c, {a}, st)
    PROVE  /\ conAlloc'[c][a].state = st
           /\ \A b \in Box : b # a => conAlloc'[c][b].state = conAlloc[c][b].state
<1>1. PICK B : B = {a}
  OBVIOUS
<1>2. conAlloc' = Marked(c, B, st)
  BY <1>1
<1>3. conAlloc'[c][a].state = st
  BY <1>1, <1>2, MarkedIn
<1>4. ASSUME NEW b \in Box, b # a PROVE conAlloc'[c][b].state = conAlloc[c][b].state
  <2>1. b \notin B
    BY <1>1, <1>4
  <2> QED
    BY <1>2, <2>1, MarkedOut
<1> QED
  BY <1>3, <1>4

LEMMA ConsolidationMoves ==
    ASSUME ConsolidationTypeOK, NEW c \in Consolidation, ConsolidationStep(c)
    PROVE  Moved(c) /\ OthersStay(c)
<1> DEFINE Result == Moved(c) /\ OthersStay(c)
<1>0. /\ conStatus \in [Consolidation -> ConStatus]
      /\ conSite \in [Consolidation -> Site \cup {None}]
      /\ conRegion \in [Consolidation -> Region \cup {None}]
      /\ conAlloc \in [Consolidation -> [Box -> ConAllocation]]
  BY DEF ConsolidationTypeOK
<1>1. ASSUME NEW s \in Site, NEW r \in Region,
             CreateConsolidation(c, s, r) \/ UpdateConsolidation(c, s, r)
      PROVE  Result
  <2>1. Planned(c)
    BY <1>0, <1>1 DEF CreateConsolidation, UpdateConsolidation, Planned, KeepsStates
  <2>2. OthersStay(c)
    BY <1>0, <1>1 DEF CreateConsolidation, UpdateConsolidation, OthersStay, KeepsConsolidation,
                      KeepsRoute, KeepsStates
  <2> QED
    BY <2>1, <2>2 DEF Moved
<1>2. ASSUME NEW B \in SUBSET Box, AllocateBoxes(c, B) PROVE Result
  <2>1. \A k \in Consolidation : k # c => conAlloc'[k] = conAlloc[k]
    BY <1>0, <1>2 DEF AllocateBoxes
  <2>2. \A b \in Box : /\ b \in B => conAlloc'[c][b].state = "ALLOCATED"
                       /\ b \notin B => conAlloc'[c][b] = conAlloc[c][b]
    BY <1>0, <1>2 DEF AllocateBoxes
  <2>3. Gathered(c)
    BY <1>2, <2>2 DEF AllocateBoxes, TakesBoxes, Gathered, KeepsRoute, planVars
  <2>4. OthersStay(c)
    BY <1>2, <2>1 DEF AllocateBoxes, OthersStay, KeepsConsolidation, KeepsRoute, KeepsStates, planVars
  <2> QED
    BY <2>3, <2>4 DEF Moved
<1>3. ASSUME NEW a \in Box, RemoveBox(c, a) PROVE Result
  <2>1. conAlloc' = Marked(c, {a}, "RELEASED")
    BY <1>3 DEF RemoveBox
  <2>2. Gathered(c)
    <3>1. /\ conAlloc'[c][a].state = "RELEASED"
          /\ \A b \in Box : b # a => conAlloc'[c][b].state = conAlloc[c][b].state
      BY <2>1, MarkedOne
    <3> QED
      BY <1>3, <3>1 DEF RemoveBox, Gathered, KeepsRoute, planVars
  <2>3. OthersStay(c)
    BY <1>3, <2>1, MarkedStates DEF RemoveBox, OthersStay, KeepsConsolidation, KeepsRoute, planVars
  <2> QED
    BY <2>2, <2>3 DEF Moved
<1>4. ASSUME ReleaseConsolidation(c) PROVE Result
  <2>1. Sealed(c)
    BY <1>0, <1>4 DEF ReleaseConsolidation, Sealed, KeepsRoute, KeepsStates, HoldsSome, StateIn,
                      ActiveBoxes, planVars
  <2>2. OthersStay(c)
    BY <1>0, <1>4 DEF ReleaseConsolidation, OthersStay, KeepsConsolidation, KeepsRoute, KeepsStates, planVars
  <2> QED
    BY <2>1, <2>2 DEF Moved
<1>5. ASSUME NEW a \in Box, NEW st \in Waiting \cup {"RECEIVED"}, StartReceiving(c),
             conAlloc[c][a].state \in Waiting, conAlloc' = Marked(c, {a}, st)
      PROVE  Result
  <2>1. Recorded(c)
    <3>1. /\ conAlloc'[c][a].state = st
          /\ \A b \in Box : b # a => conAlloc'[c][b].state = conAlloc[c][b].state
      BY <1>5, MarkedOne
    <3>2. Collecting(c) /\ conStatus'[c] = "RECEIVING" /\ KeepsRoute(c)
      BY <1>0, <1>5 DEF StartReceiving, KeepsRoute, planVars
    <3> QED
      BY <1>5, <3>1, <3>2 DEF Recorded
  <2>2. OthersStay(c)
    BY <1>0, <1>5, MarkedStates DEF StartReceiving, OthersStay, KeepsConsolidation, KeepsRoute, planVars
  <2> QED
    BY <2>1, <2>2 DEF Moved
<1>6. ASSUME NEW a \in Box, SubmitHandover(c, a) \/ ReceiveBox(c, a) \/ MarkException(c, a)
      PROVE  Result
  <2>1. StartReceiving(c) /\ conAlloc[c][a].state \in Waiting
    BY <1>6 DEF SubmitHandover, ReceiveBox, MarkException, Waiting
  <2>2. PICK st \in Waiting \cup {"RECEIVED"} : conAlloc' = Marked(c, {a}, st)
    BY <1>6 DEF SubmitHandover, ReceiveBox, MarkException, Waiting
  <2> QED
    BY <1>5, <2>1, <2>2
<1>7. ASSUME NEW a \in Box, ControlledRelease(c, a) PROVE Result
  <2>1. conAlloc' = Marked(c, {a}, "RELEASED")
    BY <1>7 DEF ControlledRelease
  <2>2. Excused(c)
    <3>1. /\ conAlloc'[c][a].state = "RELEASED"
          /\ \A b \in Box : b # a => conAlloc'[c][b].state = conAlloc[c][b].state
      BY <2>1, MarkedOne
    <3> QED
      BY <1>7, <3>1 DEF ControlledRelease, Excused, KeepsRoute, planVars
  <2>3. OthersStay(c)
    BY <1>7, <2>1, MarkedStates DEF ControlledRelease, OthersStay, KeepsConsolidation, KeepsRoute, planVars
  <2> QED
    BY <2>2, <2>3 DEF Moved
<1>8. ASSUME Ready(c) PROVE Result
  <2>1. Finished(c)
    BY <1>0, <1>8 DEF Ready, IsReady, Finished, KeepsRoute, KeepsStates, HoldsSome, HoldsOnly, StateIn,
                      ActiveBoxes, planVars
  <2>2. OthersStay(c)
    BY <1>0, <1>8 DEF Ready, OthersStay, KeepsConsolidation, KeepsRoute, KeepsStates, planVars
  <2> QED
    BY <2>1, <2>2 DEF Moved
<1>9. ASSUME CancelConsolidation(c) PROVE Result
  <2> DEFINE rows == {b \in Box : conAlloc[c][b].state # "NONE"}
  <2>1. conAlloc' = Marked(c, rows, "RELEASED")
    BY <1>9 DEF CancelConsolidation
  <2>2. \A b \in Box : conAlloc[c][b].state \in {"NONE", "ALLOCATED"}
    BY <1>9 DEF CancelConsolidation
  <2>3. \A b \in Box : conAlloc'[c][b].state \in {"NONE", "RELEASED"}
    BY <2>1, MarkedStates
  <2>4. CalledOff(c)
    BY <1>0, <1>9, <2>2, <2>3 DEF CancelConsolidation, CalledOff, KeepsRoute, planVars
  <2>5. OthersStay(c)
    BY <1>0, <1>9, <2>1, MarkedStates DEF CancelConsolidation, OthersStay, KeepsConsolidation, KeepsRoute, planVars
  <2> QED
    BY <2>4, <2>5 DEF Moved
<1> QED
  BY <1>1, <1>2, <1>3, <1>4, <1>6, <1>7, <1>8, <1>9 DEF ConsolidationStep

LEMMA TransferTakes ==
    ASSUME ConsolidationTypeOK, NEW c \in Consolidation, NEW B \in SUBSET Box, B # {}, NEW s,
           TransferBoxes(c, B, s)
    PROVE  Taken(c, B) /\ OthersStay(c)
<1>0. /\ conStatus \in [Consolidation -> ConStatus]
      /\ conAlloc' = Marked(c, B, "TRANSFERRED")
      /\ conSite' = conSite /\ conRegion' = conRegion
      /\ conStatus[c] = "READY"
      /\ \A b \in B : conAlloc[c][b].state = "RECEIVED"
  BY DEF ConsolidationTypeOK, TransferBoxes, planVars
<1> DEFINE left == ActiveBoxes(c) \ {b \in Box : conAlloc[c][b].state = "TRANSFERRED"}
<1>1. \A b \in Box : b \in left <=> conAlloc[c][b].state \notin {"NONE", "RELEASED", "TRANSFERRED"}
  BY DEF ActiveBoxes
<1>2. left \subseteq Box
  BY DEF ActiveBoxes
<1>3. conStatus' = [conStatus EXCEPT ![c] = IF left \subseteq B THEN "TRANSFERRED" ELSE @]
  BY DEF TransferBoxes
<1> HIDE DEF left
<1>4. conStatus'[c] = IF left \subseteq B THEN "TRANSFERRED" ELSE "READY"
  BY <1>0, <1>3
<1>5. Taken(c, B)
  <2>1. \A b \in B : conAlloc[c][b].state = "RECEIVED" /\ conAlloc'[c][b].state = "TRANSFERRED"
    BY <1>0, MarkedStates
  <2>2. \A b \in Box \ B : conAlloc'[c][b].state = conAlloc[c][b].state
    BY <1>0, MarkedStates
  <2>3. CASE left \subseteq B
    <3>1. \A b \in Box \ B : conAlloc[c][b].state \in {"NONE", "RELEASED", "TRANSFERRED"}
      BY <1>1, <2>3
    <3> QED
      BY <1>0, <1>4, <2>1, <2>2, <2>3, <3>1 DEF Taken, KeepsRoute
  <2>4. CASE ~(left \subseteq B)
    <3>1. \E b \in Box \ B : conAlloc[c][b].state \notin {"NONE", "RELEASED", "TRANSFERRED"}
      BY <1>1, <1>2, <2>4
    <3> QED
      BY <1>0, <1>4, <2>1, <2>2, <2>4, <3>1 DEF Taken, KeepsRoute
  <2> QED
    BY <2>3, <2>4
<1>6. OthersStay(c)
  BY <1>0, <1>3, MarkedStates DEF OthersStay, KeepsConsolidation, KeepsRoute
<1> QED
  BY <1>5, <1>6

-----------------------------------------------------------------------------
(* Consolidations and their boxes. *)

LEMMA StageKept ==
    ASSUME NEW c \in Consolidation, StageInv(c), conStatus'[c] = conStatus[c], KeepsStates(c)
    PROVE  StageInv(c)'
BY DEF StageInv, HoldsOnly, HoldsSome, StateIn, KeepsStates

\* No move takes a consolidation to a status that its boxes contradict.
LEMMA StageMoved ==
    ASSUME NEW c \in Consolidation, StageInv(c), Moved(c)
    PROVE  StageInv(c)'
<1> USE DEF HoldsOnly, HoldsSome, StateIn
<1>1. CASE Planned(c)
  BY <1>1 DEF StageInv, Planned, KeepsStates
<1>2. CASE Gathered(c)
  BY <1>2 DEF StageInv, Gathered
<1>3. CASE Sealed(c)
  BY <1>3 DEF StageInv, Sealed, KeepsStates
<1>4. CASE Recorded(c)
  <2>1. \A b \in Box : conAlloc[c][b].state \in Waiting \cup {"RECEIVED", "NONE", "RELEASED"}
    BY <1>4 DEF StageInv, Recorded, Collecting, Waiting
  <2>2. \A b \in Box : conAlloc'[c][b].state \in Waiting \cup {"RECEIVED", "NONE", "RELEASED"}
    BY <1>4, <2>1 DEF Recorded
  <2>3. conStatus'[c] = "RECEIVING"
    BY <1>4 DEF Recorded
  <2> QED
    BY <2>2, <2>3 DEF StageInv
<1>5. CASE Excused(c)
  <2>1. conStatus[c] \notin {"NONE", "CANCELLED", "DRAFT", "RELEASED", "READY", "TRANSFERRED"}
    BY <1>5 DEF StageInv, Excused
  <2>2. conStatus'[c] = conStatus[c]
    BY <1>5 DEF Excused
  <2>3. conStatus[c] = "RECEIVING" =>
            \A b \in Box : conAlloc'[c][b].state \in Waiting \cup {"RECEIVED", "NONE", "RELEASED"}
    BY <1>5 DEF StageInv, Excused
  <2> QED
    BY <2>1, <2>2, <2>3 DEF StageInv
<1>6. CASE Finished(c)
  BY <1>6 DEF StageInv, Finished, KeepsStates
<1>7. CASE CalledOff(c)
  BY <1>7 DEF StageInv, CalledOff
<1> QED
  BY <1>1, <1>2, <1>3, <1>4, <1>5, <1>6, <1>7 DEF Moved

LEMMA StageTaken ==
    ASSUME NEW c \in Consolidation, StageInv(c), NEW B, Taken(c, B)
    PROVE  StageInv(c)'
<1> USE DEF HoldsOnly, HoldsSome, StateIn
<1>1. /\ \A b \in Box : conAlloc[c][b].state \in {"RECEIVED", "TRANSFERRED", "NONE", "RELEASED"}
      /\ B \subseteq Box
      /\ \A b \in B : conAlloc[c][b].state = "RECEIVED" /\ conAlloc'[c][b].state = "TRANSFERRED"
      /\ \A b \in Box \ B : conAlloc'[c][b].state = conAlloc[c][b].state
  BY DEF StageInv, Taken
<1>2. PICK a \in B : TRUE
  BY DEF Taken
<1>3. \A b \in Box : conAlloc'[c][b].state \in {"RECEIVED", "TRANSFERRED", "NONE", "RELEASED"}
  BY <1>1
<1>4. CASE /\ conStatus'[c] = "READY"
           /\ \E b \in Box \ B : conAlloc[c][b].state \notin {"NONE", "RELEASED", "TRANSFERRED"}
  <2>1. PICK b \in Box \ B : conAlloc[c][b].state \notin {"NONE", "RELEASED", "TRANSFERRED"}
    BY <1>4
  <2>2. conAlloc'[c][b].state = "RECEIVED"
    BY <1>1, <2>1
  <2> QED
    BY <1>3, <1>4, <2>2 DEF StageInv
<1>5. CASE /\ conStatus'[c] = "TRANSFERRED"
           /\ \A b \in Box \ B : conAlloc[c][b].state \in {"NONE", "RELEASED", "TRANSFERRED"}
  <2>1. \A b \in Box : conAlloc'[c][b].state \in {"TRANSFERRED", "NONE", "RELEASED"}
    BY <1>1, <1>5
  <2>2. a \in Box /\ conAlloc'[c][a].state = "TRANSFERRED"
    BY <1>1, <1>2
  <2> QED
    BY <1>5, <2>1, <2>2 DEF StageInv
<1> QED
  BY <1>4, <1>5 DEF Taken

\* How every consolidation fares in a step.
LEMMA ConsolidationCases ==
    ASSUME TypeOK, [Next]_vars, NEW c \in Consolidation
    PROVE  \/ KeepsConsolidation(c)
           \/ Moved(c) /\ UNCHANGED shipmentVars
           \/ \E s \in Shipment, B \in SUBSET Box : LoadBoxes(s, c, B) /\ Taken(c, B)
<1>0. ConsolidationTypeOK
  BY DEF TypeOK
<1>1. UNCHANGED <<conStatus, conSite, conRegion, conAlloc>> => KeepsConsolidation(c)
  BY DEF KeepsConsolidation, KeepsRoute, KeepsStates
<1>2. CASE SiteStep /\ UNCHANGED shipmentVars
  BY <1>1, <1>2 DEF SiteStep, UpdateSite, DeactivateSite
<1>3. ASSUME NEW k \in Consolidation, ConsolidationStep(k), UNCHANGED shipmentVars
      PROVE  KeepsConsolidation(c) \/ (Moved(c) /\ UNCHANGED shipmentVars)
  BY <1>0, <1>3, ConsolidationMoves DEF OthersStay
<1>4. ASSUME NEW s \in Shipment, ShipmentStep(s)
      PROVE  \/ KeepsConsolidation(c)
             \/ \E t \in Shipment, B \in SUBSET Box : LoadBoxes(t, c, B) /\ Taken(c, B)
  <2>1. ASSUME NEW k \in Consolidation, NEW B \in SUBSET Box, LoadBoxes(s, k, B)
        PROVE  \/ KeepsConsolidation(c)
               \/ \E t \in Shipment, D \in SUBSET Box : LoadBoxes(t, c, D) /\ Taken(c, D)
    <3>1. Taken(k, B) /\ OthersStay(k)
      BY <1>0, <2>1, TransferTakes DEF LoadBoxes
    <3> QED
      BY <2>1, <3>1 DEF OthersStay
  <2>2. (\E k \in Consolidation, B \in SUBSET Box : LoadBoxes(s, k, B))
            \/ UNCHANGED consolidationVars
    BY <1>4 DEF ShipmentStep, CreateShipment, UpdateShipment, DeclareCustoms, Dispatch,
                PortArrival, WarehouseArrival, Clear, Arrive, CancelShipment
  <2> QED
    BY <1>1, <2>1, <2>2 DEF consolidationVars
<1>5. CASE UNCHANGED vars
  BY <1>1, <1>5 DEF vars, consolidationVars
<1> QED
  BY <1>2, <1>3, <1>4, <1>5 DEF Next

StagesInv == \A c \in Consolidation : StageInv(c)

LEMMA StagesStep == TypeOK /\ StagesInv /\ [Next]_vars => StagesInv'
<1> SUFFICES ASSUME TypeOK, StagesInv, [Next]_vars, NEW c \in Consolidation PROVE StageInv(c)'
  BY DEF StagesInv
<1>0. StageInv(c)
  BY DEF StagesInv
<1>1. CASE KeepsConsolidation(c)
  BY <1>0, <1>1, StageKept DEF KeepsConsolidation
<1>2. CASE Moved(c)
  BY <1>0, <1>2, StageMoved
<1>3. CASE \E s \in Shipment, B \in SUBSET Box : LoadBoxes(s, c, B) /\ Taken(c, B)
  BY <1>0, <1>3, StageTaken
<1> QED
  BY <1>1, <1>2, <1>3, ConsolidationCases

LEMMA StagesHold == Spec => []StagesInv
<1>1. Init => StagesInv
  BY DEF Init, ConsolidationInit, StagesInv, StageInv, HoldsOnly, HoldsSome, StateIn
<1> QED
  BY <1>1, StagesStep, TypeCorrect, PTL DEF Spec

\* The status of a consolidation says where its boxes are, whatever handovers,
\* exceptions, releases and partial transfers happened (consolidation/services.py).
THEOREM ConsolidationStagesHold == Spec => []ConsolidationStages
<1>1. ASSUME TypeOK, StagesInv PROVE ConsolidationStages
  <2> SUFFICES ASSUME NEW c \in Consolidation, NEW at,
                      at = {conAlloc[c][b].state : b \in ActiveBoxes(c)}
               PROVE  CASE conStatus[c] \in {"NONE", "CANCELLED"} -> at = {}
                        [] conStatus[c] = "DRAFT"                 -> at \subseteq {"ALLOCATED"}
                        [] conStatus[c] = "RELEASED"              -> at = {"ALLOCATED"}
                        [] conStatus[c] = "RECEIVING"             -> at \subseteq Waiting \cup {"RECEIVED"}
                        [] conStatus[c] = "READY"                 -> /\ "RECEIVED" \in at
                                                                     /\ at \subseteq {"RECEIVED", "TRANSFERRED"}
                        [] conStatus[c] = "TRANSFERRED"           -> at = {"TRANSFERRED"}
    BY DEF ConsolidationStages
  <2>0. StageInv(c) /\ conStatus[c] \in ConStatus
    BY <1>1 DEF StagesInv, TypeOK, ConsolidationTypeOK
  <2>1. \A st : st \in at <=> \E b \in Box : /\ conAlloc[c][b].state = st
                                             /\ conAlloc[c][b].state \notin {"NONE", "RELEASED"}
    BY DEF ActiveBoxes
  <2>2. ASSUME NEW states, HoldsOnly(c, states) PROVE at \subseteq states
    BY <2>1, <2>2 DEF HoldsOnly, StateIn
  <2>3. ASSUME NEW st, st \notin {"NONE", "RELEASED"}, HoldsSome(c, st) PROVE st \in at
    BY <2>1, <2>3 DEF HoldsSome, StateIn
  <2>4. CASE conStatus[c] \in {"NONE", "CANCELLED"}
    BY <2>0, <2>2, <2>4 DEF StageInv
  <2>5. CASE conStatus[c] = "DRAFT"
    BY <2>0, <2>2, <2>5 DEF StageInv
  <2>6. CASE conStatus[c] = "RELEASED"
    <3>1. at \subseteq {"ALLOCATED"} /\ "ALLOCATED" \in at
      BY <2>0, <2>2, <2>3, <2>6 DEF StageInv
    <3> QED
      BY <2>6, <3>1
  <2>7. CASE conStatus[c] = "RECEIVING"
    BY <2>0, <2>2, <2>7 DEF StageInv
  <2>8. CASE conStatus[c] = "READY"
    <3>1. at \subseteq {"RECEIVED", "TRANSFERRED"} /\ "RECEIVED" \in at
      BY <2>0, <2>2, <2>3, <2>8 DEF StageInv
    <3> QED
      BY <2>8, <3>1
  <2>9. CASE conStatus[c] = "TRANSFERRED"
    <3>1. at \subseteq {"TRANSFERRED"} /\ "TRANSFERRED" \in at
      BY <2>0, <2>2, <2>3, <2>9 DEF StageInv
    <3> QED
      BY <2>9, <3>1
  <2> QED
    BY <2>0, <2>4, <2>5, <2>6, <2>7, <2>8, <2>9 DEF ConStatus
<1> QED
  BY <1>1, TypeCorrect, StagesHold, PTL

\* From its release on a consolidation gets no box, and from the moment it is ready
\* it keeps the boxes it has.
THEOREM BoxesFrozenHolds == Spec => BoxesFrozenAfterRelease
<1>1. ASSUME TypeOK, StagesInv, [Next]_vars, NEW c \in Consolidation
      PROVE  /\ conStatus[c] \notin {"NONE", "DRAFT"} => ActiveBoxes(c)' \subseteq ActiveBoxes(c)
             /\ conStatus[c] \in {"READY", "TRANSFERRED"} => ActiveBoxes(c)' = ActiveBoxes(c)
  <2> DEFINE There(b) == conAlloc[c][b].state \notin {"NONE", "RELEASED"}
             Stays(b) == conAlloc'[c][b].state \notin {"NONE", "RELEASED"}
  <2>0. StageInv(c)
    BY <1>1 DEF StagesInv
  <2>1. /\ \A b : b \in ActiveBoxes(c) <=> b \in Box /\ There(b)
        /\ \A b : b \in ActiveBoxes(c)' <=> b \in Box /\ Stays(b)
    BY DEF ActiveBoxes
  <2>2. CASE KeepsConsolidation(c)
    BY <2>1, <2>2 DEF KeepsConsolidation, KeepsStates
  <2>3. CASE Planned(c) \/ Gathered(c) \/ Sealed(c)
    BY <2>3 DEF Planned, Gathered, Sealed
  <2>4. CASE Recorded(c)
    <3>1. \A b \in Box : Stays(b) => There(b)
      BY <2>4 DEF Recorded, Waiting
    <3> QED
      BY <2>1, <2>4, <3>1 DEF Recorded, Collecting
  <2>5. CASE Excused(c)
    <3>1. \A b \in Box : Stays(b) => There(b)
      BY <2>5 DEF Excused
    <3>2. conStatus[c] \notin {"READY", "TRANSFERRED"}
      BY <2>0, <2>5 DEF StageInv, Excused, HoldsOnly, StateIn
    <3> QED
      BY <2>1, <3>1, <3>2
  <2>6. CASE Finished(c)
    BY <2>1, <2>6 DEF Finished, KeepsStates
  <2>7. CASE CalledOff(c)
    <3>1. \A b \in Box : ~Stays(b)
      BY <2>7 DEF CalledOff
    <3> QED
      BY <2>1, <2>7, <3>1 DEF CalledOff
  <2>8. ASSUME NEW B, Taken(c, B) PROVE ActiveBoxes(c)' = ActiveBoxes(c)
    <3>1. \A b \in Box : Stays(b) <=> There(b)
      BY <2>8 DEF Taken
    <3> QED
      BY <2>1, <3>1
  <2> QED
    BY <1>1, <2>2, <2>3, <2>4, <2>5, <2>6, <2>7, <2>8, ConsolidationCases DEF Moved
<1>2. TypeOK /\ StagesInv /\ [Next]_vars =>
          [\A c \in Consolidation :
              /\ conStatus[c] \notin {"NONE", "DRAFT"} => ActiveBoxes(c)' \subseteq ActiveBoxes(c)
              /\ conStatus[c] \in {"READY", "TRANSFERRED"} => ActiveBoxes(c)' = ActiveBoxes(c)]_vars
  BY <1>1
<1> QED
  BY <1>2, TypeCorrect, StagesHold, PTL DEF Spec, BoxesFrozenAfterRelease

-----------------------------------------------------------------------------
(* Shipments and their boxes. *)

CargoAt(s, states) == \A b \in Box : shipAlloc[b].shipment = s => shipAlloc[b].state \in states
CargoHas(s, st) == \E b \in Box : shipAlloc[b].shipment = s /\ shipAlloc[b].state = st

MilestoneInv(s) ==
    /\ shipStatus[s] \in {"NONE", "DRAFT", "CANCELLED"} => CargoAt(s, {})
    /\ shipStatus[s] \in {"LOADING", "CUSTOMS_DECLARED"} =>
          CargoAt(s, {"TRANSFERRED"}) /\ CargoHas(s, "TRANSFERRED")
    /\ shipStatus[s] = "DISPATCHED" =>
          CargoAt(s, {"TRANSFERRED", "DISPATCHED"}) /\ CargoHas(s, "DISPATCHED")
    /\ shipStatus[s] = "PORT_ARRIVED" => CargoAt(s, {"ARRIVED_PORT"}) /\ CargoHas(s, "ARRIVED_PORT")
    /\ shipStatus[s] = "WAREHOUSE_ARRIVED" =>
          CargoAt(s, {"ARRIVED_WAREHOUSE"}) /\ CargoHas(s, "ARRIVED_WAREHOUSE")
    /\ shipStatus[s] = "WAREHOUSE_CLEARED" => CargoAt(s, {"CLEARED"}) /\ CargoHas(s, "CLEARED")

KeepsCargo(s) ==
    \A b \in Box : /\ shipAlloc'[b].shipment = s <=> shipAlloc[b].shipment = s
                   /\ shipAlloc[b].shipment = s => shipAlloc'[b].state = shipAlloc[b].state

\* A box of a shipment is set to another state.
LEMMA OnTheWaySet ==
    ASSUME NEW b \in Box, shipAlloc[b] \in ShipAllocation \cup {NoShipAllocation},
           shipAlloc[b].shipment \in Shipment, NEW st
    PROVE  /\ shipAlloc[b] \in ShipAllocation
           /\ [shipAlloc[b] EXCEPT !.state = st].state = st
           /\ [shipAlloc[b] EXCEPT !.state = st].shipment = shipAlloc[b].shipment
           /\ [shipAlloc[b] EXCEPT !.state = st].consolidation = shipAlloc[b].consolidation
<1>1. shipAlloc[b] \in ShipAllocation
  BY ConsolidationAssumption DEF NoShipAllocation
<1> QED
  BY <1>1 DEF ShipAllocation

\* A box has a shipment exactly when it is loaded.
LEMMA LoadedHasShipment ==
    ASSUME TypeOK, NEW b \in Box
    PROVE  /\ shipAlloc[b].state # "NONE" <=> shipAlloc[b].shipment \in Shipment
           /\ shipAlloc[b].state # "NONE" => shipAlloc[b] \in ShipAllocation
<1>1. shipAlloc[b] \in ShipAllocation \cup {NoShipAllocation}
  BY DEF TypeOK
<1> QED
  BY <1>1, ConsolidationAssumption DEF ShipAllocation, NoShipAllocation, OnTheWay

LEMMA CargoKept ==
    ASSUME NEW s \in Shipment, MilestoneInv(s), shipStatus'[s] = shipStatus[s], KeepsCargo(s)
    PROVE  MilestoneInv(s)'
BY DEF MilestoneInv, CargoAt, CargoHas, KeepsCargo

\* Boxes are loaded.
LEMMA CargoLoaded ==
    ASSUME TypeOK, NEW s \in Shipment, MilestoneInv(s),
           NEW c \in Consolidation, NEW B \in SUBSET Box, LoadBoxes(s, c, B)
    PROVE  MilestoneInv(s)'
<1>1. /\ shipStatus[s] \in {"DRAFT", "LOADING"} /\ shipStatus'[s] = "LOADING"
      /\ \A b \in B : shipAlloc'[b].shipment = s /\ shipAlloc'[b].state = "TRANSFERRED"
      /\ \A b \in Box \ B : shipAlloc'[b] = shipAlloc[b]
  BY DEF LoadBoxes, TypeOK
<1>2. PICK a \in B : a \in Box
  BY DEF LoadBoxes
<1>3. CargoAt(s, {"TRANSFERRED"})
  BY <1>1 DEF MilestoneInv, CargoAt
<1>4. CargoAt(s, {"TRANSFERRED"})' /\ CargoHas(s, "TRANSFERRED")'
  BY <1>1, <1>2, <1>3 DEF CargoAt, CargoHas
<1> QED
  BY <1>1, <1>4 DEF MilestoneInv

\* Boxes are dispatched.
LEMMA CargoDispatched ==
    ASSUME TypeOK, NEW s \in Shipment, MilestoneInv(s), NEW B \in SUBSET Box, Dispatch(s, B)
    PROVE  MilestoneInv(s)'
<1>1. /\ shipStatus[s] \in {"CUSTOMS_DECLARED", "DISPATCHED"} /\ shipStatus'[s] = "DISPATCHED"
      /\ \A b \in B : shipAlloc[b].shipment = s
      /\ \A b \in B : shipAlloc'[b] = [shipAlloc[b] EXCEPT !.state = "DISPATCHED"]
      /\ \A b \in Box \ B : shipAlloc'[b] = shipAlloc[b]
  BY DEF Dispatch, TypeOK
<1>2. \A b \in B : shipAlloc'[b].shipment = s /\ shipAlloc'[b].state = "DISPATCHED"
  <2> SUFFICES ASSUME NEW b \in B
               PROVE  shipAlloc'[b].shipment = s /\ shipAlloc'[b].state = "DISPATCHED"
    OBVIOUS
  <2>1. b \in Box /\ shipAlloc[b] \in ShipAllocation \cup {NoShipAllocation} /\ shipAlloc[b].shipment = s
    BY <1>1 DEF TypeOK
  <2>2. /\ [shipAlloc[b] EXCEPT !.state = "DISPATCHED"].shipment = s
        /\ [shipAlloc[b] EXCEPT !.state = "DISPATCHED"].state = "DISPATCHED"
    BY <2>1, OnTheWaySet
  <2>3. shipAlloc'[b] = [shipAlloc[b] EXCEPT !.state = "DISPATCHED"]
    BY <1>1
  <2> QED
    BY <2>2, <2>3
<1>3. PICK a \in B : a \in Box
  BY DEF Dispatch
<1>4. CargoAt(s, {"TRANSFERRED", "DISPATCHED"})
  BY <1>1 DEF MilestoneInv, CargoAt
<1>5. CargoAt(s, {"TRANSFERRED", "DISPATCHED"})' /\ CargoHas(s, "DISPATCHED")'
  BY <1>1, <1>2, <1>3, <1>4 DEF CargoAt, CargoHas
<1> QED
  BY <1>1, <1>5 DEF MilestoneInv

\* A shipment arrives with all its boxes.
LEMMA CargoArrived ==
    ASSUME TypeOK, NEW s \in Shipment, NEW before, NEW after, NEW fromState, NEW toState,
           Arrive(s, before, after, fromState, toState)
    PROVE  shipStatus'[s] = after /\ CargoAt(s, {toState})' /\ CargoHas(s, toState)'
<1>1. /\ shipStatus'[s] = after
      /\ \A b \in Cargo(s) : shipAlloc'[b] = [shipAlloc[b] EXCEPT !.state = toState]
      /\ \A b \in Box \ Cargo(s) : shipAlloc'[b] = shipAlloc[b]
      /\ Cargo(s) # {}
  BY DEF Arrive, AllAt, Cargo, TypeOK
<1>2. \A b : b \in Cargo(s) <=> b \in Box /\ shipAlloc[b].shipment = s
  BY DEF Cargo
<1>3. \A b \in Cargo(s) : shipAlloc'[b].shipment = s /\ shipAlloc'[b].state = toState
  <2> SUFFICES ASSUME NEW b \in Cargo(s)
               PROVE  shipAlloc'[b].shipment = s /\ shipAlloc'[b].state = toState
    OBVIOUS
  <2>1. b \in Box /\ shipAlloc[b] \in ShipAllocation \cup {NoShipAllocation} /\ shipAlloc[b].shipment = s
    BY <1>2 DEF TypeOK
  <2>2. /\ [shipAlloc[b] EXCEPT !.state = toState].shipment = s
        /\ [shipAlloc[b] EXCEPT !.state = toState].state = toState
    BY <2>1, OnTheWaySet
  <2>3. shipAlloc'[b] = [shipAlloc[b] EXCEPT !.state = toState]
    BY <1>1
  <2> QED
    BY <2>2, <2>3
<1>4. PICK a \in Cargo(s) : a \in Box
  BY <1>1, <1>2
<1>5. CargoAt(s, {toState})'
  BY <1>1, <1>2, <1>3 DEF CargoAt
<1>6. CargoHas(s, toState)'
  BY <1>3, <1>4 DEF CargoHas
<1> QED
  BY <1>1, <1>5, <1>6

\* The boxes of other shipments are left alone.
LEMMA OtherCargo ==
    ASSUME TypeOK, NEW s \in Shipment, ShipmentStep(s), NEW t \in Shipment, t # s
    PROVE  shipStatus'[t] = shipStatus[t] /\ KeepsCargo(t)
<1>1. UNCHANGED shipAlloc => KeepsCargo(t)
  BY DEF KeepsCargo
<1>2. ASSUME NEW B \in SUBSET Box,
             \A b \in B : shipAlloc[b].shipment # t /\ shipAlloc'[b].shipment # t,
             \A b \in Box \ B : shipAlloc'[b] = shipAlloc[b]
      PROVE  KeepsCargo(t)
  BY <1>2 DEF KeepsCargo
<1>3. ASSUME NEW r \in Region, NEW o \in Site \cup {None}, CreateShipment(s, r, o) \/ UpdateShipment(s, r, o)
      PROVE  shipStatus'[t] = shipStatus[t] /\ KeepsCargo(t)
  BY <1>1, <1>3 DEF CreateShipment, UpdateShipment, TypeOK
<1>4. ASSUME DeclareCustoms(s) \/ CancelShipment(s)
      PROVE  shipStatus'[t] = shipStatus[t] /\ KeepsCargo(t)
  BY <1>1, <1>4 DEF DeclareCustoms, CancelShipment, TypeOK
<1>5. ASSUME NEW c \in Consolidation, NEW B \in SUBSET Box, LoadBoxes(s, c, B)
      PROVE  shipStatus'[t] = shipStatus[t] /\ KeepsCargo(t)
  <2>1. /\ \A b \in B : shipAlloc'[b].shipment = s /\ shipAlloc[b].state = "NONE"
        /\ \A b \in Box \ B : shipAlloc'[b] = shipAlloc[b]
        /\ shipStatus'[t] = shipStatus[t]
    BY <1>5 DEF LoadBoxes, TypeOK
  <2>2. \A b \in B : shipAlloc[b].shipment # t
    BY <2>1, LoadedHasShipment
  <2> QED
    BY <1>2, <2>1, <2>2
<1>6. ASSUME NEW B \in SUBSET Box, Dispatch(s, B)
      PROVE  shipStatus'[t] = shipStatus[t] /\ KeepsCargo(t)
  <2>1. /\ \A b \in B : shipAlloc[b].shipment = s
                        /\ shipAlloc'[b] = [shipAlloc[b] EXCEPT !.state = "DISPATCHED"]
        /\ \A b \in Box \ B : shipAlloc'[b] = shipAlloc[b]
        /\ shipStatus'[t] = shipStatus[t]
    BY <1>6 DEF Dispatch, TypeOK
  <2>2. \A b \in B : shipAlloc'[b].shipment = s
    <3> SUFFICES ASSUME NEW b \in B PROVE shipAlloc'[b].shipment = s
      OBVIOUS
    <3>1. b \in Box /\ shipAlloc[b] \in ShipAllocation \cup {NoShipAllocation} /\ shipAlloc[b].shipment = s
      BY <2>1 DEF TypeOK
    <3>2. [shipAlloc[b] EXCEPT !.state = "DISPATCHED"].shipment = s
      BY <3>1, OnTheWaySet
    <3>3. shipAlloc'[b] = [shipAlloc[b] EXCEPT !.state = "DISPATCHED"]
      BY <2>1
    <3> QED
      BY <3>2, <3>3
  <2> QED
    BY <1>2, <2>1, <2>2
<1>7. ASSUME NEW before, NEW after, NEW fromState, NEW toState,
             Arrive(s, before, after, fromState, toState)
      PROVE  shipStatus'[t] = shipStatus[t] /\ KeepsCargo(t)
  <2>1. /\ \A b \in Cargo(s) : b \in Box /\ shipAlloc[b].shipment = s
                               /\ shipAlloc'[b] = [shipAlloc[b] EXCEPT !.state = toState]
        /\ \A b \in Box \ Cargo(s) : shipAlloc'[b] = shipAlloc[b]
        /\ shipStatus'[t] = shipStatus[t]
    BY <1>7 DEF Arrive, Cargo, TypeOK
  <2>2. \A b \in Cargo(s) : shipAlloc'[b].shipment = s
    <3> SUFFICES ASSUME NEW b \in Cargo(s) PROVE shipAlloc'[b].shipment = s
      OBVIOUS
    <3>1. b \in Box /\ shipAlloc[b] \in ShipAllocation \cup {NoShipAllocation} /\ shipAlloc[b].shipment = s
      BY <2>1 DEF TypeOK
    <3>2. [shipAlloc[b] EXCEPT !.state = toState].shipment = s
      BY <3>1, OnTheWaySet
    <3>3. shipAlloc'[b] = [shipAlloc[b] EXCEPT !.state = toState]
      BY <2>1
    <3> QED
      BY <3>2, <3>3
  <2>3. Cargo(s) \in SUBSET Box
    BY DEF Cargo
  <2> QED
    BY <1>2, <2>1, <2>2, <2>3
<1> QED
  BY <1>3, <1>4, <1>5, <1>6, <1>7 DEF ShipmentStep, PortArrival, WarehouseArrival, Clear

LEMMA MilestoneMoved ==
    ASSUME TypeOK, NEW s \in Shipment, MilestoneInv(s), ShipmentStep(s)
    PROVE  MilestoneInv(s)'
<1>1. ASSUME NEW r \in Region, NEW o \in Site \cup {None}, CreateShipment(s, r, o) \/ UpdateShipment(s, r, o)
      PROVE  MilestoneInv(s)'
  <2>1. shipAlloc' = shipAlloc /\ shipStatus'[s] = "DRAFT" /\ shipStatus[s] \in {"NONE", "DRAFT"}
    BY <1>1 DEF CreateShipment, UpdateShipment, TypeOK
  <2> QED
    BY <2>1 DEF MilestoneInv, CargoAt
<1>2. CASE DeclareCustoms(s)
  <2>1. shipAlloc' = shipAlloc /\ shipStatus'[s] = "CUSTOMS_DECLARED" /\ shipStatus[s] = "LOADING"
    BY <1>2 DEF DeclareCustoms, TypeOK
  <2> QED
    BY <2>1 DEF MilestoneInv, CargoAt, CargoHas
<1>3. CASE CancelShipment(s)
  <2>1. shipAlloc' = shipAlloc /\ shipStatus'[s] = "CANCELLED" /\ shipStatus[s] = "DRAFT"
    BY <1>3 DEF CancelShipment, TypeOK
  <2> QED
    BY <2>1 DEF MilestoneInv, CargoAt
<1>4. ASSUME PortArrival(s) \/ WarehouseArrival(s) \/ Clear(s)
      PROVE  MilestoneInv(s)'
  <2>1. CASE PortArrival(s)
    BY <2>1, CargoArrived DEF PortArrival, MilestoneInv
  <2>2. CASE WarehouseArrival(s)
    BY <2>2, CargoArrived DEF WarehouseArrival, MilestoneInv
  <2>3. CASE Clear(s)
    BY <2>3, CargoArrived DEF Clear, MilestoneInv
  <2> QED
    BY <1>4, <2>1, <2>2, <2>3
<1> QED
  BY <1>1, <1>2, <1>3, <1>4, CargoLoaded, CargoDispatched DEF ShipmentStep

MilestonesInv == \A s \in Shipment : MilestoneInv(s)

LEMMA MilestonesStep == TypeOK /\ MilestonesInv /\ [Next]_vars => MilestonesInv'
<1> SUFFICES ASSUME TypeOK, MilestonesInv, [Next]_vars, NEW s \in Shipment PROVE MilestoneInv(s)'
  BY DEF MilestonesInv
<1>0. MilestoneInv(s)
  BY DEF MilestonesInv
<1>1. CASE UNCHANGED shipmentVars
  <2>1. shipStatus'[s] = shipStatus[s] /\ KeepsCargo(s)
    BY <1>1 DEF shipmentVars, KeepsCargo
  <2> QED
    BY <1>0, <2>1, CargoKept
<1>2. ASSUME NEW t \in Shipment, ShipmentStep(t) PROVE MilestoneInv(s)'
  <2>1. CASE t = s
    BY <1>0, <1>2, <2>1, MilestoneMoved
  <2>2. CASE t # s
    BY <1>0, <1>2, <2>2, OtherCargo, CargoKept
  <2> QED
    BY <2>1, <2>2
<1> QED
  BY <1>1, <1>2 DEF Next, vars

LEMMA MilestonesHold == Spec => []MilestonesInv
<1>1. Init => MilestonesInv
  BY ConsolidationAssumption DEF Init, MilestonesInv, MilestoneInv, CargoAt, NoShipAllocation
<1> QED
  BY <1>1, MilestonesStep, TypeCorrect, PTL DEF Spec

\* A shipment is never ahead of its boxes nor behind them: what it has passed, all
\* of them have passed (_arrival_transition and the partial dispatches).
THEOREM ShipmentMilestonesHold == Spec => []ShipmentMilestones
<1>1. ASSUME TypeOK, MilestonesInv PROVE ShipmentMilestones
  <2> SUFFICES ASSUME NEW s \in Shipment, NEW at, at = {shipAlloc[b].state : b \in Cargo(s)}
               PROVE  CASE shipStatus[s] \in {"NONE", "DRAFT", "CANCELLED"}     -> at = {}
                        [] shipStatus[s] \in {"LOADING", "CUSTOMS_DECLARED"}    -> at = {"TRANSFERRED"}
                        [] shipStatus[s] = "DISPATCHED"        -> /\ "DISPATCHED" \in at
                                                                  /\ at \subseteq {"TRANSFERRED", "DISPATCHED"}
                        [] shipStatus[s] = "PORT_ARRIVED"      -> at = {"ARRIVED_PORT"}
                        [] shipStatus[s] = "WAREHOUSE_ARRIVED" -> at = {"ARRIVED_WAREHOUSE"}
                        [] shipStatus[s] = "WAREHOUSE_CLEARED" -> at = {"CLEARED"}
    BY DEF ShipmentMilestones
  <2>0. MilestoneInv(s) /\ shipStatus[s] \in ShipStatus
    BY <1>1 DEF MilestonesInv, TypeOK
  <2>1. \A st : st \in at <=> \E b \in Box : shipAlloc[b].shipment = s /\ shipAlloc[b].state = st
    BY DEF Cargo
  <2>2. ASSUME NEW states, CargoAt(s, states) PROVE at \subseteq states
    BY <2>1, <2>2 DEF CargoAt
  <2>3. ASSUME NEW st, CargoHas(s, st) PROVE st \in at
    BY <2>1, <2>3 DEF CargoHas
  <2>4. ASSUME NEW st, CargoAt(s, {st}), CargoHas(s, st) PROVE at = {st}
    BY <2>2, <2>3, <2>4
  <2>5. CASE shipStatus[s] \in {"NONE", "DRAFT", "CANCELLED"}
    BY <2>0, <2>2, <2>5 DEF MilestoneInv
  <2>6. CASE shipStatus[s] \in {"LOADING", "CUSTOMS_DECLARED"}
    BY <2>0, <2>4, <2>6 DEF MilestoneInv
  <2>7. CASE shipStatus[s] = "DISPATCHED"
    BY <2>0, <2>2, <2>3, <2>7 DEF MilestoneInv
  <2>8. CASE shipStatus[s] = "PORT_ARRIVED"
    BY <2>0, <2>4, <2>8 DEF MilestoneInv
  <2>9. CASE shipStatus[s] = "WAREHOUSE_ARRIVED"
    BY <2>0, <2>4, <2>9 DEF MilestoneInv
  <2>10. CASE shipStatus[s] = "WAREHOUSE_CLEARED"
    BY <2>0, <2>4, <2>10 DEF MilestoneInv
  <2> QED
    BY <2>0, <2>5, <2>6, <2>7, <2>8, <2>9, <2>10 DEF ShipStatus
<1> QED
  BY <1>1, TypeCorrect, MilestonesHold, PTL

-----------------------------------------------------------------------------
(* The route of a loaded box. *)

\* Box b stays where it was loaded, whatever it passes on the way.
StaysLoaded(b) ==
    /\ shipAlloc'[b].shipment = shipAlloc[b].shipment
    /\ shipAlloc'[b].consolidation = shipAlloc[b].consolidation
    /\ shipAlloc'[b].state = "NONE" <=> shipAlloc[b].state = "NONE"

\* A box that is moved on keeps its shipment and its consolidation.
LEMMA MovedOnStaysLoaded ==
    ASSUME TypeOK, NEW b \in Box, NEW st, st # "NONE", shipAlloc[b].shipment \in Shipment,
           shipAlloc'[b] = [shipAlloc[b] EXCEPT !.state = st]
    PROVE  StaysLoaded(b)
<1>1. shipAlloc[b] \in ShipAllocation \cup {NoShipAllocation}
  BY DEF TypeOK
<1>2. /\ shipAlloc[b].state # "NONE"
      /\ [shipAlloc[b] EXCEPT !.state = st].state = st
      /\ [shipAlloc[b] EXCEPT !.state = st].shipment = shipAlloc[b].shipment
      /\ [shipAlloc[b] EXCEPT !.state = st].consolidation = shipAlloc[b].consolidation
  BY <1>1, OnTheWaySet, LoadedHasShipment
<1> QED
  BY <1>2 DEF StaysLoaded

\* A box is loaded by this step, or it stays where it is.
LEMMA LoadedOrStays ==
    ASSUME TypeOK, [Next]_vars, NEW b \in Box
    PROVE  \/ StaysLoaded(b)
           \/ \E s \in Shipment, c \in Consolidation, B \in SUBSET Box : b \in B /\ LoadBoxes(s, c, B)
<1>1. shipAlloc'[b] = shipAlloc[b] => StaysLoaded(b)
  BY DEF StaysLoaded
<1>2. CASE UNCHANGED shipAlloc
  BY <1>1, <1>2
<1>3. ASSUME NEW s \in Shipment, NEW c \in Consolidation, NEW B \in SUBSET Box, LoadBoxes(s, c, B),
             b \notin B
      PROVE  StaysLoaded(b)
  BY <1>1, <1>3 DEF LoadBoxes
<1>4. ASSUME NEW s \in Shipment, NEW B \in SUBSET Box, Dispatch(s, B)
      PROVE  StaysLoaded(b)
  <2>1. CASE b \in B
    <3>1. shipAlloc[b].shipment = s /\ shipAlloc'[b] = [shipAlloc[b] EXCEPT !.state = "DISPATCHED"]
      BY <1>4, <2>1 DEF Dispatch
    <3> QED
      BY <3>1, MovedOnStaysLoaded
  <2>2. CASE b \notin B
    BY <1>1, <1>4, <2>2 DEF Dispatch
  <2> QED
    BY <2>1, <2>2
<1>5. ASSUME NEW s \in Shipment, NEW before, NEW after, NEW fromState, NEW toState, toState # "NONE",
             Arrive(s, before, after, fromState, toState)
      PROVE  StaysLoaded(b)
  <2>1. CASE b \in Cargo(s)
    <3>1. shipAlloc[b].shipment = s /\ shipAlloc'[b] = [shipAlloc[b] EXCEPT !.state = toState]
      BY <1>5, <2>1 DEF Arrive, Cargo
    <3> QED
      BY <1>5, <3>1, MovedOnStaysLoaded
  <2>2. CASE b \notin Cargo(s)
    BY <1>1, <1>5, <2>2 DEF Arrive
  <2> QED
    BY <2>1, <2>2
<1>6. ASSUME NEW s \in Shipment, ShipmentStep(s)
      PROVE  \/ StaysLoaded(b)
             \/ \E c \in Consolidation, B \in SUBSET Box : b \in B /\ LoadBoxes(s, c, B)
  <2>1. PortArrival(s) \/ WarehouseArrival(s) \/ Clear(s) => StaysLoaded(b)
    BY <1>5 DEF PortArrival, WarehouseArrival, Clear
  <2>2. (\E r \in Region, o \in Site \cup {None} : CreateShipment(s, r, o) \/ UpdateShipment(s, r, o))
            \/ DeclareCustoms(s) \/ CancelShipment(s) => StaysLoaded(b)
    BY <1>1 DEF CreateShipment, UpdateShipment, DeclareCustoms, CancelShipment
  <2> QED
    BY <1>3, <1>4, <1>6, <2>1, <2>2 DEF ShipmentStep
<1> QED
  BY <1>2, <1>6 DEF Next, vars, shipmentVars

\* A shipment that has a box is not re-routed.
LEMMA LoadedShipmentKeepsRoute ==
    ASSUME TypeOK, [Next]_vars, NEW s \in Shipment, MilestoneInv(s), ~CargoAt(s, {})
    PROVE  shipRegion'[s] = shipRegion[s] /\ shipOrigin'[s] = shipOrigin[s]
<1>1. shipStatus[s] \notin {"NONE", "DRAFT"}
  BY DEF MilestoneInv
<1>2. ASSUME NEW t \in Shipment, ShipmentStep(t)
      PROVE  shipRegion'[s] = shipRegion[s] /\ shipOrigin'[s] = shipOrigin[s]
  <2>1. CASE \E r \in Region, o \in Site \cup {None} : CreateShipment(t, r, o) \/ UpdateShipment(t, r, o)
    BY <1>1, <2>1 DEF CreateShipment, UpdateShipment, TypeOK
  <2>2. \/ \E r \in Region, o \in Site \cup {None} : CreateShipment(t, r, o) \/ UpdateShipment(t, r, o)
        \/ UNCHANGED <<shipRegion, shipOrigin>>
    BY <1>2 DEF ShipmentStep, LoadBoxes, DeclareCustoms, Dispatch, PortArrival, WarehouseArrival,
                Clear, Arrive, CancelShipment
  <2> QED
    BY <2>1, <2>2
<1> QED
  BY <1>2 DEF Next, vars, shipmentVars

\* A consolidation a box was transferred from is not re-routed, and the box is
\* not transferred back.
LEMMA TransferredKeepsRoute ==
    ASSUME TypeOK, [Next]_vars, NEW c \in Consolidation, StageInv(c),
           NEW b \in Box, conAlloc[c][b].state = "TRANSFERRED"
    PROVE  KeepsRoute(c) /\ conAlloc'[c][b].state = "TRANSFERRED"
<1>1. conStatus[c] \in {"READY", "TRANSFERRED"}
  <2>1. conStatus[c] \in ConStatus
    BY DEF TypeOK, ConsolidationTypeOK
  <2> QED
    BY <2>1 DEF StageInv, HoldsOnly, StateIn, ConStatus, Waiting
<1>2. KeepsConsolidation(c) => KeepsRoute(c) /\ conAlloc'[c][b].state = "TRANSFERRED"
  BY DEF KeepsConsolidation, KeepsStates
<1>3. Moved(c) => KeepsRoute(c) /\ conAlloc'[c][b].state = "TRANSFERRED"
  BY <1>1 DEF Moved, Planned, Gathered, Sealed, Recorded, Excused, Finished, CalledOff,
              Collecting, KeepsStates
<1>4. ASSUME NEW B \in SUBSET Box, Taken(c, B)
      PROVE  KeepsRoute(c) /\ conAlloc'[c][b].state = "TRANSFERRED"
  BY <1>4 DEF Taken
<1> QED
  BY <1>2, <1>3, <1>4, ConsolidationCases

Routed(b, s, c) ==
    /\ conAlloc[c][b].state = "TRANSFERRED"
    /\ conRegion[c] = shipRegion[s]
    /\ shipOrigin[s] \in {None, conSite[c]}

BoxRouted(b) ==
    shipAlloc[b].state # "NONE" => Routed(b, shipAlloc[b].shipment, shipAlloc[b].consolidation)

LEMMA RouteStep ==
    ASSUME TypeOK, StagesInv, MilestonesInv, [Next]_vars, NEW b \in Box, BoxRouted(b)
    PROVE  BoxRouted(b)'
<1>1. ASSUME NEW s \in Shipment, NEW c \in Consolidation, NEW B \in SUBSET Box,
             b \in B, LoadBoxes(s, c, B)
      PROVE  BoxRouted(b)'
  <2>1. shipAlloc'[b] = [state |-> "TRANSFERRED", shipment |-> s, consolidation |-> c,
                         row |-> Len(ledger[b]) + 1]
    BY <1>1 DEF LoadBoxes
  <2>2. conAlloc'[c][b].state = "TRANSFERRED"
    BY <1>1, TransferTakes DEF LoadBoxes, Taken, TypeOK
  <2>3. /\ conRegion' = conRegion /\ conSite' = conSite
        /\ shipRegion' = shipRegion /\ shipOrigin' = shipOrigin
    BY <1>1 DEF LoadBoxes, TransferBoxes, planVars
  <2>4. Routed(b, s, c)'
    BY <1>1, <2>2, <2>3 DEF LoadBoxes, RouteFits, Routed
  <2>5. shipAlloc'[b].shipment = s /\ shipAlloc'[b].consolidation = c
    BY <2>1
  <2> QED
    BY <2>4, <2>5 DEF BoxRouted, Routed
<1>2. CASE StaysLoaded(b) /\ shipAlloc[b].state # "NONE"
  <2>1. PICK s \in Shipment, c \in Consolidation :
            shipAlloc[b].shipment = s /\ shipAlloc[b].consolidation = c
    BY <1>2, LoadedHasShipment DEF ShipAllocation
  <2>2. Routed(b, s, c)
    BY <1>2, <2>1 DEF BoxRouted
  <2>3. ~CargoAt(s, {})
    BY <2>1 DEF CargoAt
  <2>4. shipRegion'[s] = shipRegion[s] /\ shipOrigin'[s] = shipOrigin[s]
    BY <2>3, LoadedShipmentKeepsRoute DEF MilestonesInv
  <2>5. KeepsRoute(c) /\ conAlloc'[c][b].state = "TRANSFERRED"
    BY <2>2, TransferredKeepsRoute DEF StagesInv, Routed
  <2>6. Routed(b, s, c)'
    BY <2>2, <2>4, <2>5 DEF Routed, KeepsRoute
  <2>7. shipAlloc'[b].shipment = s /\ shipAlloc'[b].consolidation = c
    BY <1>2, <2>1 DEF StaysLoaded
  <2> QED
    BY <2>6, <2>7 DEF BoxRouted, Routed
<1>3. CASE StaysLoaded(b) /\ shipAlloc[b].state = "NONE"
  BY <1>3 DEF StaysLoaded, BoxRouted
<1> QED
  BY <1>1, <1>2, <1>3, LoadedOrStays

\* A loaded box came from a consolidation of its shipment's region and origin,
\* and neither is re-routed after that (update_shipment, update_consolidation).
THEOREM RouteAgreementHolds == Spec => []RouteAgreement
<1> DEFINE RouteInv == \A b \in Box : BoxRouted(b)
<1>1. Init => RouteInv
  BY DEF Init, BoxRouted, NoShipAllocation
<1>2. TypeOK /\ StagesInv /\ MilestonesInv /\ RouteInv /\ [Next]_vars => RouteInv'
  BY RouteStep
<1>3. RouteInv => RouteAgreement
  BY DEF RouteAgreement, BoxRouted, Routed
<1> QED
  BY <1>1, <1>2, <1>3, TypeCorrect, StagesHold, MilestonesHold, PTL DEF Spec

-----------------------------------------------------------------------------
(* The services implement the abstract custody of a box. *)

Live == Waiting \cup {"RECEIVED"}

Unclaimed(b) ==
    /\ shipAlloc[b].state = "NONE"
    /\ \A c \in Consolidation : conAlloc[c][b].state \notin Live

InCustody(b, p, k) == CustodyPlace(b) = p /\ CustodyHolder(b) = k

\* What the allocations of box b say of its custody: the cases exclude each other.
CustodyRead(b) ==
    /\ Unclaimed(b) => InCustody(b, "SUPPLIER", None)
    /\ \A c \in Consolidation : conAlloc[c][b].state \in Live =>
          /\ shipAlloc[b].state = "NONE"
          /\ InCustody(b, IF conAlloc[c][b].state = "RECEIVED" THEN "AT_SITE" ELSE "EXPECTED", c)
    /\ shipAlloc[b].state \in OnTheWay \cup {"NONE", "TRANSFERRED"}
    /\ shipAlloc[b].state = "TRANSFERRED" => InCustody(b, "LOADED", shipAlloc[b].shipment)
    /\ shipAlloc[b].state = "DISPATCHED" => InCustody(b, "SHIPPED", shipAlloc[b].shipment)
    /\ shipAlloc[b].state = "ARRIVED_PORT" => InCustody(b, "AT_PORT", shipAlloc[b].shipment)
    /\ shipAlloc[b].state = "ARRIVED_WAREHOUSE" => InCustody(b, "AT_WAREHOUSE", shipAlloc[b].shipment)
    /\ shipAlloc[b].state = "CLEARED" => InCustody(b, "CLEARED", shipAlloc[b].shipment)

\* A box with a live claim has no other, and is not loaded: the claim holds the
\* one active row of the ledger.
LEMMA OneClaim ==
    ASSUME TypeOK, NEW b \in Box, BoxInv(b), NEW c \in Consolidation, conAlloc[c][b].state \in Live
    PROVE  shipAlloc[b].state = "NONE" /\ Claims(b) = {c}
<1>1. PICK i \in Active(b) : ledger[b][i].consumer = c
  BY DEF BoxInv, ConsolidationRow, Active, RowStateOf, Live, Waiting
<1>2. ASSUME NEW k \in Consolidation, conAlloc[k][b].state \in Live
      PROVE  k = c
  <2>1. PICK j \in Active(b) : ledger[b][j].consumer = k
    BY <1>2 DEF BoxInv, ConsolidationRow, Active, RowStateOf, Live, Waiting
  <2>2. i = j
    BY <1>1, <2>1 DEF BoxInv
  <2> QED
    BY <1>1, <2>1, <2>2
<1>3. ASSUME shipAlloc[b].state # "NONE"
      PROVE  FALSE
  <2>1. shipAlloc[b].shipment \in Shipment
    BY <1>3, LoadedHasShipment
  <2>2. PICK j \in Active(b) : ledger[b][j].consumer = shipAlloc[b].shipment
    BY <1>3 DEF BoxInv, ShipmentRow, Active
  <2>3. i = j
    BY <1>1, <2>2 DEF BoxInv
  <2> QED
    BY <1>1, <2>1, <2>2, <2>3, ConsumptionAssumption
<1>4. \A k : k \in Claims(b) <=> k \in Consolidation /\ conAlloc[k][b].state \in Live
  BY DEF Claims, Live
<1> QED
  BY <1>2, <1>3, <1>4

LEMMA CustodyReadHolds ==
    ASSUME TypeOK, NEW b \in Box, BoxInv(b)
    PROVE  CustodyRead(b)
<1>1. ASSUME Unclaimed(b) PROVE InCustody(b, "SUPPLIER", None)
  <2>1. Claims(b) = {} /\ shipAlloc[b].state = "NONE"
    BY <1>1 DEF Unclaimed, Claims, Live
  <2> QED
    BY <2>1 DEF InCustody, CustodyPlace, CustodyHolder
<1>2. ASSUME NEW c \in Consolidation, conAlloc[c][b].state \in Live
      PROVE  /\ shipAlloc[b].state = "NONE"
             /\ InCustody(b, IF conAlloc[c][b].state = "RECEIVED" THEN "AT_SITE" ELSE "EXPECTED", c)
  <2>1. Claims(b) = {c} /\ shipAlloc[b].state = "NONE"
    BY <1>2, OneClaim
  <2>2. (CHOOSE k \in Claims(b) : TRUE) = c
    BY <2>1
  <2>3. CustodyHolder(b) = c
    BY <2>1, <2>2 DEF CustodyHolder
  <2>4. CustodyPlace(b) = IF conAlloc[c][b].state = "RECEIVED" THEN "AT_SITE" ELSE "EXPECTED"
    BY <2>1 DEF CustodyPlace
  <2> QED
    BY <2>1, <2>3, <2>4 DEF InCustody
<1>3. shipAlloc[b].state \in OnTheWay \cup {"NONE", "TRANSFERRED"}
  BY DEF TypeOK, ShipAllocation, NoShipAllocation
<1>4. shipAlloc[b].state # "NONE" => CustodyHolder(b) = shipAlloc[b].shipment
  BY DEF CustodyHolder
<1> QED
  BY <1>1, <1>2, <1>3, <1>4 DEF CustodyRead, InCustody, CustodyPlace, OnTheWay

CustodyReads == \A b \in Box : CustodyRead(b)

LEMMA CustodyReadsHold == Spec => []CustodyReads
<1>1. CustodyInv => CustodyReads
  BY CustodyReadHolds DEF CustodyInv, CustodyReads
<1> QED
  BY <1>1, CustodyInvariant, PTL

\* Where box b is, nobody can see a difference.
SameClaims(b) ==
    /\ shipAlloc'[b] = shipAlloc[b]
    /\ \A c \in Consolidation :
          \/ conAlloc'[c][b].state = conAlloc[c][b].state
          \/ conAlloc[c][b].state \in Waiting /\ conAlloc'[c][b].state \in Waiting

KeepsCustody(b) == CustodyPlace(b)' = CustodyPlace(b) /\ CustodyHolder(b)' = CustodyHolder(b)

LEMMA SameCustody ==
    ASSUME NEW b \in Box, CustodyRead(b), CustodyRead(b)', SameClaims(b)
    PROVE  KeepsCustody(b)
<1>1. CASE Unclaimed(b)
  <2>1. Unclaimed(b)'
    BY <1>1 DEF Unclaimed, SameClaims, Live
  <2> QED
    BY <1>1, <2>1 DEF CustodyRead, InCustody, KeepsCustody
<1>2. ASSUME NEW c \in Consolidation, conAlloc[c][b].state \in Live
      PROVE  KeepsCustody(b)
  <2>1. /\ conAlloc'[c][b].state \in Live
        /\ conAlloc'[c][b].state = "RECEIVED" <=> conAlloc[c][b].state = "RECEIVED"
    BY <1>2 DEF SameClaims, Live, Waiting
  <2> QED
    BY <1>2, <2>1 DEF CustodyRead, InCustody, KeepsCustody
<1>3. CASE shipAlloc[b].state # "NONE"
  BY <1>3 DEF CustodyRead, InCustody, KeepsCustody, SameClaims, OnTheWay
<1> QED
  BY <1>1, <1>2, <1>3 DEF Unclaimed

\* Boxes that move from one place to the next, the others staying where they are.
LEMMA CustodyMoves ==
    ASSUME NEW B \in SUBSET Box, NEW from, NEW to, NEW k,
           \A b \in B : CustodyPlace(b) = from /\ InCustody(b, to, k)',
           \A b \in Box \ B : KeepsCustody(b)
    PROVE  Custody!Move(B, from, to, k)
<1>1. \A b \in Box : /\ CustodyPlace(b)' = IF b \in B THEN to ELSE CustodyPlace(b)
                     /\ CustodyHolder(b)' = IF b \in B THEN k ELSE CustodyHolder(b)
  BY DEF InCustody, KeepsCustody
<1> QED
  BY <1>1 DEF Custody!Move

LEMMA CustodyHeld ==
    ASSUME NEW k PROVE \A b : b \in Custody!HeldBy(k) <=> b \in Box /\ CustodyHolder(b) = k
BY DEF Custody!HeldBy

LEMMA CustodyUnchanged ==
    ASSUME \A b \in Box : KeepsCustody(b) PROVE UNCHANGED Custody!custodyVars
BY DEF KeepsCustody, Custody!custodyVars

\* Boxes that consolidation c claims, gives back or takes in.
LEMMA ConsolidationCustody ==
    ASSUME CustodyInv, CustodyReads, CustodyReads', NEW c \in Consolidation, ConsolidationStep(c),
           UNCHANGED shipmentVars
    PROVE  Custody!Next \/ UNCHANGED Custody!custodyVars
<1>0. ConsolidationTypeOK /\ shipAlloc' = shipAlloc
  BY DEF CustodyInv, TypeOK, shipmentVars
<1>1. \A b \in Box : CustodyRead(b) /\ CustodyRead(b)' /\ BoxInv(b)
  BY DEF CustodyReads, CustodyInv
<1>2. ASSUME UNCHANGED conAlloc PROVE UNCHANGED Custody!custodyVars
  <2>1. \A b \in Box : SameClaims(b)
    BY <1>0, <1>2 DEF SameClaims
  <2> QED
    BY <1>1, <2>1, SameCustody, CustodyUnchanged
<1>3. ASSUME NEW b \in Box, NEW st \in Waiting, conAlloc[c][b].state \in Waiting,
             conAlloc' = Marked(c, {b}, st)
      PROVE  UNCHANGED Custody!custodyVars
  <2>1. /\ \A k \in Consolidation : k # c => KeepsStates(k)
        /\ conAlloc'[c][b].state \in Waiting
        /\ \A a \in Box : a # b => conAlloc'[c][a].state = conAlloc[c][a].state
    <3>1. PICK B : B = {b}
      OBVIOUS
    <3>2. conAlloc' = Marked(c, B, st)
      BY <1>3, <3>1
    <3>3. /\ \A k \in Consolidation : k # c => KeepsStates(k)
          /\ \A a \in Box : /\ a \in B => conAlloc'[c][a].state = st
                            /\ a \notin B => conAlloc'[c][a].state = conAlloc[c][a].state
      BY <1>0, <3>2, MarkedStates
    <3> QED
      BY <3>1, <3>3
  <2>2. \A a \in Box : SameClaims(a)
    BY <1>0, <1>3, <2>1 DEF SameClaims, KeepsStates
  <2> QED
    BY <1>1, <2>2, SameCustody, CustodyUnchanged
<1>4. ASSUME NEW B \in SUBSET Box, \A b \in B : conAlloc[c][b].state \in Waiting,
             conAlloc' = Marked(c, B, "RELEASED")
      PROVE  Custody!Next
  <2>1. /\ \A k \in Consolidation : k # c => KeepsStates(k)
        /\ \A b \in B : conAlloc'[c][b].state = "RELEASED"
        /\ \A b \in Box \ B : conAlloc'[c][b].state = conAlloc[c][b].state
    BY <1>0, <1>4, MarkedStates
  <2>2. \A b \in Box \ B : KeepsCustody(b)
    <3>1. \A b \in Box \ B : SameClaims(b)
      BY <1>0, <2>1 DEF SameClaims, KeepsStates
    <3> QED
      BY <1>1, <3>1, SameCustody
  <2>3. ASSUME NEW b \in B
        PROVE  InCustody(b, "EXPECTED", c) /\ InCustody(b, "SUPPLIER", None)'
    <3>1. shipAlloc[b].state = "NONE" /\ Claims(b) = {c} /\ InCustody(b, "EXPECTED", c)
      BY <1>1, <1>4, OneClaim DEF CustodyInv, CustodyRead, Live, Waiting
    <3>2. \A k \in Consolidation : k # c => conAlloc[k][b].state \notin Live
      BY <3>1 DEF Claims, Live
    <3>3. Unclaimed(b)'
      BY <1>0, <2>1, <3>1, <3>2 DEF Unclaimed, KeepsStates, Live, Waiting
    <3> QED
      BY <1>1, <3>1, <3>3 DEF CustodyRead
  <2>4. Custody!Move(B, "EXPECTED", "SUPPLIER", None)
    BY <2>2, <2>3, CustodyMoves DEF InCustody
  <2>5. B \subseteq Custody!HeldBy(c)
    BY <2>3, CustodyHeld DEF InCustody
  <2> QED
    BY <2>4, <2>5 DEF Custody!Next, Custody!GiveBack
<1>5. ASSUME NEW b \in Box, ReceiveBox(c, b) PROVE Custody!Next
  <2>1. conAlloc[c][b].state \in Waiting /\ conAlloc' = Marked(c, {b}, "RECEIVED")
    BY <1>5 DEF ReceiveBox
  <2>2. /\ \A k \in Consolidation : k # c => KeepsStates(k)
        /\ conAlloc'[c][b].state = "RECEIVED"
        /\ \A a \in Box : a # b => conAlloc'[c][a].state = conAlloc[c][a].state
    <3>1. PICK B : B = {b}
      OBVIOUS
    <3>2. conAlloc' = Marked(c, B, "RECEIVED")
      BY <2>1, <3>1
    <3>3. /\ \A k \in Consolidation : k # c => KeepsStates(k)
          /\ \A a \in Box : /\ a \in B => conAlloc'[c][a].state = "RECEIVED"
                            /\ a \notin B => conAlloc'[c][a].state = conAlloc[c][a].state
      BY <1>0, <3>2, MarkedStates
    <3> QED
      BY <3>1, <3>3
  <2>3. \A a \in Box \ {b} : KeepsCustody(a)
    <3>1. \A a \in Box \ {b} : SameClaims(a)
      BY <1>0, <2>2 DEF SameClaims, KeepsStates
    <3> QED
      BY <1>1, <3>1, SameCustody
  <2>4. InCustody(b, "EXPECTED", c) /\ InCustody(b, "AT_SITE", c)'
    BY <1>1, <2>1, <2>2 DEF CustodyRead, Live, Waiting
  <2>5. PICK B \in SUBSET Box : B = {b}
    OBVIOUS
  <2>6. Custody!Move(B, "EXPECTED", "AT_SITE", c)
    BY <2>3, <2>4, <2>5, CustodyMoves DEF InCustody
  <2>7. b \in Custody!HeldBy(c)
    BY <2>4, CustodyHeld DEF InCustody
  <2> QED
    BY <2>5, <2>6, <2>7 DEF Custody!Next, Custody!Receive
<1>6. ASSUME NEW B \in SUBSET Box, AllocateBoxes(c, B) PROVE Custody!Next
  <2>1. /\ \A b \in B : conAlloc'[c][b].state = "ALLOCATED"
        /\ \A b \in Box \ B : conAlloc'[c][b] = conAlloc[c][b]
        /\ \A k \in Consolidation \ {c} : conAlloc'[k] = conAlloc[k]
        /\ \A b \in B : Active(b) = {}
    BY <1>0, <1>6 DEF AllocateBoxes, ConsolidationTypeOK, Reserve, BoxIsFree
  <2>2. \A b \in Box \ B : KeepsCustody(b)
    <3>1. \A b \in Box \ B : SameClaims(b)
      BY <1>0, <2>1 DEF SameClaims
    <3> QED
      BY <1>1, <3>1, SameCustody
  <2>3. ASSUME NEW b \in B
        PROVE  InCustody(b, "SUPPLIER", None) /\ InCustody(b, "EXPECTED", c)'
    <3>1. Unclaimed(b)
      BY <1>1, <2>1 DEF Unclaimed, BoxInv, ConsolidationRow, ShipmentRow, Active, RowStateOf, Live, Waiting
    <3> QED
      BY <1>1, <2>1, <3>1 DEF CustodyRead, Live, Waiting
  <2>4. Custody!Move(B, "SUPPLIER", "EXPECTED", c)
    BY <2>2, <2>3, CustodyMoves DEF InCustody
  <2> QED
    BY <2>4 DEF Custody!Next, Custody!Claim
<1>7. ASSUME NEW b \in Box, RemoveBox(c, b) \/ ControlledRelease(c, b) PROVE Custody!Next
  <2>1. PICK B \in SUBSET Box : B = {b}
    OBVIOUS
  <2>2. conAlloc[c][b].state \in Waiting /\ conAlloc' = Marked(c, B, "RELEASED")
    BY <1>7, <2>1 DEF RemoveBox, ControlledRelease, Waiting
  <2> QED
    BY <1>4, <2>1, <2>2
<1>8. ASSUME CancelConsolidation(c) PROVE Custody!Next
  <2>1. PICK B \in SUBSET Box : B = {b \in Box : conAlloc[c][b].state # "NONE"}
    OBVIOUS
  <2>2. (\A b \in B : conAlloc[c][b].state \in Waiting) /\ conAlloc' = Marked(c, B, "RELEASED")
    BY <1>8, <2>1 DEF CancelConsolidation, Waiting
  <2> QED
    BY <1>4, <2>2
<1>9. ASSUME NEW b \in Box, SubmitHandover(c, b) \/ MarkException(c, b)
      PROVE  UNCHANGED Custody!custodyVars
  BY <1>3, <1>9 DEF SubmitHandover, MarkException, Waiting
<1>10. ASSUME NEW s \in Site, NEW r \in Region, CreateConsolidation(c, s, r) \/ UpdateConsolidation(c, s, r)
       PROVE  UNCHANGED Custody!custodyVars
  BY <1>2, <1>10 DEF CreateConsolidation, UpdateConsolidation
<1>11. ReleaseConsolidation(c) \/ Ready(c) => UNCHANGED Custody!custodyVars
  BY <1>2 DEF ReleaseConsolidation, Ready
<1> QED
  BY <1>5, <1>6, <1>7, <1>8, <1>9, <1>10, <1>11 DEF ConsolidationStep

\* A shipment holds the boxes that are loaded in it.
LEMMA ShipmentHolds ==
    ASSUME TypeOK, CustodyReads, NEW s \in Shipment, NEW b \in Box
    PROVE  CustodyHolder(b) = s <=> shipAlloc[b].shipment = s
<1>0. CustodyRead(b)
  BY DEF CustodyReads
<1>1. CASE shipAlloc[b].state # "NONE"
  BY <1>0, <1>1 DEF CustodyRead, InCustody, OnTheWay
<1>2. CASE shipAlloc[b].state = "NONE"
  <2>1. shipAlloc[b].shipment # s
    BY <1>2, LoadedHasShipment
  <2>2. CASE Unclaimed(b)
    BY <1>0, <2>1, <2>2, ConsolidationAssumption DEF CustodyRead, InCustody
  <2>3. ASSUME NEW c \in Consolidation, conAlloc[c][b].state \in Live
        PROVE  CustodyHolder(b) # s
    BY <1>0, <2>3, ConsumptionAssumption DEF CustodyRead, InCustody
  <2> QED
    BY <1>2, <2>1, <2>2, <2>3 DEF Unclaimed
<1> QED
  BY <1>1, <1>2

\* Boxes that shipment s takes, ships or brings on.
LEMMA LoadCustody ==
    ASSUME CustodyInv, MilestonesInv, CustodyReads, CustodyReads', NEW s \in Shipment,
           NEW c \in Consolidation, NEW B \in SUBSET Box, LoadBoxes(s, c, B)
    PROVE  Custody!Next
<1>0. TypeOK /\ ConsolidationTypeOK
  BY DEF CustodyInv, TypeOK
<1>1. \A b \in Box : CustodyRead(b) /\ CustodyRead(b)'
  BY DEF CustodyReads
<1>2. /\ \A b \in B : shipAlloc'[b].state = "TRANSFERRED" /\ shipAlloc'[b].shipment = s
      /\ \A b \in Box \ B : shipAlloc'[b] = shipAlloc[b]
      /\ shipStatus[s] \in {"DRAFT", "LOADING"}
  BY DEF LoadBoxes
<1>3. Taken(c, B) /\ OthersStay(c)
  BY <1>0, TransferTakes DEF LoadBoxes
<1>4. \A b \in Box \ B : KeepsCustody(b)
  <2>1. \A b \in Box \ B : SameClaims(b)
    BY <1>2, <1>3 DEF SameClaims, Taken, OthersStay, KeepsConsolidation, KeepsStates
  <2> QED
    BY <1>1, <2>1, SameCustody
<1>5. \A b \in B : InCustody(b, "AT_SITE", c) /\ InCustody(b, "LOADED", s)'
  BY <1>1, <1>2, <1>3 DEF CustodyRead, Taken, Live, InCustody
<1>6. Custody!Move(B, "AT_SITE", "LOADED", s)
  BY <1>4, <1>5, CustodyMoves DEF InCustody
<1>7. B \subseteq Custody!HeldBy(c)
  BY <1>5, CustodyHeld DEF InCustody
<1>8. ASSUME NEW b \in Custody!HeldBy(s) PROVE b \in Box /\ CustodyPlace(b) = "LOADED"
  <2>1. b \in Box /\ CustodyHolder(b) = s
    BY CustodyHeld
  <2>2. shipAlloc[b].shipment = s
    BY <1>0, <2>1, ShipmentHolds
  <2>3. shipAlloc[b].state = "TRANSFERRED"
    BY <1>2, <2>1, <2>2 DEF MilestonesInv, MilestoneInv, CargoAt
  <2> QED
    BY <1>1, <2>1, <2>3 DEF CustodyRead, InCustody
<1> QED
  BY <1>6, <1>7, <1>8 DEF Custody!Next, Custody!Load

LEMMA DispatchCustody ==
    ASSUME CustodyInv, MilestonesInv, CustodyReads, CustodyReads', NEW s \in Shipment,
           NEW B \in SUBSET Box, Dispatch(s, B)
    PROVE  Custody!Next
<1>0. TypeOK
  BY DEF CustodyInv
<1>1. \A b \in Box : CustodyRead(b) /\ CustodyRead(b)'
  BY DEF CustodyReads
<1>2. /\ \A b \in B : /\ shipAlloc[b].state = "TRANSFERRED" /\ shipAlloc[b].shipment = s
                      /\ shipAlloc'[b] = [shipAlloc[b] EXCEPT !.state = "DISPATCHED"]
      /\ \A b \in Box \ B : shipAlloc'[b] = shipAlloc[b]
      /\ shipStatus[s] \in {"CUSTOMS_DECLARED", "DISPATCHED"}
      /\ conAlloc' = conAlloc
  BY DEF Dispatch, consolidationVars
<1>3. \A b \in Box \ B : KeepsCustody(b)
  <2>1. \A b \in Box \ B : SameClaims(b)
    BY <1>2 DEF SameClaims
  <2> QED
    BY <1>1, <2>1, SameCustody
<1>4. ASSUME NEW b \in B
      PROVE  InCustody(b, "LOADED", s) /\ InCustody(b, "SHIPPED", s)'
  <2>1. b \in Box /\ shipAlloc[b] \in ShipAllocation \cup {NoShipAllocation} /\ shipAlloc[b].shipment = s
    BY <1>0, <1>2 DEF TypeOK
  <2>2. /\ [shipAlloc[b] EXCEPT !.state = "DISPATCHED"].shipment = s
        /\ [shipAlloc[b] EXCEPT !.state = "DISPATCHED"].state = "DISPATCHED"
    BY <2>1, OnTheWaySet
  <2>3. shipAlloc'[b].shipment = s /\ shipAlloc'[b].state = "DISPATCHED"
    BY <1>2, <2>2
  <2> QED
    BY <1>1, <1>2, <2>1, <2>3 DEF CustodyRead, InCustody
<1>5. Custody!Move(B, "LOADED", "SHIPPED", s)
  BY <1>3, <1>4, CustodyMoves DEF InCustody
<1>6. B \subseteq Custody!HeldBy(s)
  BY <1>4, CustodyHeld DEF InCustody
<1>7. ASSUME NEW b \in Custody!HeldBy(s)
      PROVE  b \in Box /\ CustodyPlace(b) \in {"LOADED", "SHIPPED"}
  <2>1. b \in Box /\ CustodyHolder(b) = s
    BY CustodyHeld
  <2>2. shipAlloc[b].shipment = s
    BY <1>0, <2>1, ShipmentHolds
  <2>3. shipAlloc[b].state \in {"TRANSFERRED", "DISPATCHED"}
    BY <1>2, <2>1, <2>2 DEF MilestonesInv, MilestoneInv, CargoAt
  <2> QED
    BY <1>1, <2>1, <2>3 DEF CustodyRead, InCustody
<1> QED
  BY <1>5, <1>6, <1>7 DEF Custody!Next, Custody!Ship

LEMMA ArriveCustody ==
    ASSUME CustodyInv, CustodyReads, CustodyReads', NEW s \in Shipment,
           NEW before, NEW after, NEW fromState, NEW toState, NEW from, NEW to,
           fromState # "NONE", Arrive(s, before, after, fromState, toState),
           \A b \in Box : shipAlloc[b].state = fromState => InCustody(b, from, shipAlloc[b].shipment),
           \A b \in Box : (shipAlloc[b].state = toState => InCustody(b, to, shipAlloc[b].shipment))'
    PROVE  Custody!Move(Custody!HeldBy(s), from, to, s)
<1>0. TypeOK
  BY DEF CustodyInv
<1>1. \A b \in Box : CustodyRead(b) /\ CustodyRead(b)'
  BY DEF CustodyReads
<1>2. PICK B \in SUBSET Box : B = Cargo(s)
  BY DEF Cargo
<1>3. /\ \A b \in B : /\ shipAlloc[b].state = fromState /\ shipAlloc[b].shipment = s
                      /\ shipAlloc'[b] = [shipAlloc[b] EXCEPT !.state = toState]
      /\ \A b \in Box \ B : shipAlloc'[b] = shipAlloc[b]
      /\ conAlloc' = conAlloc
  BY <1>2 DEF Arrive, AllAt, Cargo, consolidationVars
<1>4. \A b \in Box \ B : KeepsCustody(b)
  <2>1. \A b \in Box \ B : SameClaims(b)
    BY <1>3 DEF SameClaims
  <2> QED
    BY <1>1, <2>1, SameCustody
<1>5. ASSUME NEW b \in B
      PROVE  InCustody(b, from, s) /\ InCustody(b, to, s)'
  <2>1. b \in Box /\ shipAlloc[b] \in ShipAllocation \cup {NoShipAllocation} /\ shipAlloc[b].shipment = s
    BY <1>0, <1>3 DEF TypeOK
  <2>2. /\ [shipAlloc[b] EXCEPT !.state = toState].shipment = s
        /\ [shipAlloc[b] EXCEPT !.state = toState].state = toState
    BY <2>1, OnTheWaySet
  <2>3. shipAlloc'[b].shipment = s /\ shipAlloc'[b].state = toState
    BY <1>3, <2>2
  <2>4. InCustody(b, from, s)
    BY <1>3, <2>1
  <2>5. InCustody(b, to, shipAlloc[b].shipment)'
    BY <2>1, <2>3
  <2> QED
    BY <2>3, <2>4, <2>5 DEF InCustody
<1>6. Custody!Move(B, from, to, s)
  BY <1>4, <1>5, CustodyMoves DEF InCustody
<1>7. B = Custody!HeldBy(s)
  <2>1. \A b : b \in Custody!HeldBy(s) <=> b \in Box /\ CustodyHolder(b) = s
    BY CustodyHeld
  <2>2. \A b \in Box : CustodyHolder(b) = s <=> shipAlloc[b].shipment = s
    BY <1>0, ShipmentHolds
  <2> QED
    BY <1>2, <2>1, <2>2 DEF Cargo
<1> QED
  BY <1>6, <1>7

LEMMA ShipmentCustody ==
    ASSUME CustodyInv, MilestonesInv, CustodyReads, CustodyReads', NEW s \in Shipment,
           ShipmentStep(s)
    PROVE  Custody!Next \/ UNCHANGED Custody!custodyVars
<1>1. \A b \in Box : CustodyRead(b) /\ CustodyRead(b)'
  BY DEF CustodyReads
<1>2. ASSUME UNCHANGED <<shipAlloc, conAlloc>> PROVE UNCHANGED Custody!custodyVars
  <2>1. \A b \in Box : SameClaims(b)
    BY <1>2 DEF SameClaims
  <2> QED
    BY <1>1, <2>1, SameCustody, CustodyUnchanged
<1>3. ASSUME NEW r \in Region, NEW o \in Site \cup {None}, CreateShipment(s, r, o) \/ UpdateShipment(s, r, o)
      PROVE  UNCHANGED Custody!custodyVars
  BY <1>2, <1>3 DEF CreateShipment, UpdateShipment, consolidationVars
<1>4. DeclareCustoms(s) \/ CancelShipment(s) => UNCHANGED Custody!custodyVars
  BY <1>2 DEF DeclareCustoms, CancelShipment, consolidationVars
<1>5. CASE PortArrival(s)
  <2>1. Custody!Move(Custody!HeldBy(s), "SHIPPED", "AT_PORT", s)
    BY <1>1, <1>5, ArriveCustody DEF PortArrival, CustodyRead
  <2> QED
    BY <2>1 DEF Custody!Next, Custody!Arrive
<1>6. CASE WarehouseArrival(s)
  <2>1. Custody!Move(Custody!HeldBy(s), "AT_PORT", "AT_WAREHOUSE", s)
    BY <1>1, <1>6, ArriveCustody DEF WarehouseArrival, CustodyRead
  <2> QED
    BY <2>1 DEF Custody!Next, Custody!Arrive
<1>7. CASE Clear(s)
  <2>1. Custody!Move(Custody!HeldBy(s), "AT_WAREHOUSE", "CLEARED", s)
    BY <1>1, <1>7, ArriveCustody DEF Clear, CustodyRead
  <2> QED
    BY <2>1 DEF Custody!Next, Custody!Arrive
<1> QED
  BY <1>3, <1>4, <1>5, <1>6, <1>7, LoadCustody, DispatchCustody DEF ShipmentStep

\* Consolidations and shipments together keep the abstract custody of a box: every
\* transaction moves boxes one place along their way, or nothing a customer sees.
THEOREM ImplementsCustodyHolds == Spec => ImplementsCustody
<1>1. Init /\ CustodyReads => Custody!Init
  <2> SUFFICES ASSUME Init, CustodyReads PROVE Custody!Init
    OBVIOUS
  <2>1. \A b \in Box : Unclaimed(b)
    BY DEF Init, ConsolidationInit, NoShipAllocation, Unclaimed, Live, Waiting
  <2>2. \A b \in Box : CustodyPlace(b) = "SUPPLIER" /\ CustodyHolder(b) = None
    BY <2>1 DEF CustodyReads, CustodyRead, InCustody
  <2> QED
    BY <2>2 DEF Custody!Init
<1>2. CustodyInv /\ MilestonesInv /\ CustodyReads /\ CustodyReads' /\ [Next]_vars
          => [Custody!Next]_(Custody!custodyVars)
  <2> SUFFICES ASSUME CustodyInv, MilestonesInv, CustodyReads, CustodyReads', [Next]_vars
               PROVE  Custody!Next \/ UNCHANGED Custody!custodyVars
    OBVIOUS
  <2>1. ASSUME UNCHANGED <<shipAlloc, conAlloc>> PROVE UNCHANGED Custody!custodyVars
    <3>1. \A b \in Box : SameClaims(b) /\ CustodyRead(b) /\ CustodyRead(b)'
      BY <2>1 DEF SameClaims, CustodyReads
    <3> QED
      BY <3>1, SameCustody, CustodyUnchanged
  <2>2. SiteStep /\ UNCHANGED shipmentVars => UNCHANGED Custody!custodyVars
    BY <2>1 DEF SiteStep, UpdateSite, DeactivateSite, shipmentVars
  <2>3. UNCHANGED vars => UNCHANGED Custody!custodyVars
    BY <2>1 DEF vars, consolidationVars, shipmentVars
  <2> QED
    BY <2>2, <2>3, ConsolidationCustody, ShipmentCustody DEF Next
<1> QED
  BY <1>1, <1>2, CustodyInvariant, MilestonesHold, CustodyReadsHold, PTL
     DEF Spec, ImplementsCustody, Custody!Spec

=============================================================================
