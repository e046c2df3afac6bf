\* Two consolidations compete for two boxes and feed two shipments.
SPECIFICATION Spec
CONSTANTS
    Box = {box1, box2}
    Consolidation = {con1, con2}
    Shipment = {ship1, ship2}
    Site = {site1}
    Region = {north, south}
    None = None
    MaxRows = 2
SYMMETRY Perms
CHECK_DEADLOCK FALSE
INVARIANTS
    TypeOK
    OneActiveConsumer
    AllocationHasRow
    HolderHasAllocation
    ShippedOnce
    ShipmentMilestones
    ConsolidationStages
    RouteAgreement
PROPERTIES
    BoxesFrozenAfterRelease
    ImplementsCustody
