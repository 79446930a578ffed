\* Two containers that start together on a store of any revision, two faults
\* (crashes, outages, downgrades), connections of the old and the new release.
SPECIFICATION Spec
CONSTANTS
    Containers = {c1, c2}
    Names = {n1, n2}
    NoValue = NoValue
    Service = Service
    MaxTries = 2
    MaxConnections = 1
    MaxFaults = 2
INVARIANTS
    HeadIsTheModels
    LoginsSurvive
PROPERTIES
    UpgradesEndAtHead
    EveryContainerServes
CHECK_DEADLOCK FALSE
