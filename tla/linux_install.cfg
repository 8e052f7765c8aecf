CONSTANTS
    ann = ann
    bob = bob
    optA = optA
    optB = optB
    Admins <- MCAdmins
    Paths <- MCPaths
    Versions <- MCVersions
    MaxRuns = 3
    MaxFaults = 2
SPECIFICATION Spec
SYMMETRY MCSymmetry
INVARIANTS InstalledComesBack UninstalledStaysAway OneRunRepairs LinkHasItsUnit
