CONSTANTS
    Headers <- MCHeaders
    Edits <- MCEdits
    MaxEdits = 2
    MaxFaults = 1
SPECIFICATION Spec
INVARIANTS CatalogComplete NestedFirst ReadersStayInside DescribedAsWritten BuildIsCurrent
