SPECIFICATION FairSpec
CONSTANTS
    Target = {"Card", "types"}
    Hidden = {"_shared"}
    Exports <- MCExports
    MaxEdits = 3
    MaxCrashes = 1
    MaxVisits = 1
INVARIANTS GeneratedIsCurrent ShownIsCurrent
PROPERTY PreviewSettles
CHECK_DEADLOCK FALSE
