SPECIFICATION Spec
CONSTANTS
    Apps = {"ap2001", "ap2002"}
    Context <- MCContext
    Catalogues <- MCCatalogues
    Pushes <- MCPushes
INVARIANT DocumentRight
INVARIANT LeavesWritten
INVARIANT FailuresTrue
INVARIANT InventoryRight
