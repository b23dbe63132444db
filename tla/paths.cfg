SPECIFICATION Spec
CONSTANTS
    Names <- MCNames
    Foreign <- MCForeign
    EntryNames <- MCEntryNames
    Roots <- MCRoots
    NoRoot = NoRoot
    Bases <- MCBases
    Sources = {"linux", "v1", "v2", "legacy"}
    Targets = {"linux", "v1", "v2", "legacy"}
    MaxDepth = 3
    Folders <- MCFolders
    Files <- MCFiles
INVARIANTS TypeOK Placed ComesBack NotIntoItself FollowsLayout
