SPECIFICATION FairSpec
CONSTANTS
    Procs = {p1, p2}
    Subkeys = {1, 2, 3, 4}
    Foreign = {2}
    Names = {n1, n2}
    Dirs = {d1}
    NoValue = NoValue
    MaxCommands = 2
    MaxMishaps = 1
INVARIANT HeldPaths
PROPERTIES OnlyByName CommandsTerminate
