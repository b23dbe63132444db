SPECIFICATION Spec
CONSTANTS
    present = present
    fresh = fresh
    Procs = {p1, p2}
    Names = {present, fresh}
    Installed = {present}
    Files <- MCFiles
    Entries <- MCEntries
    Blank = Blank
    EnvLists <- MCEnvLists
    Plain = {u0, u1}
    DefaultEnv <- MCDefault
    DefaultPlain = u0
    Commands <- MCCommands
    NoValue = NoValue
    MaxCommands = 3
    MaxMishaps = 1
SYMMETRY Symmetry
INVARIANTS TypeOK Accounted MarkKept
PROPERTY ExportIsCurrent
