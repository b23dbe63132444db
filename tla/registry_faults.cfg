SPECIFICATION Spec
CONSTANTS
    Procs = {p1}
    Subkeys = {1, 2, 3, 4, 5, 6}
    Foreign = {3}
    Names = {n1, n2}
    Dirs = {d1, d2}
    NoValue = NoValue
    MaxCommands = 3
    MaxMishaps = 2
SYMMETRY Symmetry
INVARIANTS TypeOK NamesUnique NoSilentFailure
PROPERTY RegisterNeedsNames
