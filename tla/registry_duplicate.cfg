SPECIFICATION Spec
CONSTANTS
    Procs = {p1, p2}
    Subkeys = {1, 2, 3, 4, 5}
    Foreign = {3}
    Names = {n1, n2}
    Dirs = {d1}
    NoValue = NoValue
    MaxCommands = 2
    MaxMishaps = 0
SYMMETRY Symmetry
INVARIANT NamesUnique
