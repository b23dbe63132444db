SPECIFICATION Spec
CONSTANTS
    Procs = {p1, p2}
    Ops = {"move"}
    Names = {n1}
    Installed = {n1}
    Dirs = {d1, d2}
    RootDirs = {}
    Parts = {init, file}
    InitFile = init
    OneDrive = FALSE
    Image = image
    NoValue = NoValue
    MaxCommands = 3
    MaxMishaps = 0
SYMMETRY Symmetry
INVARIANT WholeCopySurvives
