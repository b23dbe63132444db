SPECIFICATION Spec
CONSTANTS
    Procs = {p1, p2}
    Ops = {"install", "register", "unregister", "move", "duplicate"}
    Names = {n1, n2}
    Installed = {n1}
    Dirs = {d1, d2}
    RootDirs = {}
    Parts = {init, file}
    InitFile = init
    OneDrive = TRUE
    Image = image
    NoValue = NoValue
    MaxCommands = 2
    MaxMishaps = 1
SYMMETRY Symmetry
INVARIANTS TypeOK WholeCopySurvives
