SPECIFICATION Spec
CONSTANTS
    Procs = {p1}
    Ops = {"install", "uninstall", "register", "unregister", "move", "duplicate"}
    Names = {n1, n2}
    Installed = {n1}
    Dirs = {d1, d2, d3}
    RootDirs = {d3}
    Parts = {init, file}
    InitFile = init
    OneDrive = TRUE
    Image = image
    NoValue = NoValue
    MaxCommands = 3
    MaxMishaps = 1
SYMMETRY Symmetry
INVARIANT SuccessIsComplete
