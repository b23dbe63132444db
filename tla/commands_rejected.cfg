SPECIFICATION Spec
CONSTANTS
    Procs = {p1}
    Ops = {"install", "uninstall", "register", "unregister", "move", "duplicate"}
    Names = {n1, n2}
    Installed = {n1}
    Dirs = {d1, d2}
    RootDirs = {}
    Parts = {init, file}
    InitFile = init
    OneDrive = TRUE
    Image = image
    NoValue = NoValue
    MaxCommands = 1
    MaxMishaps = 0
SYMMETRY Symmetry
INVARIANT RejectedLeavesNothing
