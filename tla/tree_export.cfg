SPECIFICATION Spec
CONSTANTS
    rootfs = rootfs
    var = var
    home = home
    mount = mount
    cache = cache
    log = log
    user = user
    disk = disk
    Folders <- MCFolders
    Files <- MCFiles
    Above <- MCAbove
    Rootfs = rootfs
    Relocated = {home}
    Shadow = {mount}
    Base = base
    Nothing = nothing
    Old = old
    Sources = {"v1", "v2", "legacy"}
    Targets = {"archive"}
    MaxOdd = 2
    MaxMishaps = 0
INVARIANT ExportImports
