SPECIFICATION Spec
CONSTANTS
    rootfs = rootfs
    var = var
    home = home
    mount = mount
    cache = cache
    log = log
    user = user
    disk = disk
    Folders <- MCFolders
    Files <- MCFiles
    Above <- MCAbove
    Rootfs = rootfs
    Relocated = {home}
    Shadow = {mount}
    Base = base
    Nothing = nothing
    Old = old
    Sources = {"v1", "v2", "legacy"}
    Targets = {"v1", "v2", "legacy", "archive"}
    MaxOdd = 2
    MaxMishaps = 1
INVARIANTS TypeOK CopyFaithful FailsForCause
PROPERTY AttributesStay
