SPECIFICATION Spec
CONSTANTS
    Names = {"forte", "a.fboot", "b.fboot"}
    Fboot = {"a.fboot", "b.fboot"}
    Contents = {v1}
    Absent = Absent
    Mixed = Mixed
    MaxFiles = 2
    Platforms = {"linux"}
    ForteExecutableName = "forte"
INVARIANTS
    PackageLoaded
