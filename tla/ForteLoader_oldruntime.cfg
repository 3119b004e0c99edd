SPECIFICATION Spec
CONSTANTS
    Names = {"forte", "a.fboot"}
    Fboot = {"a.fboot"}
    Contents = {v1, v2}
    Absent = Absent
    Mixed = Mixed
    MaxFiles = 2
    Platforms = {"linux"}
    ForteExecutableName = "forte"
PROPERTIES
    LoadedIntoInstalled
