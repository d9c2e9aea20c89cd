CONSTANTS
    Blank = Blank
    None = None
    Missing = Missing
    MaxVersion = 1
    MaxInstalls = 2
    MaxFaults = 1
SPECIFICATION Spec
INVARIANTS TypeOK  FirstInstallComplete FreshAssets
PROPERTY Updated
CHECK_DEADLOCK FALSE
