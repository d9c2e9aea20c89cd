CONSTANTS
    Commands = {"build", "sass", "js", "cssmin", "jsmin", "sw"}
    Blank = Blank
    MaxEdits = 2
SPECIFICATION Spec
INVARIANTS TypeOK BuildIsComplete
PROPERTIES ImplementsReleases CommandsEnd
CHECK_DEADLOCK FALSE
