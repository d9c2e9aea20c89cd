CONSTANTS
    s1 = s1
    s2 = s2
    s3 = s3
    s4 = s4
    a1 = a1
    h1 = h1
    h2 = h2
    Urls <- Pages
    Sections <- Menu
    Handlers <- Events
    MaxItems = 1
    MaxKills = 1
SPECIFICATION Spec
INVARIANTS TypeOK   CachedIsMarked
SYMMETRY Symmetry
