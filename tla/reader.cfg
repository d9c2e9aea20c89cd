CONSTANTS
    Users = {u1, u2}
    Admins = {u2}
    Items = {i1, i2}
    Elements = 3
    PerRow = 2
    None = None
    MaxSubmits = 3
SPECIFICATION Spec
INVARIANTS TypeOK ShownIsOwn OwnDataOnly SubmenuStays SubmenuCloses 
