SPECIFICATION Spec
CONSTANTS
    c1 = c1
    c2 = c2
    map = map
    shape = shape
    Clients = {c1, c2}
    Files = {map, shape}
    NoFile = NoFile
    Newest <- MCNewest
    Wanted <- MCWanted
    Size <- MCSize
    Unsteady = {c1}
    Chunk = 2
    MaxNotices = 1
PROPERTY KeepsItsOwn
