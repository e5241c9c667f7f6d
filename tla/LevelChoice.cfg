CONSTANTS
    p1 = p1
    p2 = p2
    p3 = p3
    l1 = l1
    l2 = l2
    l3 = l3
    l4 = l4
    m1 = m1
    m2 = m2
    m3 = m3
    Player = {p1, p2, p3}
    Files <- FourFiles
    Playlist <- FourPlaylist
    Loads = {l1, l2, l3}
    Sessions <- TwiceL1
    Pattern = {m1, m2, m3}
    Matches <- Unique
    None = None
    Modulus = 8
SPECIFICATION Spec
SYMMETRY Symmetry
INVARIANTS
    TypeOK
PROPERTIES
    VotesDecide
    RotationInOrder
    PromiseKept
