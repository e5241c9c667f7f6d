CONSTANTS
    p1 = p1
    p2 = p2
    p3 = p3
    l1 = l1
    l2 = l2
    l3 = l3
    l4 = l4
    m1 = m1
    m2 = m2
    m3 = m3
    Player = {p1}
    Files <- FourFiles
    Playlist <- FourPlaylist
    Loads = {l1, l2, l3, l4}
    Sessions <- OnceEach
    Pattern = {m1}
    Matches <- Ambiguous
    None = None
    Modulus = 256
SPECIFICATION Spec
PROPERTIES
    PromiseKept
