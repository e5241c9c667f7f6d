CONSTANTS
    o1 = o1
    o2 = o2
    o3 = o3
    Object = {o1, o2, o3}
    Root = Root
    Hall = Hall
    Nobody = Nobody
    Outside = Outside
    Ann = Ann
    Bob = Bob
    Id = {Root, Hall, Ann, Bob}
    MaxLevel = 1
    RegisterLevel = 0
    TellLevel = 0
    GuestLevel = 1
    Flag = {"Invite"}
SPECIFICATION Spec
SYMMETRY Alike
ACTION_CONSTRAINT Within
INVARIANTS
    RoomsInv
    DistinctNames
    DiskAgrees
