----------------------------- MODULE MCDownload -----------------------------
EXTENDS Download, TLC

CONSTANTS c1, c2, map, shape

\* A version of one chunk exactly, so that an empty block ends it, and one of a chunk and a half.
MCSize == <<2, 3>>

\* The map may be replaced once; the server does not know the shape.
MCNewest == (map :> 2) @@ (shape :> 0)
MCWanted == (c1 :> {map, shape}) @@ (c2 :> {map})

\* Nobody has the map yet, which was never packed; only c1 has the shape.
MCInit ==
    /\ Init
    /\ \A c \in Clients : local[c][map] = Absent
    /\ current[map] = 1 /\ packed[map] = Absent
    /\ packed[shape] = Absent /\ current[shape] = Absent /\ local[c1][shape] = 1

MCSpec == MCInit /\ [][Next]_vars /\ Fairness
=============================================================================
