CONSTANTS
    Furthest = 245760
    ToSend <- Differences
SPECIFICATION DeltaSpec
INVARIANTS
    ClientReadsTheSame
    NeverOvershoots
    SendsAtLeast
PROPERTIES
    Converges
