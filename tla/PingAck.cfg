CONSTANTS
    Modulus = 4
    MaxSent = 10
SPECIFICATION Spec
INVARIANTS
    MeasuresTheAnswered
    QueueInv
