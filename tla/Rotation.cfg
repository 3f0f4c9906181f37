CONSTANTS
    A = A
    B = B
    R1 = R1
    R2 = R2
    None = None
    Apps = {A, B}
    Rotations = {R1, R2}
    Histories <- MCHistories
    MAX_RETRIES = 1
    MaxTrouble = 2
SPECIFICATION Spec
SYMMETRY Alike
CHECK_DEADLOCK FALSE
INVARIANTS
    SecretMintedOnce
    VaultServesALiveSecret
    EndSaysTheTruth
    ClaimIsRespected
    CacheHearsOfRotation
