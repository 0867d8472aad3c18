SPECIFICATION Spec
INVARIANTS
    SealedReadable
    AckedOnDisk
    RotationVisible
    ChainVerifies
CONSTANTS
    b1 = b1
    Blobs <- OneBlob
    MaxSeals = 2
    MaxLines = 5
    MaxCrashes = 2
    MaxDiskErrors = 2
CHECK_DEADLOCK FALSE
