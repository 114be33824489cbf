SPECIFICATION ImageSpec
CONSTANTS
    Size = 3
    ChunkSize = 2
    Images = {a, b}
    NoImage = NoImage
    Values = {0, 1}
    Zero = 0
    Unknown = Unknown
    Faults = {"copy"}
INVARIANT ReadBack
