CONSTANTS
    Byte = {"a", "b", "n", "0"}
    Newline = "n"
    Zero = "0"
    Modes <- MCModes
    Capacity = 3
    Memories <- MCMemories
    Files <- MCFiles
    Buffers = {0, 1, 2}
    UNGET = 1
    Faulty = TRUE
    MaxFile = 3
    MaxCall = 3
SPECIFICATION Spec
CONSTRAINT SmallFile
PROPERTIES
     CallsHonest
CHECK_DEADLOCK FALSE
