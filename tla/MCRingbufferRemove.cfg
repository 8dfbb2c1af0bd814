SPECIFICATION RingSpec
CONSTANTS
    Size = 3
    Byte = {0, 1}
    MaxCount = 3
    Outside = outside
    RemoveToEnd = TRUE
PROPERTY RefinesFifo
