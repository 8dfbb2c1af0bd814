SPECIFICATION DataSpec
CONSTANTS
    n1 = n1
    n2 = n2
    n3 = n3
    n4 = n4
    n5 = n5
    n6 = n6
    Size = 3
    Byte = {0, 1}
    MaxCount = 4
    Outside = outside
    RemoveToEnd = FALSE
    UINT_BITS = 4
    Sizes = {0, 1, 2, 4}
    Values = {x, y}
    Node = {n1, n2, n3, n4, n5, n6}
    NULL = NULL
    list = list
    Key <- MCKey
    PqNode = {n1, n2, n3, n4}
    PqNull = NULL
    root = root
    Priorities = {1, 2}
    N = 4
    MaxBits = 3
INVARIANTS BufferIsFifo PriorityThenArrival ArrayIsStack BitFunctionsExact
PROPERTIES RefinesFifo RefinesList
