SPECIFICATION Spec
CONSTANTS
    k1 = k1
    k2 = k2
    k3 = k3
    k4 = k4
    k5 = k5
    a = a
    b = b
    NULL = NULL
    Keys <- MCKeys
    Values <- MCValues
    Hashes <- MCHashes
    InitSize = 4
    MaxAlloc = 16
SYMMETRY Interchangeable
INVARIANTS TypeOK TableIsSound RoomToInsert
PROPERTIES IsDictionary
