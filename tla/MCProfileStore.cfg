SPECIFICATION Spec
CONSTANTS
    Ids = {p1, p2, p3}
    Names = {n1, n2}
    Data = {d1, d2}
    Automatic = n1
    NoName = NoName
    Missing = Missing
    NoId = NoId
    NoIndex = NoIndex
INVARIANTS NoDangling StoreInv
PROPERTY ImplementsProfileBook
