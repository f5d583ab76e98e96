SPECIFICATION Spec
CONSTANTS
    n1 = n1
    n2 = n2
    n3 = n3
    n4 = n4
    n5 = n5
    Addresses <- MCAddresses
    Null = Null
    NClusters = 7
    Portion = 3
INVARIANTS
    RingSound
    SearchesFind
PROPERTIES
    ImplementsFreeSpace
SYMMETRY Symmetry
