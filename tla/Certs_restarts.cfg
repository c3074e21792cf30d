SPECIFICATION Spec
CONSTANTS
    Program = {p1, p2}
    CAKey = {c1, c2, c3, c4}
    LeafKey = {l1, l2, l3}
    Address = {a1}
    Unreadable = Unreadable
SYMMETRY Symmetry
INVARIANTS
    ServedCoherent
    InstalledOnce
    MirrorsDisk
CHECK_DEADLOCK FALSE
