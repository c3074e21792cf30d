SPECIFICATION PanelsSpec
CONSTANTS
    top = top
    bottom = bottom
    Area = {top, bottom}
    Lower <- Below
    Start <- InitialIndex
    Pointer = {p, q}
    NoSurface = NoSurface
    MaxQueue = 1
INVARIANTS
    NoGhostContact
    PenReleased
PROPERTIES
    PointersComeBack
SYMMETRY Fingers
