SPECIFICATION Spec
CONSTANTS
    Finger = {f1, f2, f3, f4, f5}
    NoSlot = NoSlot
    MaxSlots = 4
    ToolCount = 2
INVARIANTS
    SlotBookkeeping
    KernelShowsFingers
PROPERTIES
    SlotKeepsFinger
